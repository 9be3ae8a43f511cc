--------------------------- MODULE SandboxProofs ----------------------------
(***************************************************************************)
(* What is proved about the sandboxes and, in the second part, about the   *)
(* song library.  The two share nothing but this module.                   *)
(*                                                                         *)
(* The sandboxes: for any number of administrators, changes, requests,     *)
(* sockets and faults a request works in the sandbox it was admitted to, a *)
(* published sandbox is whole, and without faults nothing of an earlier    *)
(* one stays.  Everything rests on numbers that are given out once: a      *)
(* generation that is yet to be published is nowhere, so no workspace that *)
(* was left open ever looks like the one of a later generation.            *)
(*                                                                         *)
(* The library: for any number of scanners, requests, songs and            *)
(* disturbances one undisturbed scan makes the scanner's rows agree with   *)
(* the disk, and songs are described by the file they play.                *)
(***************************************************************************)
EXTENDS Sandbox, Library, Integers, WellFoundedInduction, TLAPS

(* Where a change stands while it holds the slot, while the workspace and  *)
(* the schema of the old sandbox go, and before it has published its own.  *)
Holding == {"provision", "revoke", "take", "close", "drop", "audio"}
Retiring == {"take", "close", "drop"}
Before == {"copy", "lock", "provision"}

Pending(a) == Installs(a) /\ change[a].at \in Before
Copied(a) == change[a].kind = "configure" /\ change[a].at \in {"lock", "provision"}

Changes ==
  [at : {"idle", "erase", "cleanup"} \cup Before \cup Holding,
   kind : {"none", "configure", "reset", "promote", "delete"},
   id : Nat, lib : Nat, seen : Nat, old : [gen : Nat, lib : Nat], taken : Nat,
   swept : BOOLEAN]

Shape ==
  /\ role \in {"demo", "admin", "gone"}
  /\ box \in [gen : Nat, lib : Nat]
  /\ schemas \subseteq Nat \ {0}
  /\ dirs \subseteq Nat \ {0}
  /\ slot \in Nat
  /\ lock \in Admins \cup {None}
  /\ stale \in BOOLEAN /\ stray \in BOOLEAN
  /\ change \in [Admins -> Changes]
  /\ request \in [Requests -> [at : {"away", "admission", "running"}, ws : Nat]]
  /\ socket \in [Sockets -> [at : {"away", "open", "command"}, ws : Nat]]
  /\ left \in [changes : Nat, calls : Nat, faults : Nat]
  /\ left.faults <= MaxFaults

(* Which change can stand where. *)
StepInv ==
  \A a \in Admins :
    /\ At(a, "idle") => change[a] = Idle
    /\ change[a].at \in {"copy", "cleanup"} => change[a].kind = "configure"
    /\ At(a, "provision") => Installs(a)
    /\ change[a].at \in {"revoke", "erase"} => ~ Installs(a)
    /\ ~ At(a, "idle") => change[a].kind # "none"

(* One change holds the slot, and no request runs beside it. *)
LockInv ==
  /\ \A a \in Admins : change[a].at \in Holding <=> lock = a
  /\ lock # None => \A r \in Requests : request[r].at # "running"

(* The generations that are referred to anywhere. *)
Ref(w) ==
  \/ w = slot
  \/ \E r \in Requests : request[r].ws = w
  \/ \E s \in Sockets : socket[s].ws = w
Published(w) ==
  \/ Ref(w)
  \/ w = box.gen
  \/ w \in schemas
  \/ \E a \in Admins : w = change[a].old.gen \/ w = change[a].seen

(* A generation that was not published is nowhere yet. *)
NumberInv ==
  /\ \A a \in Admins : ~ At(a, "idle") => change[a].id > left.changes
  /\ \A a, b \in Admins : a # b /\ ~ At(a, "idle") => change[a].id # change[b].id
  /\ \A w \in Nat : Published(w) => w = 0 \/ w > left.changes
  /\ \A a \in Admins : Pending(a) => ~ Published(change[a].id)

(* What a change has published or revoked, until it lets the slot go. *)
BoxInv ==
  /\ box # NoBox => box.gen # 0
  /\ \A a \in Admins : change[a].at \in Retiring \cup {"audio"} =>
       IF Installs(a)
       THEN \/ box = NoBox /\ role = "gone"
            \/ box = [gen |-> change[a].id, lib |-> change[a].lib]
       ELSE box = NoBox
  /\ \A a \in Admins : change[a].at \in Retiring =>
       change[a].old = NoBox \/ change[a].old.gen \notin {0, box.gen}

(* The registry has no workspace but that of the published generation,     *)
(* until the next change takes it.                                         *)
SlotInv ==
  /\ slot = 0 \/ box = NoBox \/ slot = box.gen \/ \E a \in Admins : At(a, "take")
  /\ \A a \in Admins : change[a].at \in {"close", "drop"} => slot = 0

Closing(w) == \E a \in Admins : At(a, "close") /\ change[a].taken = w
Abandoned(w) ==
  /\ stray
  /\ w # box.gen
  /\ \A a \in Admins : change[a].at \in Retiring => w # change[a].old.gen

(* A workspace that is open has its schema and is in the registry, about   *)
(* to be closed, or the one of an abandoned change.                        *)
OpenInv ==
  /\ \A w \in Nat \ (cancelled \cup {0}) :
       Ref(w) => w \in schemas /\ (w = slot \/ Closing(w) \/ Abandoned(w))
  /\ \A r \in Requests :
       /\ request[r].at # "away" => request[r].ws # 0
       /\ request[r].at = "running" => request[r].ws \notin cancelled
  /\ \A s \in Sockets :
       /\ socket[s].at # "away" => socket[s].ws # 0
       /\ socket[s].at = "command" => socket[s].ws \notin cancelled

(* A library that is being prepared is nobody else's. *)
LibInv ==
  /\ \A a \in Admins : change[a].kind = "configure" /\ ~ At(a, "idle") =>
       change[a].lib = change[a].id
  /\ \A a \in Admins : change[a].kind = "configure" /\ change[a].at \in Before =>
       /\ change[a].lib # box.lib
       /\ \A b \in Admins : change[b].old.lib # change[a].lib
       /\ \A b \in Admins \ {a} : change[b].lib # change[a].lib
  /\ \A a \in Admins : change[a].lib = 0 \/ change[a].lib > left.changes
  /\ \A a \in Admins : change[a].old.lib = 0 \/ change[a].old.lib > left.changes
  /\ box.lib = 0 \/ box.lib > left.changes

(* What is about to be published is there, or its removal was noted.       *)
WholeInv ==
  /\ PublishedIsWhole
  /\ \A a \in Admins : Copied(a) => change[a].lib \in dirs \/ change[a].swept
  /\ \A a \in Admins : change[a].kind = "reset" /\ change[a].at \in Before =>
       change[a].seen # 0 /\ (box.gen = change[a].seen => box.lib = change[a].lib)

(* Without faults, somebody still looks after whatever is to go. *)
LeftInv ==
  ~ Faulty /\ role # "gone" =>
    /\ \A w \in schemas :
         w = box.gen \/ \E a \in Admins : change[a].at \in Retiring /\ w = change[a].old.gen
    /\ \A l \in dirs :
         \/ l = box.lib
         \/ \E a \in Admins :
              \/ (Copied(a) \/ At(a, "cleanup")) /\ l = change[a].lib
              \/ change[a].at \in Retiring \cup {"audio"} /\ l = change[a].old.lib

IInv ==
  /\ Shape /\ StepInv /\ LockInv /\ NumberInv /\ BoxInv /\ SlotInv /\ OpenInv
  /\ EditsOfThisGeneration /\ LibInv /\ WholeInv /\ LeftInv
-----------------------------------------------------------------------------
(* The change of one administrator moves on, the others stay. *)
LEMMA Moves ==
  ASSUME Shape, NEW a \in Admins, NEW c \in Changes, change' = [change EXCEPT ![a] = c]
  PROVE  /\ change' \in [Admins -> Changes]
         /\ change'[a] = c
         /\ \A b \in Admins : b # a => change'[b] = change[b]
  BY DEF Shape

LEMMA Fields ==
  ASSUME Shape, NEW a \in Admins
  PROVE  /\ change[a] \in Changes
         /\ change[a].id \in Nat /\ change[a].lib \in Nat /\ change[a].seen \in Nat
         /\ change[a].old \in [gen : Nat, lib : Nat]
         /\ change[a].old.gen \in Nat /\ change[a].old.lib \in Nat
         /\ change[a].taken \in Nat /\ change[a].swept \in BOOLEAN
         /\ box.gen \in Nat /\ box.lib \in Nat /\ box = [gen |-> box.gen, lib |-> box.lib]
         /\ left.changes \in Nat /\ left.faults \in Nat /\ left.calls \in Nat
         /\ schemas \subseteq Nat \ {0} /\ dirs \subseteq Nat \ {0}
  BY DEF Shape, Changes

(* All but its place. *)
SameFields(a) ==
  /\ change'[a].kind = change[a].kind /\ change'[a].id = change[a].id
  /\ change'[a].lib = change[a].lib /\ change'[a].seen = change[a].seen
  /\ change'[a].swept = change[a].swept

LEMMA GoEffect ==
  ASSUME Shape, NEW a \in Admins, NEW place \in {"erase", "cleanup"} \cup Before \cup Holding,
         Go(a, place)
  PROVE  /\ change' \in [Admins -> Changes]
         /\ change'[a].at = place /\ SameFields(a)
         /\ change'[a].old = change[a].old /\ change'[a].taken = change[a].taken
         /\ \A b \in Admins : b # a => change'[b] = change[b]
  <1>1. [change[a] EXCEPT !.at = place] \in Changes
    BY DEF Shape, Changes, Before, Holding
  <1>2. change' = [change EXCEPT ![a] = [change[a] EXCEPT !.at = place]]
    BY DEF Go, Moved, Before, Holding, Shape
  <1>3. /\ change' \in [Admins -> Changes]
        /\ change'[a] = [change[a] EXCEPT !.at = place]
        /\ \A b \in Admins : b # a => change'[b] = change[b]
    BY <1>1, <1>2, Moves
  <1> QED
    BY <1>3, Fields DEF SameFields, Changes

LEMMA IdleEffect ==
  ASSUME Shape, NEW a \in Admins, Go(a, "idle")
  PROVE  /\ change' \in [Admins -> Changes]
         /\ change'[a] = Idle
         /\ \A b \in Admins : b # a => change'[b] = change[b]
  <1>1. Idle \in Changes
    BY DEF Idle, Changes, NoBox
  <1> QED
    BY <1>1, Moves DEF Go, Moved

(* Nobody's change has the number that is given out next, or its fields are *)
(* those of no change.                                                     *)
LEMMA Idles ==
  ASSUME Shape, StepInv, NEW a \in Admins, At(a, "idle")
  PROVE  /\ change[a].id = 0 /\ change[a].lib = 0 /\ change[a].seen = 0
         /\ change[a].old = NoBox /\ change[a].kind = "none"
  BY DEF StepInv, Idle

(* Where a change goes when it lets the slot go or ends early. *)
Puts(a, c) == change' = [change EXCEPT ![a] = c]
Taken(a, t) == [change[a] EXCEPT !.taken = t]

LEMMA LeaveEffect ==
  ASSUME Shape, NEW a \in Admins, NEW t \in Nat,
         NEW place \in {"idle", "erase", "cleanup"} \cup Holding,
         Puts(a, Moved(Taken(a, t), place))
  PROVE  /\ change' \in [Admins -> Changes]
         /\ change'[a].at = place
         /\ place = "idle" =>
              /\ change'[a] = Idle
              /\ change'[a].id = 0 /\ change'[a].lib = 0 /\ change'[a].seen = 0
              /\ change'[a].old = NoBox /\ change'[a].old.gen = 0 /\ change'[a].old.lib = 0
              /\ change'[a].kind = "none"
         /\ place # "idle" =>
              SameFields(a) /\ change'[a].old = change[a].old /\ change'[a].taken = t
         /\ \A b \in Admins : b # a => change'[b] = change[b]
  <1> DEFINE c == Taken(a, t)
  <1>1. change[a] \in Changes
    BY Fields
  <1>5. c \in Changes
    BY <1>1 DEF Changes, Taken
  <1>6. c.at = change[a].at /\ c.kind = change[a].kind /\ c.id = change[a].id
        /\ c.lib = change[a].lib /\ c.seen = change[a].seen /\ c.old = change[a].old
        /\ c.taken = t /\ c.swept = change[a].swept
    BY <1>1 DEF Changes, Taken
  <1> HIDE DEF c
  <1>7. [c EXCEPT !.at = place] \in Changes
    BY <1>5 DEF Changes, Holding
  <1>2. Idle \in Changes
    BY DEF Idle, Changes, NoBox
  <1>3. CASE place = "idle"
    <2>1. change' = [change EXCEPT ![a] = Idle]
      BY <1>3 DEF Moved, Puts
    <2> QED
      <3>1. /\ change' \in [Admins -> Changes]
            /\ change'[a] = Idle
            /\ \A b \in Admins : b # a => change'[b] = change[b]
        BY <1>2, <2>1, Moves
      <3> QED
        BY <1>3, <3>1 DEF Idle, NoBox
  <1>4. CASE place # "idle"
    <2>1. change' = [change EXCEPT ![a] = [c EXCEPT !.at = place]]
      BY <1>4 DEF Moved, Puts, c
    <2>2. /\ change' \in [Admins -> Changes]
          /\ change'[a] = [c EXCEPT !.at = place]
          /\ \A b \in Admins : b # a => change'[b] = change[b]
      BY <1>7, <2>1, Moves
    <2> QED
      BY <1>4, <1>5, <1>6, <2>2 DEF SameFields, Changes
  <1> QED
    BY <1>3, <1>4

LEMMA GoesEffect ==
  ASSUME Shape, NEW a \in Admins, NEW place \in {"idle", "erase", "cleanup"} \cup Holding,
         Go(a, place)
  PROVE  /\ change' \in [Admins -> Changes]
         /\ change'[a].at = place
         /\ place = "idle" =>
              /\ change'[a] = Idle
              /\ change'[a].id = 0 /\ change'[a].lib = 0 /\ change'[a].seen = 0
              /\ change'[a].old = NoBox /\ change'[a].old.gen = 0 /\ change'[a].old.lib = 0
              /\ change'[a].kind = "none"
         /\ place # "idle" =>
              /\ SameFields(a)
              /\ change'[a].old = change[a].old /\ change'[a].taken = change[a].taken
         /\ \A b \in Admins : b # a => change'[b] = change[b]
  <1> DEFINE t == change[a].taken
  <1>1. change[a] = Taken(a, t)
    BY Fields DEF Changes, Taken
  <1>2. Puts(a, Moved(change[a], place))
    BY DEF Go, Puts
  <1>3. t \in Nat
    BY Fields
  <1> HIDE DEF t
  <1>4. Puts(a, Moved(Taken(a, t), place))
    BY <1>1, <1>2
  <1>5. /\ change' \in [Admins -> Changes]
        /\ change'[a].at = place
        /\ \A b \in Admins : b # a => change'[b] = change[b]
    BY <1>3, <1>4, LeaveEffect
  <1>6. place = "idle" =>
          /\ change'[a] = Idle
          /\ change'[a].id = 0 /\ change'[a].lib = 0 /\ change'[a].seen = 0
          /\ change'[a].old = NoBox /\ change'[a].old.gen = 0 /\ change'[a].old.lib = 0
          /\ change'[a].kind = "none"
    BY <1>3, <1>4, LeaveEffect
  <1>7. place # "idle" =>
          SameFields(a) /\ change'[a].old = change[a].old /\ change'[a].taken = t
    BY <1>3, <1>4, LeaveEffect
  <1> QED
    BY <1>5, <1>6, <1>7 DEF t

(* A step that begins no change and publishes no generation. *)
Follows(b) ==
  ~ At(b, "idle")' =>
    /\ ~ At(b, "idle") /\ change'[b].kind = change[b].kind
    /\ change'[b].id = change[b].id /\ change'[b].lib = change[b].lib
    /\ change'[b].at \in Before => change[b].at \in Before

LEMMA NumbersKept ==
  ASSUME Shape, NumberInv, left'.changes = left.changes,
         \A b \in Admins : Follows(b),
         \A b \in Admins : At(b, "idle")' => change'[b].id \in {0, change[b].id},
         \A w \in Nat : Published(w)' => Published(w) \/ w = 0
  PROVE  NumberInv'
  <1>1. \A b \in Admins : ~ At(b, "idle") =>
          change[b].id > left.changes /\ change[b].id \in Nat /\ change[b].id # 0
    BY Fields DEF NumberInv
  <1>2. \A b \in Admins : Pending(b)' => ~ Published(change[b].id)' /\ Pending(b)
    BY <1>1 DEF NumberInv, Pending, Follows, Installs, At, Before
  <1>3. \A b, d \in Admins : b # d /\ ~ At(b, "idle")' => change'[b].id # change'[d].id
    BY <1>1 DEF NumberInv, Follows, At
  <1>4. \A b \in Admins : Pending(b)' => ~ Published(change[b].id)' /\ change'[b].id = change[b].id
    BY <1>2 DEF Pending, Follows, At, Before
  <1>5. \A b \in Admins : Pending(b)' => ~ Published(change[b].id)'
    BY <1>4
  <1> QED
    BY <1>1, <1>2, <1>3, <1>4 DEF NumberInv, Follows

LEMMA LibsKept ==
  ASSUME Shape, NumberInv, LibInv, left'.changes = left.changes,
         \A b \in Admins : Follows(b),
         \A b \in Admins : change'[b].lib \in {0, change[b].lib},
         \A b \in Admins : change'[b].old.lib \in {0, change[b].old.lib, box.lib},
         box'.lib \in {0, box.lib}
  PROVE  LibInv'
  <1>1. \A b \in Admins : change[b].kind = "configure" /\ ~ At(b, "idle") =>
          change[b].lib # 0 /\ change[b].lib = change[b].id
    BY Fields DEF NumberInv, LibInv
  <1>2. \A b \in Admins : change'[b].kind = "configure" /\ change'[b].at \in Before =>
          /\ change[b].kind = "configure" /\ change[b].at \in Before
          /\ change'[b].lib = change[b].lib /\ change[b].lib # 0
    BY <1>1 DEF Follows, At, Before
  <1>3. \A b \in Admins : change'[b].kind = "configure" /\ ~ At(b, "idle")' =>
          change'[b].lib = change'[b].id
    BY <1>1 DEF Follows
  <1> QED
    BY <1>2, <1>3 DEF LibInv

(* What the removal of audio by a says of everybody else's change. *)
Others(a, b) ==
  /\ change'[b].at = change[b].at /\ change'[b].kind = change[b].kind
  /\ change'[b].id = change[b].id /\ change'[b].lib = change[b].lib
  /\ change'[b].seen = change[b].seen /\ change'[b].old = change[b].old
  /\ change'[b].taken = change[b].taken
  /\ change'[b].swept = (change[b].swept \/ (~ At(b, "idle") /\ ~ Installs(a)))
  /\ At(b, "idle") => change'[b] = change[b]

LEMMA CopyAudioStep ==
  ASSUME IInv, NEW a \in Admins, CopyAudio(a)
  PROVE  IInv'
  <1>0. /\ Shape /\ StepInv /\ LockInv /\ NumberInv /\ BoxInv /\ SlotInv /\ OpenInv
        /\ EditsOfThisGeneration /\ LibInv /\ WholeInv /\ LeftInv
    BY DEF IInv
  <1>1. /\ change' \in [Admins -> Changes]
        /\ change'[a].at = "lock" /\ SameFields(a)
        /\ change'[a].old = change[a].old /\ change'[a].taken = change[a].taken
        /\ \A b \in Admins : b # a => change'[b] = change[b]
    BY <1>0, GoEffect DEF CopyAudio, Before
  <1>2. /\ change[a].at = "copy" /\ change[a].kind = "configure"
        /\ dirs' = dirs \cup {change[a].lib}
        /\ UNCHANGED <<role, box, schemas, edits, slot, lock, cancelled, account, stale,
                       stray, left>>
    BY <1>0 DEF CopyAudio, At, StepInv
  <1>3. change[a].lib \in Nat \ {0}
    BY <1>0, <1>2, Fields DEF NumberInv, LibInv, At
  <1>Shape. Shape'
    BY <1>0, <1>1, <1>2, <1>3 DEF Shape, account
  <1>Step. StepInv'
    BY <1>0, <1>1, <1>2, <1>3 DEF StepInv, At, Installs, SameFields
  <1>Lock. LockInv'
    BY <1>0, <1>1, <1>2, <1>3 DEF LockInv, Holding, account
  <1>Number. NumberInv'
    BY <1>0, <1>1, <1>2, <1>3
    DEF NumberInv, At, Published, Ref, Pending, Installs, Before, SameFields, account
  <1>Box. BoxInv'
    BY <1>0, <1>1, <1>2, <1>3 DEF BoxInv, Retiring, Installs, SameFields
  <1>Slot. SlotInv'
    BY <1>0, <1>1, <1>2, <1>3 DEF SlotInv, At
  <1>Open. OpenInv'
    BY <1>0, <1>1, <1>2, <1>3 DEF OpenInv, At, Closing, Abandoned, Ref, Retiring, account
  <1>Edits. EditsOfThisGeneration'
    BY <1>0, <1>1, <1>2, <1>3 DEF EditsOfThisGeneration
  <1>Lib. LibInv'
    BY <1>0, <1>1, <1>2, <1>3 DEF LibInv, At, Before, SameFields
  <1>Whole. WholeInv'
    BY <1>0, <1>1, <1>2, <1>3 DEF WholeInv, PublishedIsWhole, Copied, Before, SameFields
  <1>Left. LeftInv'
    BY <1>0, <1>1, <1>2, <1>3 DEF LeftInv, Faulty, Copied, At, Retiring, SameFields
  <1> QED
    BY <1>Shape, <1>Step, <1>Lock, <1>Number, <1>Box, <1>Slot, <1>Open, <1>Edits, <1>Lib,
       <1>Whole, <1>Left DEF IInv

LEMMA AskStep ==
  ASSUME IInv, NEW a \in Admins, NEW kind, NEW place, NEW lib, NEW seen,
         Ask(a, kind, place, lib, seen), role # "gone", role' \in {"demo", "admin"},
         \/ kind = "configure" /\ place = "copy" /\ lib = left.changes /\ seen = 0
         \/ /\ kind = "reset" /\ place = "lock" /\ lib = box.lib /\ seen = box.gen
            /\ box # NoBox
         \/ kind \in {"promote", "delete"} /\ place = "lock" /\ lib = 0 /\ seen = 0
  PROVE  IInv'
  <1>0. /\ Shape /\ StepInv /\ LockInv /\ NumberInv /\ BoxInv /\ SlotInv /\ OpenInv
        /\ EditsOfThisGeneration /\ LibInv /\ WholeInv /\ LeftInv
    BY DEF IInv
  <1> DEFINE c == [Idle EXCEPT !.at = place, !.kind = kind, !.id = left.changes, !.lib = lib,
                              !.seen = seen]
  <1>1. /\ change[a].at = "idle" /\ change[a] = Idle
        /\ left.changes \in Nat \ {0}
        /\ left' \in [changes : Nat, calls : Nat, faults : Nat]
        /\ left'.changes = left.changes - 1 /\ left'.faults = left.faults
        /\ UNCHANGED <<box, schemas, dirs, edits, slot, lock, cancelled, account, stale, stray>>
    BY <1>0 DEF Ask, Spend, Shape, StepInv, At
  <1>2. c \in Changes
    <2>1. box.gen \in Nat /\ box.lib \in Nat
      BY <1>0, Fields
    <2>2. lib \in Nat /\ seen \in Nat
      BY <1>1, <2>1
    <2> QED
      BY <1>1, <2>2 DEF Changes, Before, NoBox, Idle
  <1>3. change' = [change EXCEPT ![a] = c]
    BY DEF Ask
  <1>4. /\ change' \in [Admins -> Changes]
        /\ change'[a] = c
        /\ \A b \in Admins : b # a => change'[b] = change[b]
    BY <1>0, <1>2, <1>3, Moves
  <1>5. /\ change'[a].at = place /\ change'[a].kind = kind /\ change'[a].id = left.changes
        /\ change'[a].lib = lib /\ change'[a].seen = seen /\ change'[a].old.gen = 0
        /\ change'[a].old.lib = 0 /\ ~ change'[a].swept
        /\ change[a].lib = 0 /\ change[a].old.gen = 0 /\ change[a].seen = 0
        /\ change[a].old.lib = 0
    BY <1>1, <1>4 DEF Idle, NoBox
  <1>6. box.gen \in Nat /\ box.lib \in Nat
    BY <1>0, Fields
  <1> HIDE DEF c
  <1>Shape. Shape'
    BY <1>0, <1>1, <1>4, <1>5, <1>6 DEF Shape, account
  <1>Step. StepInv'
    BY <1>0, <1>1, <1>4, <1>5, <1>6 DEF StepInv, At, Installs
  <1>Lock. LockInv'
    BY <1>0, <1>1, <1>4, <1>5, <1>6 DEF LockInv, Holding, account
  <1>Number. NumberInv'
    <2>1. \A w \in Nat : Published(w)' => Published(w) \/ w = 0
      BY <1>0, <1>1, <1>4, <1>5, <1>6 DEF Published, Ref, account
    <2>2. \A w \in Nat : Published(w)' => w = 0 \/ w > left.changes
      BY <1>0, <2>1 DEF NumberInv
    <2>3. \A b \in Admins : b # a /\ Pending(b) => ~ Published(change[b].id)'
      BY <1>0, <1>1, <1>4, <2>1, Fields DEF NumberInv, Pending, At, Before
    <2>4. ~ Published(change[a].id)'
      BY <1>1, <1>5, <2>2
    <2>5. \A b \in Admins : b # a => Pending(b)' = Pending(b)
      BY <1>4 DEF Pending, Installs
    <2>6. \A b \in Admins : b # a /\ ~ At(b, "idle") =>
            change[b].id > left.changes /\ change[b].id \in Nat
      BY <1>0, Fields DEF NumberInv
    <2>7. \A b \in Admins : ~ At(b, "idle")' => change'[b].id > left'.changes
      BY <1>1, <1>4, <1>5, <2>6 DEF At
    <2>8. \A b, d \in Admins : b # d /\ ~ At(b, "idle")' => change'[b].id # change'[d].id
      <3> SUFFICES ASSUME NEW b \in Admins, NEW d \in Admins, b # d, ~ At(b, "idle")'
                   PROVE  change'[b].id # change'[d].id
        OBVIOUS
      <3>1. CASE b = a
        BY <1>0, <1>1, <1>4, <1>5, <2>6, <3>1, Idles DEF At
      <3>2. CASE b # a /\ d # a
        BY <1>0, <1>4, <3>2 DEF NumberInv, At
      <3>3. CASE d = a
        BY <1>1, <1>4, <1>5, <2>6, <3>3 DEF At
      <3> QED
        BY <3>1, <3>2, <3>3
    <2>9. \A w \in Nat : Published(w)' => w = 0 \/ w > left'.changes
      BY <1>1, <2>2
    <2> QED
      BY <1>4, <2>3, <2>4, <2>5, <2>7, <2>8, <2>9 DEF NumberInv
  <1>Box. BoxInv'
    BY <1>0, <1>1, <1>4, <1>5, <1>6 DEF BoxInv, Retiring, Installs
  <1>Slot. SlotInv'
    BY <1>0, <1>1, <1>4, <1>5, <1>6 DEF SlotInv, At
  <1>Open. OpenInv'
    BY <1>0, <1>1, <1>4, <1>5, <1>6 DEF OpenInv, At, Closing, Abandoned, Ref, Retiring, account
  <1>Edits. EditsOfThisGeneration'
    BY <1>0, <1>1, <1>4, <1>5, <1>6 DEF EditsOfThisGeneration
  <1>Lib. LibInv'
    <2>1. lib = 0 \/ lib = left.changes \/ (kind = "reset" /\ lib = box.lib)
      OBVIOUS
    <2>2. \A b \in Admins : b # a /\ change[b].kind = "configure" /\ change[b].at \in Before
            => change[b].lib # lib /\ change[b].lib # 0
      BY <1>0, <1>1, <2>1, Fields DEF LibInv, NumberInv, At, Before
    <2>3. \A b \in Admins : change[b].old.lib # left.changes /\ change[b].lib # left.changes
      BY <1>0, <1>1, Fields DEF LibInv
    <2>4. box.lib # left.changes
      BY <1>0, <1>1, <1>6 DEF LibInv
    <2> QED
      BY <1>0, <1>1, <1>4, <1>5, <1>6, <2>1, <2>2, <2>3, <2>4, Fields DEF LibInv, At
  <1>Whole. WholeInv'
    <2>1. kind = "reset" => seen # 0 /\ lib = box.lib
      BY <1>0 DEF BoxInv
    <2> QED
      BY <1>0, <1>1, <1>4, <1>5, <1>6, <2>1 DEF WholeInv, PublishedIsWhole, Copied, Before
  <1>Left. LeftInv'
    BY <1>0, <1>1, <1>4, <1>5, <1>6 DEF LeftInv, Faulty, Copied, At, Retiring
  <1> QED
    BY <1>Shape, <1>Step, <1>Lock, <1>Number, <1>Box, <1>Slot, <1>Open, <1>Edits, <1>Lib,
       <1>Whole, <1>Left DEF IInv

LEMMA LockStep ==
  ASSUME IInv, NEW a \in Admins, Lock(a)
  PROVE  IInv'
  <1>0. /\ Shape /\ StepInv /\ LockInv /\ NumberInv /\ BoxInv /\ SlotInv /\ OpenInv
        /\ EditsOfThisGeneration /\ LibInv /\ WholeInv /\ LeftInv
    BY DEF IInv
  <1> DEFINE place == IF Installs(a) THEN "provision" ELSE "revoke"
  <1>1. /\ change' \in [Admins -> Changes]
        /\ change'[a].at = place /\ SameFields(a)
        /\ change'[a].old = change[a].old /\ change'[a].taken = change[a].taken
        /\ \A b \in Admins : b # a => change'[b] = change[b]
    BY <1>0, GoEffect DEF Lock, Holding
  <1>2. /\ change[a].at = "lock" /\ lock = None /\ lock' = a
        /\ \A r \in Requests : request[r].at # "running"
        /\ UNCHANGED <<role, box, schemas, dirs, edits, slot, cancelled, account, stale,
                       stray, left>>
    BY DEF Lock, LockSlot, At, stored
  <1>Shape. Shape'
    BY <1>0, <1>1, <1>2, SandboxAssumption DEF Shape, account
  <1>Step. StepInv'
    BY <1>0, <1>1, <1>2 DEF StepInv, At, Installs, SameFields
  <1>Lock. LockInv'
    BY <1>0, <1>1, <1>2, SandboxAssumption DEF LockInv, Holding, account, Installs
  <1>Number. NumberInv'
    BY <1>0, <1>1, <1>2
    DEF NumberInv, At, Published, Ref, Pending, Installs, Before, SameFields, account
  <1>Box. BoxInv'
    BY <1>0, <1>1, <1>2 DEF BoxInv, Retiring, Installs, SameFields
  <1>Slot. SlotInv'
    BY <1>0, <1>1, <1>2 DEF SlotInv, At
  <1>Open. OpenInv'
    BY <1>0, <1>1, <1>2 DEF OpenInv, At, Closing, Abandoned, Ref, Retiring, account
  <1>Edits. EditsOfThisGeneration'
    BY <1>0, <1>1, <1>2 DEF EditsOfThisGeneration
  <1>Lib. LibInv'
    BY <1>0, <1>1, <1>2 DEF LibInv, At, Before, SameFields
  <1>Whole. WholeInv'
    BY <1>0, <1>1, <1>2 DEF WholeInv, PublishedIsWhole, Copied, Before, SameFields
  <1>Left. LeftInv'
    BY <1>0, <1>1, <1>2 DEF LeftInv, Faulty, Copied, At, Retiring, SameFields, Installs
  <1> QED
    BY <1>Shape, <1>Step, <1>Lock, <1>Number, <1>Box, <1>Slot, <1>Open, <1>Edits, <1>Lib,
       <1>Whole, <1>Left DEF IInv

LEMMA PublishStep ==
  ASSUME IInv, NEW a \in Admins, Publish(a)
  PROVE  IInv'
  <1>0. /\ Shape /\ StepInv /\ LockInv /\ NumberInv /\ BoxInv /\ SlotInv /\ OpenInv
        /\ EditsOfThisGeneration /\ LibInv /\ WholeInv /\ LeftInv
    BY DEF IInv
  <1>1. change[a] \in Changes /\ change[a].at = "provision" /\ Installs(a)
    BY <1>0 DEF Shape, Publish, At, StepInv
  <1>2. /\ change[a].id \in Nat /\ change[a].id > 0 /\ change[a].id > left.changes
        /\ left.changes \in Nat
    BY <1>0, <1>1, Fields DEF NumberInv, At
  <1> DEFINE c == [change[a] EXCEPT !.at = "take", !.old = box]
  <1>3. c \in Changes
    BY <1>0, <1>1 DEF Shape, Changes, Holding
  <1>4. change' = [change EXCEPT ![a] = c]
    BY <1>0 DEF Publish, Shape, Changes
  <1>5. /\ change' \in [Admins -> Changes]
        /\ change'[a] = c
        /\ \A b \in Admins : b # a => change'[b] = change[b]
    BY <1>0, <1>3, <1>4, Moves
  <1>6. /\ role = "demo"
        /\ box' = [gen |-> change[a].id, lib |-> change[a].lib]
        /\ schemas' = schemas \cup {change[a].id}
        /\ edits' = 0
        /\ stale' = IF change[a].kind = "reset" THEN stale \/ box.gen # change[a].seen
                    ELSE change[a].swept
        /\ UNCHANGED <<role, dirs, slot, lock, cancelled, account, stray, left>>
    BY DEF Publish
  <1>7. ~ Published(change[a].id)
    BY <1>0, <1>1 DEF NumberInv, Pending, Before
  <1>8. change'[a].at = "take" /\ change'[a].old = box /\ SameFields(a)
    BY <1>1, <1>5 DEF SameFields, Changes
  <1>9. box'.gen = change[a].id /\ box'.lib = change[a].lib
    BY <1>6
  <1> HIDE DEF c
  <1>Shape. Shape'
    <2>1. box' \in [gen : Nat, lib : Nat]
      BY <1>0, <1>6, Fields
    <2>2. schemas' \subseteq Nat \ {0}
      BY <1>0, <1>2, <1>6, Fields
    <2>3. stale' \in BOOLEAN
      BY <1>0, <1>6, Fields DEF Shape
    <2> QED
      BY <1>0, <1>5, <1>6, <2>1, <2>2, <2>3 DEF Shape, account
  <1>Step. StepInv'
    BY <1>0, <1>1, <1>2, <1>5, <1>6, <1>7, <1>8, <1>9 DEF StepInv, At, Installs, SameFields
  <1>Lock. LockInv'
    BY <1>0, <1>1, <1>2, <1>5, <1>6, <1>7, <1>8, <1>9 DEF LockInv, Holding, account
  <1>Number. NumberInv'
    BY <1>0, <1>1, <1>2, <1>5, <1>6, <1>7, <1>8, <1>9
    DEF NumberInv, At, Published, Ref, Pending, Installs, Before, SameFields, account
  <1>Box. BoxInv'
    <2>1. box = NoBox \/ box.gen \notin {0, change[a].id}
      BY <1>0, <1>7 DEF BoxInv, Published
    <2>2. \A b \in Admins : b # a => change[b].at \notin Retiring \cup {"audio"}
      BY <1>0, <1>1 DEF LockInv, Holding, Retiring
    <2> QED
      BY <1>1, <1>2, <1>5, <1>6, <1>8, <1>9, <2>1, <2>2 DEF BoxInv, SameFields, Installs, Retiring
  <1>Slot. SlotInv'
    BY <1>0, <1>1, <1>2, <1>5, <1>6, <1>7, <1>8, <1>9 DEF SlotInv, At
  <1>Open. OpenInv'
    <2>1. \A w : Ref(w)' = Ref(w)
      BY <1>6 DEF Ref, account
    <2>2. \A w : Closing(w) => Closing(w)'
      BY <1>1, <1>5 DEF Closing, At
    <2>3. \A w : Ref(w) => w # box'.gen
      BY <1>7, <1>9 DEF Published
    <2>4. \A w : Ref(w) /\ Abandoned(w) => Abandoned(w)'
      BY <1>1, <1>5, <1>6, <1>8, <2>3 DEF Abandoned
    <2> QED
      BY <1>0, <1>6, <2>1, <2>2, <2>4 DEF OpenInv, account
  <1>Edits. EditsOfThisGeneration'
    BY <1>0, <1>1, <1>2, <1>5, <1>6, <1>7, <1>8, <1>9 DEF EditsOfThisGeneration
  <1>Lib. LibInv'
    BY <1>0, <1>1, <1>2, <1>5, <1>6, <1>7, <1>8, <1>9 DEF LibInv, At, Before, SameFields
  <1>Whole. WholeInv'
    <2>1. \A b \in Admins : change[b].seen # box'.gen
      BY <1>7, <1>9 DEF Published
    <2>2. \A b \in Admins : b # a => change[b].at # "provision"
      BY <1>0, <1>1 DEF LockInv, Holding
    <2>3. box'.lib \in dirs \/ stale'
      <3>1. CASE change[a].kind = "reset"
        <4>1. change[a].seen # 0 /\ (box.gen = change[a].seen => box.lib = change[a].lib)
          BY <1>0, <1>1, <3>1 DEF WholeInv, Before
        <4>2. box.gen # 0 => box.lib \in dirs \/ stale
          BY <1>0 DEF WholeInv, PublishedIsWhole, NoBox
        <4> QED
          BY <1>6, <1>9, <3>1, <4>1, <4>2
      <3>2. CASE change[a].kind = "configure"
        BY <1>0, <1>1, <1>6, <1>9, <3>2 DEF WholeInv, Copied
      <3> QED
        BY <1>1, <3>1, <3>2 DEF Installs
    <2>4. change[a].id \in schemas'
      BY <1>6
    <2> QED
      BY <1>0, <1>1, <1>5, <1>6, <1>8, <1>9, <2>1, <2>2, <2>3, <2>4
      DEF WholeInv, PublishedIsWhole, Copied, SameFields, Before
  <1>Left. LeftInv'
    BY <1>0, <1>1, <1>2, <1>5, <1>6, <1>7, <1>8, <1>9
    DEF LeftInv, Faulty, Copied, At, Retiring, SameFields
  <1> QED
    BY <1>Shape, <1>Step, <1>Lock, <1>Number, <1>Box, <1>Slot, <1>Open, <1>Edits, <1>Lib,
       <1>Whole, <1>Left DEF IInv
LEMMA RefuseStep ==
  ASSUME IInv, NEW a \in Admins, Refuse(a)
  PROVE  IInv'
  <1>0. /\ Shape /\ StepInv /\ LockInv /\ NumberInv /\ BoxInv /\ SlotInv /\ OpenInv
        /\ EditsOfThisGeneration /\ LibInv /\ WholeInv /\ LeftInv
    BY DEF IInv
  <1> DEFINE place == IF change[a].kind = "configure" THEN "cleanup" ELSE "idle"
  <1>2. /\ change[a].at = "provision" /\ Installs(a) /\ role # "demo" /\ lock' = None
        /\ UNCHANGED <<stored, slot, cancelled, account, stale, stray, left>>
    BY <1>0 DEF Refuse, At, StepInv
  <1>1. /\ change' \in [Admins -> Changes]
        /\ change'[a].at = place
        /\ place = "idle" =>
              /\ change'[a] = Idle
              /\ change'[a].id = 0 /\ change'[a].lib = 0 /\ change'[a].seen = 0
              /\ change'[a].old = NoBox /\ change'[a].old.gen = 0 /\ change'[a].old.lib = 0
              /\ change'[a].kind = "none"
        /\ place # "idle" =>
              /\ SameFields(a)
              /\ change'[a].old = change[a].old /\ change'[a].taken = change[a].taken
        /\ \A b \in Admins : b # a => change'[b] = change[b]
    <2>1. place \in {"idle", "erase", "cleanup"} \cup Holding /\ Go(a, place)
      BY <1>2 DEF Refuse, AfterFailure, At
    <2> HIDE DEF place
    <2> QED
      BY <1>0, <2>1, GoesEffect
  <1>3. place \in {"idle", "cleanup"} /\ (place = "cleanup" <=> change[a].kind = "configure")
    OBVIOUS
  <1>4. lock = a
    BY <1>0, <1>2 DEF LockInv, Holding
  <1> HIDE DEF place
  <1>Shape. Shape'
    BY <1>0, <1>1, <1>2, <1>3, <1>4, SandboxAssumption DEF Shape, account, stored
  <1>Step. StepInv'
    BY <1>0, <1>1, <1>2, <1>3, <1>4 DEF StepInv, At, Installs, SameFields
  <1>Lock. LockInv'
    BY <1>0, <1>1, <1>2, <1>3, <1>4, SandboxAssumption DEF LockInv, Holding, account, Installs
  <1>Number. NumberInv'
    <2>1. \A b \in Admins : Follows(b) /\ (At(b, "idle")' => change'[b].id \in {0, change[b].id})
      BY <1>1, <1>2, <1>3 DEF Follows, At, SameFields, Before
    <2>2. \A w \in Nat : Published(w)' => Published(w) \/ w = 0
      BY <1>1, <1>2, <1>3, <1>2 DEF Published, Ref, account, stored, SameFields
    <2> QED
      BY <1>0, <1>2, <2>1, <2>2, NumbersKept
  <1>Box. BoxInv'
    BY <1>0, <1>1, <1>2, <1>3, <1>4 DEF BoxInv, Retiring, Installs, SameFields, stored
  <1>Slot. SlotInv'
    BY <1>0, <1>1, <1>2, <1>3, <1>4 DEF SlotInv, At, stored
  <1>Open. OpenInv'
    BY <1>0, <1>1, <1>2, <1>3, <1>4
    DEF OpenInv, At, Closing, Abandoned, Ref, Retiring, account, stored
  <1>Edits. EditsOfThisGeneration'
    BY <1>0, <1>1, <1>2, <1>3, <1>4 DEF EditsOfThisGeneration, stored
  <1>Lib. LibInv'
    <2>1. \A b \in Admins : Follows(b)
      BY <1>1, <1>2, <1>3 DEF Follows, At, SameFields, Before
    <2>2. \A b \in Admins : change'[b].lib \in {0, change[b].lib}
      BY <1>1, <1>2, <1>3 DEF SameFields
    <2>3. \A b \in Admins : change'[b].old.lib \in {0, change[b].old.lib, box.lib}
      BY <1>1, <1>2, <1>3
    <2>4. box'.lib \in {0, box.lib} /\ left'.changes = left.changes
      BY <1>2 DEF stored
    <2> QED
      BY <1>0, <2>1, <2>2, <2>3, <2>4, LibsKept
  <1>Whole. WholeInv'
    BY <1>0, <1>1, <1>2, <1>3, <1>4
    DEF WholeInv, PublishedIsWhole, Copied, Before, SameFields, stored
  <1>Left. LeftInv'
    BY <1>0, <1>1, <1>2, <1>3, <1>4
    DEF LeftInv, Faulty, Copied, At, Retiring, SameFields, stored, Installs
  <1> QED
    BY <1>Shape, <1>Step, <1>Lock, <1>Number, <1>Box, <1>Slot, <1>Open, <1>Edits, <1>Lib,
       <1>Whole, <1>Left DEF IInv

LEMMA RevokeStep ==
  ASSUME IInv, NEW a \in Admins, Revoke(a)
  PROVE  IInv'
  <1>0. /\ Shape /\ StepInv /\ LockInv /\ NumberInv /\ BoxInv /\ SlotInv /\ OpenInv
        /\ EditsOfThisGeneration /\ LibInv /\ WholeInv /\ LeftInv
    BY DEF IInv
  <1>1. change[a] \in Changes /\ change[a].at = "revoke" /\ ~ Installs(a)
    BY <1>0 DEF Shape, Revoke, At, StepInv
  <1> DEFINE c == [change[a] EXCEPT !.at = "take", !.old = box]
  <1>3. c \in Changes
    BY <1>0, <1>1 DEF Shape, Changes, Holding
  <1>4. change' = [change EXCEPT ![a] = c]
    BY <1>0 DEF Revoke, Shape, Changes
  <1>5. /\ change' \in [Admins -> Changes]
        /\ change'[a] = c
        /\ \A b \in Admins : b # a => change'[b] = change[b]
    BY <1>0, <1>3, <1>4, Moves
  <1>6. /\ box' = NoBox /\ box'.gen = 0 /\ box'.lib = 0
        /\ UNCHANGED <<role, schemas, dirs, edits, slot, lock, cancelled, account, stale,
                       stray, left>>
    BY DEF Revoke, NoBox
  <1>7. box' \in [gen : Nat, lib : Nat]
    BY <1>6 DEF NoBox
  <1>8. change'[a].at = "take" /\ change'[a].old = box /\ SameFields(a)
    BY <1>1, <1>5 DEF SameFields, Changes
  <1>9. lock = a /\ \A b \in Admins : b # a => change[b].at \notin Holding
    BY <1>0, <1>1 DEF LockInv, Holding
  <1> HIDE DEF c
  <1>Shape. Shape'
    BY <1>0, <1>1, <1>5, <1>6, <1>7, <1>8, <1>9 DEF Shape, account
  <1>Step. StepInv'
    BY <1>0, <1>1, <1>5, <1>6, <1>7, <1>8, <1>9 DEF StepInv, At, Installs, SameFields
  <1>Lock. LockInv'
    BY <1>0, <1>1, <1>5, <1>6, <1>7, <1>8, <1>9 DEF LockInv, Holding, account
  <1>Number. NumberInv'
    <2>1. \A b \in Admins : Follows(b) /\ (At(b, "idle")' => change'[b].id \in {0, change[b].id})
      BY <1>1, <1>5, <1>8 DEF Follows, At, SameFields, Before
    <2>2. \A w \in Nat : Published(w)' => Published(w) \/ w = 0
      BY <1>1, <1>5, <1>8, <1>6 DEF Published, Ref, account, stored, SameFields
    <2> QED
      BY <1>0, <1>6, <2>1, <2>2, NumbersKept
  <1>Box. BoxInv'
    <2>1. box = NoBox \/ box.gen # 0
      BY <1>0 DEF BoxInv
    <2>2. \A b \in Admins : b # a => change[b].at \notin Retiring \cup {"audio"}
      BY <1>9 DEF Holding, Retiring
    <2> QED
      BY <1>1, <1>5, <1>6, <1>8, <2>1, <2>2 DEF BoxInv, SameFields, Installs, Retiring
  <1>Slot. SlotInv'
    BY <1>0, <1>1, <1>5, <1>6, <1>7, <1>8, <1>9 DEF SlotInv, At
  <1>Open. OpenInv'
    BY <1>0, <1>1, <1>5, <1>6, <1>7, <1>8, <1>9
    DEF OpenInv, At, Closing, Abandoned, Ref, Retiring, account
  <1>Edits. EditsOfThisGeneration'
    BY <1>0, <1>1, <1>5, <1>6, <1>7, <1>8, <1>9 DEF EditsOfThisGeneration
  <1>Lib. LibInv'
    <2>1. \A b \in Admins : Follows(b)
      BY <1>1, <1>5, <1>8 DEF Follows, At, SameFields, Before
    <2>2. \A b \in Admins : change'[b].lib \in {0, change[b].lib}
      BY <1>1, <1>5, <1>8 DEF SameFields
    <2>3. \A b \in Admins : change'[b].old.lib \in {0, change[b].old.lib, box.lib}
      BY <1>1, <1>5, <1>8
    <2>4. box'.lib \in {0, box.lib} /\ left'.changes = left.changes
      BY <1>6 DEF stored
    <2> QED
      BY <1>0, <2>1, <2>2, <2>3, <2>4, LibsKept
  <1>Whole. WholeInv'
    BY <1>0, <1>1, <1>5, <1>6, <1>7, <1>8, <1>9
    DEF WholeInv, PublishedIsWhole, Copied, Before, SameFields
  <1>Left. LeftInv'
    BY <1>0, <1>1, <1>5, <1>6, <1>7, <1>8, <1>9
    DEF LeftInv, Faulty, Copied, At, Retiring, SameFields
  <1> QED
    BY <1>Shape, <1>Step, <1>Lock, <1>Number, <1>Box, <1>Slot, <1>Open, <1>Edits, <1>Lib,
       <1>Whole, <1>Left DEF IInv

LEMMA TakeStep ==
  ASSUME IInv, NEW a \in Admins, TakeWorkspace(a)
  PROVE  IInv'
  <1>0. /\ Shape /\ StepInv /\ LockInv /\ NumberInv /\ BoxInv /\ SlotInv /\ OpenInv
        /\ EditsOfThisGeneration /\ LibInv /\ WholeInv /\ LeftInv
    BY DEF IInv
  <1> DEFINE place == IF slot = 0 THEN AfterWorkspace(a) ELSE "close"
  <1>2. /\ change[a].at = "take" /\ slot' = 0
        /\ lock' = IF place \in {"idle", "erase"} THEN None ELSE lock
        /\ UNCHANGED <<stored, cancelled, account, stale, stray, left>>
    BY DEF TakeWorkspace, At, AfterWorkspace, Released
  <1>3. /\ place \in {"idle", "erase", "close", "drop"}
        /\ place = "close" <=> slot # 0
        /\ place \in {"idle", "erase"} => change[a].old = NoBox
        /\ place = "erase" => change[a].kind = "delete"
    BY DEF AfterWorkspace, Released
  <1>1. /\ change' \in [Admins -> Changes]
        /\ change'[a].at = place
        /\ place = "idle" =>
              /\ change'[a] = Idle
              /\ change'[a].id = 0 /\ change'[a].lib = 0 /\ change'[a].seen = 0
              /\ change'[a].old = NoBox /\ change'[a].old.gen = 0 /\ change'[a].old.lib = 0
              /\ change'[a].kind = "none"
        /\ place # "idle" =>
              /\ SameFields(a)
              /\ change'[a].old = change[a].old /\ change'[a].taken = slot
        /\ \A b \in Admins : b # a => change'[b] = change[b]
    <2>1. place \in {"idle", "erase", "cleanup"} \cup Holding
      BY <1>3 DEF Holding
    <2>2. Puts(a, Moved(Taken(a, slot), place))
      BY DEF TakeWorkspace, Puts, Taken
    <2>3. slot \in Nat
      BY <1>0 DEF Shape
    <2> HIDE DEF place
    <2> QED
      BY <1>0, <2>1, <2>2, <2>3, LeaveEffect
  <1>4. lock = a /\ \A b \in Admins : b # a => change[b].at \notin Holding
    BY <1>0, <1>2 DEF LockInv, Holding
  <1> HIDE DEF place
  <1>Shape. Shape'
    BY <1>0, <1>1, <1>2, <1>3, <1>4, SandboxAssumption DEF Shape, account, stored
  <1>Step. StepInv'
    BY <1>0, <1>1, <1>2, <1>3, <1>4 DEF StepInv, At, Installs, SameFields
  <1>Lock. LockInv'
    BY <1>0, <1>1, <1>2, <1>3, <1>4, SandboxAssumption DEF LockInv, Holding, account, Installs
  <1>Number. NumberInv'
    <2>1. \A b \in Admins : Follows(b) /\ (At(b, "idle")' => change'[b].id \in {0, change[b].id})
      BY <1>1, <1>2, <1>3 DEF Follows, At, SameFields, Before
    <2>2. \A w \in Nat : Published(w)' => Published(w) \/ w = 0
      BY <1>1, <1>2, <1>3, <1>2 DEF Published, Ref, account, stored, SameFields
    <2> QED
      BY <1>0, <1>2, <2>1, <2>2, NumbersKept
  <1>Box. BoxInv'
    BY <1>0, <1>1, <1>2, <1>3, <1>4 DEF BoxInv, Retiring, Installs, SameFields, stored
  <1>Slot. SlotInv'
    BY <1>0, <1>1, <1>2, <1>3, <1>4 DEF SlotInv, At, stored
  <1>Open. OpenInv'
    BY <1>0, <1>1, <1>2, <1>3, <1>4
    DEF OpenInv, At, Closing, Abandoned, Ref, Retiring, account, stored
  <1>Edits. EditsOfThisGeneration'
    BY <1>0, <1>1, <1>2, <1>3, <1>4 DEF EditsOfThisGeneration, stored
  <1>Lib. LibInv'
    <2>1. \A b \in Admins : Follows(b)
      BY <1>1, <1>2, <1>3 DEF Follows, At, SameFields, Before
    <2>2. \A b \in Admins : change'[b].lib \in {0, change[b].lib}
      BY <1>1, <1>2, <1>3 DEF SameFields
    <2>3. \A b \in Admins : change'[b].old.lib \in {0, change[b].old.lib, box.lib}
      BY <1>1, <1>2, <1>3
    <2>4. box'.lib \in {0, box.lib} /\ left'.changes = left.changes
      BY <1>2 DEF stored
    <2> QED
      BY <1>0, <2>1, <2>2, <2>3, <2>4, LibsKept
  <1>Whole. WholeInv'
    BY <1>0, <1>1, <1>2, <1>3, <1>4
    DEF WholeInv, PublishedIsWhole, Copied, Before, SameFields, stored
  <1>Left. LeftInv'
    <2> SUFFICES ASSUME ~ Faulty, role # "gone"
                 PROVE  LeftInv'
      BY <1>2 DEF LeftInv, Faulty, stored
    <2>1. \A w \in schemas :
            w = box.gen \/ \E b \in Admins : change'[b].at \in Retiring /\ w = change'[b].old.gen
      <3> SUFFICES ASSUME NEW w \in schemas, w # box.gen
                   PROVE  \E b \in Admins : change'[b].at \in Retiring /\ w = change'[b].old.gen
        OBVIOUS
      <3>1. PICK b \in Admins : change[b].at \in Retiring /\ w = change[b].old.gen
        BY <1>0 DEF LeftInv
      <3>2. b = a
        BY <1>4, <3>1 DEF Holding, Retiring
      <3>3. change[a].old # NoBox
        BY <1>0, <3>1, <3>2, Fields DEF NoBox
      <3> QED
        BY <1>1, <1>3, <3>1, <3>2, <3>3 DEF Retiring
    <2>2. \A l \in dirs :
         \/ l = box.lib
         \/ \E b \in Admins :
              \/ (Copied(b) \/ At(b, "cleanup"))' /\ l = change'[b].lib
              \/ change'[b].at \in Retiring \cup {"audio"} /\ l = change'[b].old.lib
      <3> SUFFICES ASSUME NEW l \in dirs, l # box.lib
                   PROVE  \E b \in Admins :
                      \/ (Copied(b) \/ At(b, "cleanup"))' /\ l = change'[b].lib
                      \/ change'[b].at \in Retiring \cup {"audio"} /\ l = change'[b].old.lib
        OBVIOUS
      <3>1. PICK b \in Admins :
              \/ (Copied(b) \/ At(b, "cleanup")) /\ l = change[b].lib
              \/ change[b].at \in Retiring \cup {"audio"} /\ l = change[b].old.lib
        BY <1>0 DEF LeftInv
      <3>2. CASE b # a
        BY <1>1, <3>1, <3>2 DEF Copied, At
      <3>3. CASE b = a
        <4>1. l = change[a].old.lib
          BY <1>2, <3>1, <3>3 DEF Copied, At
        <4>2. change[a].old # NoBox
          BY <1>0, <4>1, Fields DEF NoBox
        <4> QED
          BY <1>1, <1>3, <4>1, <4>2 DEF Retiring
      <3> QED
        BY <3>2, <3>3
    <2> QED
      BY <1>2, <2>1, <2>2 DEF LeftInv, stored
  <1> QED
    BY <1>Shape, <1>Step, <1>Lock, <1>Number, <1>Box, <1>Slot, <1>Open, <1>Edits, <1>Lib,
       <1>Whole, <1>Left DEF IInv

LEMMA CloseWorkspaceStep ==
  ASSUME IInv, NEW a \in Admins, CloseWorkspace(a)
  PROVE  IInv'
  <1>0. /\ Shape /\ StepInv /\ LockInv /\ NumberInv /\ BoxInv /\ SlotInv /\ OpenInv
        /\ EditsOfThisGeneration /\ LibInv /\ WholeInv /\ LeftInv
    BY DEF IInv
  <1> DEFINE place == AfterWorkspace(a)
  <1>2. /\ change[a].at = "close" /\ GateFree(a)
        /\ cancelled' = cancelled \cup {change[a].taken}
        /\ lock' = IF place \in {"idle", "erase"} THEN None ELSE lock
        /\ UNCHANGED <<stored, slot, account, stale, stray, left>>
    BY DEF CloseWorkspace, At, AfterWorkspace, Released
  <1>3. /\ place \in {"idle", "erase", "drop"}
        /\ place \in {"idle", "erase"} => change[a].old = NoBox
        /\ place = "erase" => change[a].kind = "delete"
    BY DEF AfterWorkspace, Released
  <1>1. /\ change' \in [Admins -> Changes]
        /\ change'[a].at = place
        /\ place = "idle" =>
              /\ change'[a] = Idle
              /\ change'[a].id = 0 /\ change'[a].lib = 0 /\ change'[a].seen = 0
              /\ change'[a].old = NoBox /\ change'[a].old.gen = 0 /\ change'[a].old.lib = 0
              /\ change'[a].kind = "none"
        /\ place # "idle" =>
              /\ SameFields(a)
              /\ change'[a].old = change[a].old /\ change'[a].taken = change[a].taken
        /\ \A b \in Admins : b # a => change'[b] = change[b]
    <2>1. place \in {"idle", "erase", "cleanup"} \cup Holding /\ Go(a, place)
      BY <1>3 DEF Holding, CloseWorkspace
    <2> HIDE DEF place
    <2> QED
      BY <1>0, <2>1, GoesEffect
  <1>4. lock = a /\ \A b \in Admins : b # a => change[b].at \notin Holding
    BY <1>0, <1>2 DEF LockInv, Holding
  <1> HIDE DEF place
  <1>Shape. Shape'
    BY <1>0, <1>1, <1>2, <1>3, <1>4, SandboxAssumption DEF Shape, account, stored
  <1>Step. StepInv'
    BY <1>0, <1>1, <1>2, <1>3, <1>4 DEF StepInv, At, Installs, SameFields
  <1>Lock. LockInv'
    BY <1>0, <1>1, <1>2, <1>3, <1>4, SandboxAssumption DEF LockInv, Holding, account, Installs
  <1>Number. NumberInv'
    <2>1. \A b \in Admins : Follows(b) /\ (At(b, "idle")' => change'[b].id \in {0, change[b].id})
      BY <1>1, <1>2, <1>3 DEF Follows, At, SameFields, Before
    <2>2. \A w \in Nat : Published(w)' => Published(w) \/ w = 0
      BY <1>1, <1>2, <1>3, <1>2 DEF Published, Ref, account, stored, SameFields
    <2> QED
      BY <1>0, <1>2, <2>1, <2>2, NumbersKept
  <1>Box. BoxInv'
    BY <1>0, <1>1, <1>2, <1>3, <1>4 DEF BoxInv, Retiring, Installs, SameFields, stored
  <1>Slot. SlotInv'
    BY <1>0, <1>1, <1>2, <1>3, <1>4 DEF SlotInv, At, stored
  <1>Open. OpenInv'
    <2>1. \A w : Ref(w)' = Ref(w)
      BY <1>2 DEF Ref, account
    <2>2. \A w : w \notin cancelled' /\ Closing(w) => Closing(w)'
      BY <1>1, <1>2, <1>3, <1>4 DEF Closing, At, Holding
    <2>3. \A w : w # 0 /\ Abandoned(w) => Abandoned(w)'
      BY <1>1, <1>2, <1>3 DEF Abandoned, SameFields, stored, Retiring
    <2>4. \A w \in Nat \ (cancelled' \cup {0}) :
            Ref(w)' => w \in schemas' /\ (w = slot' \/ Closing(w)' \/ Abandoned(w)')
      BY <1>0, <1>2, <2>1, <2>2, <2>3 DEF OpenInv, stored
    <2>5. \A s \in Sockets : socket[s].at = "command" => socket[s].ws \notin cancelled'
      BY <1>0, <1>2 DEF OpenInv, GateFree
    <2>6. \A r \in Requests : request[r].at # "running"
      BY <1>0, <1>4, SandboxAssumption DEF LockInv
    <2> QED
      BY <1>0, <1>2, <2>4, <2>5, <2>6 DEF OpenInv, account
  <1>Edits. EditsOfThisGeneration'
    BY <1>0, <1>1, <1>2, <1>3, <1>4 DEF EditsOfThisGeneration, stored
  <1>Lib. LibInv'
    <2>1. \A b \in Admins : Follows(b)
      BY <1>1, <1>2, <1>3 DEF Follows, At, SameFields, Before
    <2>2. \A b \in Admins : change'[b].lib \in {0, change[b].lib}
      BY <1>1, <1>2, <1>3 DEF SameFields
    <2>3. \A b \in Admins : change'[b].old.lib \in {0, change[b].old.lib, box.lib}
      BY <1>1, <1>2, <1>3
    <2>4. box'.lib \in {0, box.lib} /\ left'.changes = left.changes
      BY <1>2 DEF stored
    <2> QED
      BY <1>0, <2>1, <2>2, <2>3, <2>4, LibsKept
  <1>Whole. WholeInv'
    BY <1>0, <1>1, <1>2, <1>3, <1>4
    DEF WholeInv, PublishedIsWhole, Copied, Before, SameFields, stored
  <1>Left. LeftInv'
    <2> SUFFICES ASSUME ~ Faulty, role # "gone"
                 PROVE  LeftInv'
      BY <1>2 DEF LeftInv, Faulty, stored
    <2>1. \A w \in schemas :
            w = box.gen \/ \E b \in Admins : change'[b].at \in Retiring /\ w = change'[b].old.gen
      <3> SUFFICES ASSUME NEW w \in schemas, w # box.gen
                   PROVE  \E b \in Admins : change'[b].at \in Retiring /\ w = change'[b].old.gen
        OBVIOUS
      <3>1. PICK b \in Admins : change[b].at \in Retiring /\ w = change[b].old.gen
        BY <1>0 DEF LeftInv
      <3>2. b = a
        BY <1>4, <3>1 DEF Holding, Retiring
      <3>3. change[a].old # NoBox
        BY <1>0, <3>1, <3>2, Fields DEF NoBox
      <3> QED
        BY <1>1, <1>3, <3>1, <3>2, <3>3 DEF Retiring
    <2>2. \A l \in dirs :
         \/ l = box.lib
         \/ \E b \in Admins :
              \/ (Copied(b) \/ At(b, "cleanup"))' /\ l = change'[b].lib
              \/ change'[b].at \in Retiring \cup {"audio"} /\ l = change'[b].old.lib
      <3> SUFFICES ASSUME NEW l \in dirs, l # box.lib
                   PROVE  \E b \in Admins :
                      \/ (Copied(b) \/ At(b, "cleanup"))' /\ l = change'[b].lib
                      \/ change'[b].at \in Retiring \cup {"audio"} /\ l = change'[b].old.lib
        OBVIOUS
      <3>1. PICK b \in Admins :
              \/ (Copied(b) \/ At(b, "cleanup")) /\ l = change[b].lib
              \/ change[b].at \in Retiring \cup {"audio"} /\ l = change[b].old.lib
        BY <1>0 DEF LeftInv
      <3>2. CASE b # a
        BY <1>1, <3>1, <3>2 DEF Copied, At
      <3>3. CASE b = a
        <4>1. l = change[a].old.lib
          BY <1>2, <3>1, <3>3 DEF Copied, At
        <4>2. change[a].old # NoBox
          BY <1>0, <4>1, Fields DEF NoBox
        <4> QED
          BY <1>1, <1>3, <4>1, <4>2 DEF Retiring
      <3> QED
        BY <3>2, <3>3
    <2> QED
      BY <1>2, <2>1, <2>2 DEF LeftInv, stored
  <1> QED
    BY <1>Shape, <1>Step, <1>Lock, <1>Number, <1>Box, <1>Slot, <1>Open, <1>Edits, <1>Lib,
       <1>Whole, <1>Left DEF IInv
LEMMA DropSchemaStep ==
  ASSUME IInv, NEW a \in Admins, DropSchema(a)
  PROVE  IInv'
  <1>0. /\ Shape /\ StepInv /\ LockInv /\ NumberInv /\ BoxInv /\ SlotInv /\ OpenInv
        /\ EditsOfThisGeneration /\ LibInv /\ WholeInv /\ LeftInv
    BY DEF IInv
  <1>1. /\ change' \in [Admins -> Changes]
        /\ change'[a].at = "audio" /\ SameFields(a)
        /\ change'[a].old = change[a].old /\ change'[a].taken = change[a].taken
        /\ \A b \in Admins : b # a => change'[b] = change[b]
    BY <1>0, GoEffect DEF DropSchema, Holding
  <1>2. /\ change[a].at = "drop"
        /\ schemas' = schemas \ {change[a].old.gen}
        /\ edits' = IF Installs(a) THEN edits ELSE 0
        /\ UNCHANGED <<role, box, dirs, slot, lock, cancelled, account, stale, stray, left>>
    BY DEF DropSchema, At
  <1>4. lock = a /\ \A b \in Admins : b # a => change[b].at \notin Holding
    BY <1>0, <1>2 DEF LockInv, Holding
  <1>Shape. Shape'
    BY <1>0, <1>1, <1>2, <1>4 DEF Shape, account
  <1>Step. StepInv'
    BY <1>0, <1>1, <1>2, <1>4 DEF StepInv, At, Installs, SameFields
  <1>Lock. LockInv'
    BY <1>0, <1>1, <1>2, <1>4 DEF LockInv, Holding, account
  <1>Number. NumberInv'
    <2>1. \A b \in Admins : Follows(b) /\ (At(b, "idle")' => change'[b].id \in {0, change[b].id})
      BY <1>1, <1>2 DEF Follows, At, SameFields, Before
    <2>2. \A w \in Nat : Published(w)' => Published(w) \/ w = 0
      BY <1>1, <1>2, <1>2 DEF Published, Ref, account, stored, SameFields, NoBox
    <2> QED
      BY <1>0, <1>2, <2>1, <2>2, NumbersKept
  <1>Box. BoxInv'
    <2>1. \A b \in Admins : b # a => change[b].at \notin Retiring \cup {"audio"}
      BY <1>4 DEF Holding, Retiring
    <2> QED
      BY <1>0, <1>1, <1>2, <2>1 DEF BoxInv, SameFields, Installs, Retiring
  <1>Slot. SlotInv'
    BY <1>0, <1>1, <1>2, <1>4 DEF SlotInv, At
  <1>Open. OpenInv'
    <2>1. \A w : Ref(w)' = Ref(w)
      BY <1>2 DEF Ref, account
    <2>2. slot = 0 /\ \A w : ~ Closing(w)
      BY <1>0, <1>2, <1>4 DEF SlotInv, Closing, At, Holding
    <2>3. \A w : w # 0 /\ Abandoned(w) => Abandoned(w)' /\ w # change[a].old.gen
      BY <1>1, <1>2, <1>4 DEF Abandoned, Retiring
    <2> QED
      BY <1>0, <1>2, <2>1, <2>2, <2>3 DEF OpenInv, account
  <1>Edits. EditsOfThisGeneration'
    BY <1>0, <1>1, <1>2, <1>4 DEF EditsOfThisGeneration
  <1>Lib. LibInv'
    <2>1. \A b \in Admins : Follows(b)
      BY <1>1, <1>2 DEF Follows, At, SameFields, Before
    <2>2. \A b \in Admins : change'[b].lib \in {0, change[b].lib}
      BY <1>1, <1>2 DEF SameFields
    <2>3. \A b \in Admins : change'[b].old.lib \in {0, change[b].old.lib, box.lib}
      BY <1>1, <1>2
    <2>4. box'.lib \in {0, box.lib} /\ left'.changes = left.changes
      BY <1>2 DEF stored, NoBox
    <2> QED
      BY <1>0, <2>1, <2>2, <2>3, <2>4, LibsKept
  <1>Whole. WholeInv'
    <2>1. box # NoBox => box.gen # change[a].old.gen
      BY <1>0, <1>2, Fields DEF BoxInv, Retiring, NoBox
    <2> QED
      BY <1>0, <1>1, <1>2, <2>1 DEF WholeInv, PublishedIsWhole, Copied, SameFields, Before
  <1>Left. LeftInv'
    BY <1>0, <1>1, <1>2, <1>4 DEF LeftInv, Faulty, Copied, At, Retiring, SameFields
  <1> QED
    BY <1>Shape, <1>Step, <1>Lock, <1>Number, <1>Box, <1>Slot, <1>Open, <1>Edits, <1>Lib,
       <1>Whole, <1>Left DEF IInv

LEMMA RemoveAudioStep ==
  ASSUME IInv, NEW a \in Admins, RemoveAudio(a)
  PROVE  IInv'
  <1>0. /\ Shape /\ StepInv /\ LockInv /\ NumberInv /\ BoxInv /\ SlotInv /\ OpenInv
        /\ EditsOfThisGeneration /\ LibInv /\ WholeInv /\ LeftInv
    BY DEF IInv
  <1>2. /\ change[a].at = "audio"
        /\ lock' = None
        /\ UNCHANGED <<role, box, schemas, edits, slot, cancelled, account, stale, stray>>
        /\ \/ dirs' = RemainingAudio(a) /\ UNCHANGED left
           \/ UNCHANGED dirs /\ Spend("faults")
    BY DEF RemoveAudio, At
  <1> DEFINE place == Released(a)
  <1>3. /\ place \in {"idle", "erase"} /\ (place = "erase" => change[a].kind = "delete")
    BY DEF Released
  <1>5. left' \in [changes : Nat, calls : Nat, faults : Nat]
        /\ left'.changes = left.changes /\ left'.faults <= left.faults
        /\ \/ UNCHANGED dirs /\ left'.faults < left.faults
           \/ dirs' = RemainingAudio(a) /\ left' = left
    BY <1>0, <1>2 DEF Spend, Shape
  <1>1. /\ change' \in [Admins -> Changes]
        /\ change'[a].at = place
        /\ place = "idle" =>
              /\ change'[a] = Idle
              /\ change'[a].id = 0 /\ change'[a].lib = 0 /\ change'[a].seen = 0
              /\ change'[a].old = NoBox /\ change'[a].old.gen = 0 /\ change'[a].old.lib = 0
              /\ change'[a].kind = "none"
        /\ place # "idle" =>
              /\ SameFields(a)
              /\ change'[a].old = change[a].old /\ change'[a].taken = change[a].taken
        /\ \A b \in Admins : b # a => Others(a, b)
    <2>1. change' = [b \in Admins |->
            IF b = a THEN Moved(change[a], place)
            ELSE [change[b] EXCEPT !.swept = @ \/ (~ At(b, "idle") /\ ~ Installs(a))]]
      BY DEF RemoveAudio
    <2>2. Moved(change[a], place) \in Changes
      BY <1>0, <1>3, Fields DEF Moved, Idle, NoBox, Changes
    <2>3. place # "idle" => change'[a] = [change[a] EXCEPT !.at = place]
      BY <2>1 DEF Moved
    <2>4. place # "idle" => SameFields(a) /\ change'[a].old = change[a].old
                            /\ change'[a].taken = change[a].taken
      BY <1>0, <2>3, Fields DEF SameFields, Changes
    <2>5. place = "idle" => change'[a] = Idle
      BY <2>1 DEF Moved
    <2>6. change'[a].at = place /\ change'[a] \in Changes
      BY <1>0, <2>1, <2>2, <2>3, <2>5, Fields DEF Idle, Changes
    <2> HIDE DEF place
    <2>7. ASSUME NEW b \in Admins, b # a
          PROVE  Others(a, b) /\ change'[b] \in Changes
      <3> DEFINE e == change[b].swept \/ (~ At(b, "idle") /\ ~ Installs(a))
      <3>1. change'[b] = [change[b] EXCEPT !.swept = e]
        BY <2>1, <2>7
      <3>2. change[b] \in Changes /\ e \in BOOLEAN
        BY <1>0, Fields
      <3>3. At(b, "idle") => e = change[b].swept
        <4>1. At(b, "idle") => (e <=> change[b].swept)
          OBVIOUS
        <4>2. change[b].swept \in BOOLEAN
          BY <1>0, Fields
        <4> QED
          BY <3>2, <4>1, <4>2
      <3> HIDE DEF e
      <3>4. change'[b] \in Changes
        BY <3>1, <3>2 DEF Changes
      <3>5. At(b, "idle") => change'[b] = change[b]
        BY <3>1, <3>2, <3>3 DEF Changes
      <3>6. change'[b].swept = e
        BY <3>1, <3>2 DEF Changes
      <3> QED
        BY <3>1, <3>2, <3>4, <3>5, <3>6 DEF Others, Changes, e
    <2>8. change' \in [Admins -> Changes]
      <3>1. \A b \in Admins : change'[b] \in Changes
        BY <2>6, <2>7
      <3> QED
        BY <2>1, <3>1
    <2>9. place = "idle" =>
              /\ change'[a] = Idle
              /\ change'[a].id = 0 /\ change'[a].lib = 0 /\ change'[a].seen = 0
              /\ change'[a].old = NoBox /\ change'[a].old.gen = 0 /\ change'[a].old.lib = 0
              /\ change'[a].kind = "none"
      BY <2>5 DEF Idle, NoBox
    <2> QED
      BY <2>4, <2>6, <2>7, <2>8, <2>9
  <1>4. lock = a /\ \A b \in Admins : b # a => change[b].at \notin Holding
    BY <1>0, <1>2 DEF LockInv, Holding
  <1>6. \A b \in Admins : b # a =>
          /\ change'[b].at = change[b].at /\ change'[b].kind = change[b].kind
          /\ change'[b].id = change[b].id /\ change'[b].lib = change[b].lib
          /\ change'[b].seen = change[b].seen /\ change'[b].old = change[b].old
          /\ change'[b].taken = change[b].taken
    BY <1>1 DEF Others
  <1>7. dirs' \subseteq dirs
    BY <1>0, <1>5, Fields DEF RemainingAudio
  <1> HIDE DEF place
  <1>Shape. Shape'
    <2>1. dirs' \subseteq Nat \ {0}
      BY <1>0, <1>7, Fields
    <2>2. left'.faults <= MaxFaults
      BY <1>0, <1>5, SandboxAssumption DEF Shape
    <2> QED
      BY <1>0, <1>1, <1>2, <1>5, <2>1, <2>2 DEF Shape, account
  <1>Step. StepInv'
    BY <1>0, <1>1, <1>2, <1>3, <1>6 DEF StepInv, At, Installs, Others, SameFields
  <1>Lock. LockInv'
    BY <1>0, <1>1, <1>2, <1>3, <1>4, <1>5, <1>6, SandboxAssumption DEF LockInv, Holding, account
  <1>Number. NumberInv'
    <2>1. \A b \in Admins : Follows(b) /\ (At(b, "idle")' => change'[b].id \in {0, change[b].id})
      BY <1>1, <1>2, <1>3, <1>6 DEF Follows, At, SameFields, Before
    <2>2. \A w \in Nat : Published(w)' => Published(w) \/ w = 0
      BY <1>1, <1>2, <1>3, <1>6 DEF Published, Ref, account, SameFields
    <2> QED
      BY <1>0, <1>5, <2>1, <2>2, NumbersKept
  <1>Box. BoxInv'
    BY <1>0, <1>1, <1>2, <1>3, <1>4, <1>5, <1>6 DEF BoxInv, Retiring, Installs, SameFields
  <1>Slot. SlotInv'
    BY <1>0, <1>1, <1>2, <1>3, <1>4, <1>5, <1>6 DEF SlotInv, At
  <1>Open. OpenInv'
    BY <1>0, <1>1, <1>2, <1>3, <1>4, <1>5, <1>6
    DEF OpenInv, At, Closing, Abandoned, Ref, Retiring, account
  <1>Edits. EditsOfThisGeneration'
    BY <1>0, <1>1, <1>2, <1>3, <1>4, <1>5, <1>6 DEF EditsOfThisGeneration
  <1>Lib. LibInv'
    <2>1. \A b \in Admins : Follows(b)
      BY <1>1, <1>2, <1>3, <1>6 DEF Follows, At, SameFields, Before
    <2>2. \A b \in Admins : change'[b].lib \in {0, change[b].lib}
      BY <1>1, <1>6 DEF SameFields
    <2>3. \A b \in Admins : change'[b].old.lib \in {0, change[b].old.lib, box.lib}
      BY <1>1, <1>6
    <2>4. box'.lib \in {0, box.lib}
      BY <1>2
    <2> QED
      BY <1>0, <1>5, <2>1, <2>2, <2>3, <2>4, LibsKept
  <1>Whole. WholeInv'
    <2>1. box # NoBox => box.lib \in dirs' \/ stale
      <3>1. box # NoBox => Installs(a) /\ box.lib = change[a].lib
        BY <1>0, <1>2, Fields DEF BoxInv, Retiring
      <3> QED
        BY <1>0, <1>5, <3>1 DEF WholeInv, PublishedIsWhole, RemainingAudio
    <2>2. \A b \in Admins : b # a /\ Copied(b) => change'[b].lib \in dirs' \/ change'[b].swept
      <3> SUFFICES ASSUME NEW b \in Admins, b # a, Copied(b), ~ change'[b].swept
                   PROVE  change[b].lib \in dirs'
        BY <1>6
      <3>1. ~ change[b].swept /\ (At(b, "idle") \/ Installs(a))
        BY <1>1 DEF Others
      <3>2. change[b].lib \in dirs /\ change[b].lib # change[a].old.lib /\ Installs(a)
        BY <1>0, <3>1 DEF WholeInv, LibInv, Copied, Before, At
      <3> QED
        BY <1>5, <3>2 DEF RemainingAudio
    <2> QED
      BY <1>0, <1>1, <1>2, <1>3, <1>6, <2>1, <2>2
      DEF WholeInv, PublishedIsWhole, Copied, Before, SameFields
  <1>Left. LeftInv'
    <2> SUFFICES ASSUME ~ Faulty', role # "gone"
                 PROVE  LeftInv'
      BY <1>2 DEF LeftInv
    <2>1. ~ Faulty /\ dirs' = RemainingAudio(a)
      BY <1>0, <1>5 DEF Faulty, Shape
    <2>2. \A w \in schemas :
            w = box.gen \/ \E b \in Admins : change'[b].at \in Retiring /\ w = change'[b].old.gen
      BY <1>0, <1>2, <1>6, <2>1 DEF LeftInv, Retiring
    <2>3. CASE ~ Installs(a)
      BY <1>2, <2>1, <2>2, <2>3 DEF LeftInv, RemainingAudio
    <2>4. CASE Installs(a)
      <3>1. box.lib = change[a].lib
        BY <1>0, <1>2, <2>4 DEF BoxInv
      <3>2. \A l \in dirs' :
             \/ l = box.lib
             \/ \E b \in Admins : b # a /\
                  \/ (Copied(b) \/ At(b, "cleanup")) /\ l = change[b].lib
                  \/ change[b].at \in Retiring \cup {"audio"} /\ l = change[b].old.lib
        BY <1>0, <1>2, <2>1, <2>4, <3>1 DEF LeftInv, RemainingAudio, Copied, At
      <3>3. \A l \in dirs' :
             \/ l = box.lib
             \/ \E b \in Admins :
                  \/ (Copied(b) \/ At(b, "cleanup"))' /\ l = change'[b].lib
                  \/ change'[b].at \in Retiring \cup {"audio"} /\ l = change'[b].old.lib
        BY <1>6, <3>2 DEF Copied, At
      <3> QED
        BY <1>2, <2>2, <3>3 DEF LeftInv
    <2> QED
      BY <2>3, <2>4
  <1> QED
    BY <1>Shape, <1>Step, <1>Lock, <1>Number, <1>Box, <1>Slot, <1>Open, <1>Edits, <1>Lib,
       <1>Whole, <1>Left DEF IInv

LEMMA EraseStep ==
  ASSUME IInv, NEW a \in Admins, Erase(a)
  PROVE  IInv'
  <1>0. /\ Shape /\ StepInv /\ LockInv /\ NumberInv /\ BoxInv /\ SlotInv /\ OpenInv
        /\ EditsOfThisGeneration /\ LibInv /\ WholeInv /\ LeftInv
    BY DEF IInv
  <1>1. /\ change' \in [Admins -> Changes]
        /\ change'[a] = Idle
        /\ \A b \in Admins : b # a => change'[b] = change[b]
    BY <1>0, IdleEffect DEF Erase
  <1>2. /\ change[a].at = "erase"
        /\ role' = "gone" /\ box' = NoBox /\ box'.gen = 0 /\ box'.lib = 0
        /\ UNCHANGED <<schemas, dirs, edits, slot, lock, cancelled, account, stale, stray, left>>
    BY DEF Erase, At, NoBox
  <1>3. /\ change'[a].id = 0 /\ change'[a].lib = 0 /\ change'[a].seen = 0
        /\ change'[a].old = NoBox /\ change'[a].old.gen = 0 /\ change'[a].old.lib = 0
        /\ change'[a].kind = "none" /\ change'[a].at = "idle"
    BY <1>1 DEF Idle, NoBox
  <1>5. box' \in [gen : Nat, lib : Nat]
    BY <1>2 DEF NoBox
  <1>Shape. Shape'
    BY <1>0, <1>1, <1>2, <1>3, <1>5 DEF Shape, account
  <1>Step. StepInv'
    BY <1>0, <1>1, <1>2, <1>3, <1>5 DEF StepInv, At, Installs, SameFields
  <1>Lock. LockInv'
    BY <1>0, <1>1, <1>2, <1>3, <1>5 DEF LockInv, Holding, account
  <1>Number. NumberInv'
    <2>1. \A b \in Admins : Follows(b) /\ (At(b, "idle")' => change'[b].id \in {0, change[b].id})
      BY <1>1, <1>2, <1>3 DEF Follows, At, SameFields, Before
    <2>2. \A w \in Nat : Published(w)' => Published(w) \/ w = 0
      BY <1>1, <1>2, <1>3, <1>2 DEF Published, Ref, account, stored, SameFields, NoBox
    <2> QED
      BY <1>0, <1>2, <2>1, <2>2, NumbersKept
  <1>Box. BoxInv'
    BY <1>0, <1>1, <1>2, <1>3, <1>5 DEF BoxInv, Retiring, Installs, SameFields
  <1>Slot. SlotInv'
    BY <1>0, <1>1, <1>2, <1>3, <1>5 DEF SlotInv, At
  <1>Open. OpenInv'
    BY <1>0, <1>1, <1>2, <1>3, <1>5 DEF OpenInv, At, Closing, Abandoned, Ref, Retiring, account
  <1>Edits. EditsOfThisGeneration'
    BY <1>0, <1>1, <1>2, <1>3, <1>5 DEF EditsOfThisGeneration
  <1>Lib. LibInv'
    <2>1. \A b \in Admins : Follows(b)
      BY <1>1, <1>3, <1>2 DEF Follows, At, SameFields, Before
    <2>2. \A b \in Admins : change'[b].lib \in {0, change[b].lib}
      BY <1>1, <1>3, <1>2 DEF SameFields
    <2>3. \A b \in Admins : change'[b].old.lib \in {0, change[b].old.lib, box.lib}
      BY <1>1, <1>3, <1>2
    <2>4. box'.lib \in {0, box.lib} /\ left'.changes = left.changes
      BY <1>2 DEF stored, NoBox
    <2> QED
      BY <1>0, <2>1, <2>2, <2>3, <2>4, LibsKept
  <1>Whole. WholeInv'
    BY <1>0, <1>1, <1>2, <1>3, <1>5 DEF WholeInv, PublishedIsWhole, Copied, Before, SameFields
  <1>Left. LeftInv'
    BY <1>0, <1>1, <1>2, <1>3, <1>5 DEF LeftInv, Faulty, Copied, At, Retiring, SameFields
  <1> QED
    BY <1>Shape, <1>Step, <1>Lock, <1>Number, <1>Box, <1>Slot, <1>Open, <1>Edits, <1>Lib,
       <1>Whole, <1>Left DEF IInv

LEMMA CleanUpStep ==
  ASSUME IInv, NEW a \in Admins, CleanUp(a)
  PROVE  IInv'
  <1>0. /\ Shape /\ StepInv /\ LockInv /\ NumberInv /\ BoxInv /\ SlotInv /\ OpenInv
        /\ EditsOfThisGeneration /\ LibInv /\ WholeInv /\ LeftInv
    BY DEF IInv
  <1>1. /\ change' \in [Admins -> Changes]
        /\ change'[a] = Idle
        /\ \A b \in Admins : b # a => change'[b] = change[b]
    BY <1>0, IdleEffect DEF CleanUp
  <1>2. /\ change[a].at = "cleanup" /\ change[a].kind = "configure"
        /\ dirs' = IF box.lib = change[a].lib THEN dirs ELSE dirs \ {change[a].lib}
        /\ UNCHANGED <<role, box, schemas, edits, slot, lock, cancelled, account, stale, stray,
                       left>>
    BY <1>0 DEF CleanUp, Cleanup, At, StepInv
  <1>3. /\ change'[a].id = 0 /\ change'[a].lib = 0 /\ change'[a].seen = 0
        /\ change'[a].old = NoBox /\ change'[a].old.gen = 0 /\ change'[a].old.lib = 0
        /\ change'[a].kind = "none" /\ change'[a].at = "idle"
    BY <1>1 DEF Idle, NoBox
  <1>Shape. Shape'
    BY <1>0, <1>1, <1>2, <1>3 DEF Shape, account
  <1>Step. StepInv'
    BY <1>0, <1>1, <1>2, <1>3 DEF StepInv, At, Installs, SameFields
  <1>Lock. LockInv'
    BY <1>0, <1>1, <1>2, <1>3 DEF LockInv, Holding, account
  <1>Number. NumberInv'
    <2>1. \A b \in Admins : Follows(b) /\ (At(b, "idle")' => change'[b].id \in {0, change[b].id})
      BY <1>1, <1>2, <1>3 DEF Follows, At, SameFields, Before
    <2>2. \A w \in Nat : Published(w)' => Published(w) \/ w = 0
      BY <1>1, <1>2, <1>3, <1>2 DEF Published, Ref, account, stored, SameFields, NoBox
    <2> QED
      BY <1>0, <1>2, <2>1, <2>2, NumbersKept
  <1>Box. BoxInv'
    BY <1>0, <1>1, <1>2, <1>3 DEF BoxInv, Retiring, Installs, SameFields
  <1>Slot. SlotInv'
    BY <1>0, <1>1, <1>2, <1>3 DEF SlotInv, At
  <1>Open. OpenInv'
    BY <1>0, <1>1, <1>2, <1>3 DEF OpenInv, At, Closing, Abandoned, Ref, Retiring, account
  <1>Edits. EditsOfThisGeneration'
    BY <1>0, <1>1, <1>2, <1>3 DEF EditsOfThisGeneration
  <1>Lib. LibInv'
    <2>1. \A b \in Admins : Follows(b)
      BY <1>1, <1>3, <1>2 DEF Follows, At, SameFields, Before
    <2>2. \A b \in Admins : change'[b].lib \in {0, change[b].lib}
      BY <1>1, <1>3, <1>2 DEF SameFields
    <2>3. \A b \in Admins : change'[b].old.lib \in {0, change[b].old.lib, box.lib}
      BY <1>1, <1>3, <1>2
    <2>4. box'.lib \in {0, box.lib} /\ left'.changes = left.changes
      BY <1>2 DEF stored, NoBox
    <2> QED
      BY <1>0, <2>1, <2>2, <2>3, <2>4, LibsKept
  <1>Whole. WholeInv'
    <2>1. \A b \in Admins : b # a /\ Copied(b) => change[b].lib # change[a].lib
      BY <1>0 DEF LibInv, Copied, Before
    <2> QED
      BY <1>0, <1>1, <1>2, <1>3, <2>1 DEF WholeInv, PublishedIsWhole, Copied, Before
  <1>Left. LeftInv'
    BY <1>0, <1>1, <1>2, <1>3 DEF LeftInv, Faulty, Copied, At, Retiring, SameFields
  <1> QED
    BY <1>Shape, <1>Step, <1>Lock, <1>Number, <1>Box, <1>Slot, <1>Open, <1>Edits, <1>Lib,
       <1>Whole, <1>Left DEF IInv

LEMMA FailStep ==
  ASSUME IInv, NEW a \in Admins, Fail(a)
  PROVE  IInv'
  <1>0. /\ Shape /\ StepInv /\ LockInv /\ NumberInv /\ BoxInv /\ SlotInv /\ OpenInv
        /\ EditsOfThisGeneration /\ LibInv /\ WholeInv /\ LeftInv
    BY DEF IInv
  <1> DEFINE place == AfterFailure(a)
  <1>2. /\ ~ At(a, "idle")
        /\ change[a].at \in {"take", "close", "revoke", "audio", "erase", "lock"} => ~ Installs(a)
        /\ lock' = IF lock = a THEN None ELSE lock
        /\ stray' = (stray \/ At(a, "close"))
        /\ left' \in [changes : Nat, calls : Nat, faults : Nat]
        /\ left'.changes = left.changes /\ left'.faults < left.faults
        /\ UNCHANGED <<stored, slot, cancelled, account, stale>>
    BY <1>0 DEF Fail, At, Spend, Shape
  <1>3. /\ place \in {"idle", "cleanup"} 
        /\ place = "cleanup" => /\ change[a].kind = "configure"
                                /\ change[a].at \in {"provision", "drop"}
    BY DEF AfterFailure
  <1>1. /\ change' \in [Admins -> Changes]
        /\ change'[a].at = place
        /\ place = "idle" =>
              /\ change'[a] = Idle
              /\ change'[a].id = 0 /\ change'[a].lib = 0 /\ change'[a].seen = 0
              /\ change'[a].old = NoBox /\ change'[a].old.gen = 0 /\ change'[a].old.lib = 0
              /\ change'[a].kind = "none"
        /\ place # "idle" =>
              /\ SameFields(a)
              /\ change'[a].old = change[a].old /\ change'[a].taken = change[a].taken
        /\ \A b \in Admins : b # a => change'[b] = change[b]
    <2>1. place \in {"idle", "erase", "cleanup"} \cup Holding /\ Go(a, place)
      BY DEF Fail, AfterFailure
    <2> HIDE DEF place
    <2> QED
      BY <1>0, <2>1, GoesEffect
  <1> HIDE DEF place
  <1>4. Faulty'
    BY <1>0, <1>2 DEF Faulty, Shape
  <1>Shape. Shape'
    BY <1>0, <1>1, <1>2, <1>3, <1>4, SandboxAssumption DEF Shape, account, stored
  <1>Step. StepInv'
    BY <1>0, <1>1, <1>2, <1>3, <1>4 DEF StepInv, At, Installs, SameFields
  <1>Lock. LockInv'
    BY <1>0, <1>1, <1>2, <1>3, <1>4, SandboxAssumption DEF LockInv, Holding, account, Installs
  <1>Number. NumberInv'
    <2>1. \A b \in Admins : Follows(b) /\ (At(b, "idle")' => change'[b].id \in {0, change[b].id})
      BY <1>1, <1>2, <1>3 DEF Follows, At, SameFields, Before
    <2>2. \A w \in Nat : Published(w)' => Published(w) \/ w = 0
      BY <1>1, <1>2, <1>3, <1>2 DEF Published, Ref, account, stored, SameFields, NoBox
    <2> QED
      BY <1>0, <1>2, <2>1, <2>2, NumbersKept
  <1>Box. BoxInv'
    BY <1>0, <1>1, <1>2, <1>3, <1>4 DEF BoxInv, Retiring, Installs, SameFields, stored
  <1>Slot. SlotInv'
    <2>1. At(a, "take") => box = NoBox
      BY <1>0, <1>2 DEF BoxInv, Retiring, At
    <2> QED
      BY <1>0, <1>1, <1>2, <1>3, <2>1 DEF SlotInv, At, stored
  <1>Open. OpenInv'
    <2>1. \A w : Ref(w)' = Ref(w)
      BY <1>2 DEF Ref, account
    <2>2. \A w : w # 0 /\ Abandoned(w) => Abandoned(w)'
      BY <1>1, <1>2, <1>3 DEF Abandoned, stored, Retiring
    <2>3. ASSUME NEW w \in Nat, Closing(w), w # 0, w \notin cancelled
          PROVE  Closing(w)' \/ Abandoned(w)'
      <3>1. CASE At(a, "close")
        <4>1. box = NoBox /\ box'.gen = 0 /\ stray'
          <5>1. ~ Installs(a) /\ change[a].at \in Retiring
            BY <1>2, <3>1 DEF Retiring, At
          <5>2. box = NoBox
            BY <1>0, <5>1 DEF BoxInv
          <5> QED
            BY <1>2, <3>1, <5>2 DEF NoBox, stored
        <4>2. \A b \in Admins : b # a => change[b].at \notin Retiring
          BY <1>0, <3>1 DEF LockInv, Holding, Retiring, At
        <4>3. \A b \in Admins : change'[b].at \notin Retiring
          BY <1>1, <1>3, <4>2 DEF Retiring
        <4> QED
          BY <2>3, <4>1, <4>3 DEF Abandoned
      <3>2. CASE ~ At(a, "close")
        BY <1>1, <2>3, <3>2 DEF Closing, At
      <3> QED
        BY <3>1, <3>2
    <2> QED
      BY <1>0, <1>2, <2>1, <2>2, <2>3 DEF OpenInv, account, stored
  <1>Edits. EditsOfThisGeneration'
    BY <1>0, <1>1, <1>2, <1>3, <1>4 DEF EditsOfThisGeneration, stored
  <1>Lib. LibInv'
    <2>1. \A b \in Admins : Follows(b)
      BY <1>1, <1>3, <1>2 DEF Follows, At, SameFields, Before
    <2>2. \A b \in Admins : change'[b].lib \in {0, change[b].lib}
      BY <1>1, <1>3, <1>2 DEF SameFields
    <2>3. \A b \in Admins : change'[b].old.lib \in {0, change[b].old.lib, box.lib}
      BY <1>1, <1>3, <1>2
    <2>4. box'.lib \in {0, box.lib} /\ left'.changes = left.changes
      BY <1>2 DEF stored, NoBox
    <2> QED
      BY <1>0, <2>1, <2>2, <2>3, <2>4, LibsKept
  <1>Whole. WholeInv'
    BY <1>0, <1>1, <1>2, <1>3, <1>4
    DEF WholeInv, PublishedIsWhole, Copied, Before, SameFields, stored
  <1>Left. LeftInv'
    BY <1>0, <1>1, <1>2, <1>3, <1>4
    DEF LeftInv, Faulty, Copied, At, Retiring, SameFields, stored, Installs
  <1> QED
    BY <1>Shape, <1>Step, <1>Lock, <1>Number, <1>Box, <1>Slot, <1>Open, <1>Edits, <1>Lib,
       <1>Whole, <1>Left DEF IInv
-----------------------------------------------------------------------------
LEMMA DemoteStep ==
  ASSUME IInv, NEW a \in Admins, Demote(a)
  PROVE  IInv'
  <1>0. /\ Shape /\ StepInv /\ LockInv /\ NumberInv /\ BoxInv /\ SlotInv /\ OpenInv
        /\ EditsOfThisGeneration /\ LibInv /\ WholeInv /\ LeftInv
    BY DEF IInv
  <1>1. /\ role = "admin" /\ role' = "demo"
        /\ left' \in [changes : Nat, calls : Nat, faults : Nat]
        /\ left'.changes \in Nat /\ left.changes \in Nat /\ left'.changes < left.changes
        /\ left'.faults = left.faults
        /\ UNCHANGED <<box, schemas, dirs, edits, slot, lock, cancelled, change, account, stale,
                       stray>>
    BY <1>0 DEF Demote, Spend, Shape
  <1>Shape. Shape'
    BY <1>0, <1>1 DEF Shape, account
  <1>Step. StepInv'
    BY <1>0, <1>1 DEF StepInv, At, Installs
  <1>Lock. LockInv'
    BY <1>0, <1>1 DEF LockInv, Holding, account
  <1>Number. NumberInv'
    <2>1. \A w \in Nat : Published(w)' => Published(w)
      BY <1>1 DEF Published, Ref, account
    <2>2. \A b \in Admins : change[b].id \in Nat
      BY <1>0, Fields
    <2>3. \A b \in Admins : Pending(b)' = Pending(b)
      BY <1>1 DEF Pending, Installs
    <2>4. \A b \in Admins : ~ At(b, "idle") =>
            change[b].id > left'.changes /\ change[b].id > left.changes
      BY <1>0, <1>1, <2>2 DEF NumberInv
    <2>5. \A w \in Nat : Published(w)' => w = 0 \/ w > left'.changes
      BY <1>0, <1>1, <2>1 DEF NumberInv
    <2>6. \A b \in Admins : Pending(b) => ~ Published(change[b].id)'
      BY <1>0, <1>1, <2>1, <2>2 DEF NumberInv
    <2> QED
      BY <1>0, <1>1, <2>3, <2>4, <2>5, <2>6 DEF NumberInv, At
  <1>Box. BoxInv'
    BY <1>0, <1>1 DEF BoxInv, Retiring, Installs
  <1>Slot. SlotInv'
    BY <1>0, <1>1 DEF SlotInv, At
  <1>Open. OpenInv'
    BY <1>0, <1>1 DEF OpenInv, At, Closing, Abandoned, Ref, Retiring, account
  <1>Edits. EditsOfThisGeneration'
    BY <1>0, <1>1 DEF EditsOfThisGeneration
  <1>Lib. LibInv'
    <2>1. \A b \in Admins : change[b].lib \in Nat /\ change[b].old.lib \in Nat
      BY <1>0, Fields
    <2>2. box.lib \in Nat
      BY <1>0 DEF Shape
    <2> QED
      BY <1>0, <1>1, <2>1, <2>2 DEF LibInv, At
  <1>Whole. WholeInv'
    BY <1>0, <1>1 DEF WholeInv, PublishedIsWhole, Copied, Before
  <1>Left. LeftInv'
    BY <1>0, <1>1 DEF LeftInv, Faulty, Copied, At, Retiring
  <1> QED
    BY <1>Shape, <1>Step, <1>Lock, <1>Number, <1>Box, <1>Slot, <1>Open, <1>Edits, <1>Lib,
       <1>Whole, <1>Left DEF IInv

LEMMA WorkspaceEffect ==
  ASSUME IInv, Workspace
  PROVE  /\ slot' = box.gen /\ slot' \in Nat \ {0} /\ slot \in {0, slot'}
         /\ lock = None /\ \A a \in Admins : change[a].at \notin Holding
         /\ left' \in [changes : Nat, calls : Nat, faults : Nat]
         /\ left'.changes = left.changes /\ left'.faults = left.faults
  <1>0. /\ Shape /\ StepInv /\ LockInv /\ NumberInv /\ BoxInv /\ SlotInv /\ OpenInv
        /\ EditsOfThisGeneration /\ LibInv /\ WholeInv /\ LeftInv
    BY DEF IInv
  <1>1. \A a \in Admins : change[a].at \notin Holding
    BY <1>0, SandboxAssumption DEF LockInv, Workspace
  <1>2. slot = 0 \/ slot = box.gen
    BY <1>0, <1>1 DEF SlotInv, Workspace, Holding, At
  <1>3. box.gen \in Nat \ {0}
    BY <1>0 DEF BoxInv, Workspace, Shape
  <1> QED
    BY <1>0, <1>1, <1>2, <1>3 DEF Workspace, Spend, Shape

LEMMA DispatchStep ==
  ASSUME IInv, NEW r \in Requests, Dispatch(r)
  PROVE  IInv'
  <1>0. /\ Shape /\ StepInv /\ LockInv /\ NumberInv /\ BoxInv /\ SlotInv /\ OpenInv
        /\ EditsOfThisGeneration /\ LibInv /\ WholeInv /\ LeftInv
    BY DEF IInv
  <1>1. /\ request' = [request EXCEPT ![r] = [at |-> "admission", ws |-> slot']]
        /\ UNCHANGED <<role, box, schemas, dirs, edits, lock, cancelled, change, socket, stale,
                       stray>>
    BY DEF Dispatch, stored
  <1>2. /\ slot' = box.gen /\ slot' \in Nat \ {0} /\ slot \in {0, slot'}
        /\ lock = None /\ \A a \in Admins : change[a].at \notin Holding
        /\ left' \in [changes : Nat, calls : Nat, faults : Nat]
        /\ left'.changes = left.changes /\ left'.faults = left.faults
    BY WorkspaceEffect DEF Dispatch
  <1>3. /\ request' \in [Requests -> [at : {"away", "admission", "running"}, ws : Nat]]
        /\ request'[r].at = "admission" /\ request'[r].ws = slot'
        /\ \A t \in Requests : t # r => request'[t] = request[t]
    BY <1>0, <1>1, <1>2 DEF Shape
  <1>Shape. Shape'
    BY <1>0, <1>1, <1>2, <1>3 DEF Shape
  <1>Step. StepInv'
    BY <1>0, <1>1, <1>2, <1>3 DEF StepInv, At, Installs
  <1>Lock. LockInv'
    BY <1>0, <1>1, <1>2, <1>3 DEF LockInv, Holding
  <1>Number. NumberInv'
    <2>1. \A b \in Admins : Follows(b)
      BY <1>1 DEF Follows, At
    <2>2. \A w \in Nat : Published(w)' => Published(w)
      BY <1>1, <1>2, <1>3 DEF Published, Ref
    <2> QED
      BY <1>0, <1>1, <1>2, <2>1, <2>2, NumbersKept
  <1>Box. BoxInv'
    BY <1>0, <1>1, <1>2, <1>3 DEF BoxInv, Retiring, Installs
  <1>Slot. SlotInv'
    BY <1>0, <1>1, <1>2 DEF SlotInv, At, Holding
  <1>Open. OpenInv'
    <2>1. \A w : Ref(w)' => w = slot' \/ Ref(w)
      BY <1>1, <1>3 DEF Ref
    <2>2. slot' \in schemas
      BY <1>0, <1>2 DEF WholeInv, PublishedIsWhole, NoBox
    <2>3. \A w : Closing(w)' = Closing(w) /\ Abandoned(w)' = Abandoned(w)
      BY <1>1 DEF Closing, Abandoned, At
    <2> QED
      BY <1>0, <1>1, <1>2, <1>3, <2>1, <2>2, <2>3 DEF OpenInv
  <1>Edits. EditsOfThisGeneration'
    BY <1>0, <1>1, <1>2, <1>3 DEF EditsOfThisGeneration
  <1>Lib. LibInv'
    BY <1>0, <1>1, <1>2, <1>3 DEF LibInv, At, Before
  <1>Whole. WholeInv'
    BY <1>0, <1>1, <1>2, <1>3 DEF WholeInv, PublishedIsWhole, Copied, Before
  <1>Left. LeftInv'
    BY <1>0, <1>1, <1>2, <1>3 DEF LeftInv, Faulty, Copied, At, Retiring
  <1> QED
    BY <1>Shape, <1>Step, <1>Lock, <1>Number, <1>Box, <1>Slot, <1>Open, <1>Edits, <1>Lib,
       <1>Whole, <1>Left DEF IInv

LEMMA ConnectStep ==
  ASSUME IInv, NEW s \in Sockets, Connect(s)
  PROVE  IInv'
  <1>0. /\ Shape /\ StepInv /\ LockInv /\ NumberInv /\ BoxInv /\ SlotInv /\ OpenInv
        /\ EditsOfThisGeneration /\ LibInv /\ WholeInv /\ LeftInv
    BY DEF IInv
  <1>1. /\ socket' = [socket EXCEPT ![s] = [at |-> "open", ws |-> slot']]
        /\ UNCHANGED <<role, box, schemas, dirs, edits, lock, cancelled, change, request, stale,
                       stray>>
    BY DEF Connect, stored
  <1>2. /\ slot' = box.gen /\ slot' \in Nat \ {0} /\ slot \in {0, slot'}
        /\ lock = None /\ \A a \in Admins : change[a].at \notin Holding
        /\ left' \in [changes : Nat, calls : Nat, faults : Nat]
        /\ left'.changes = left.changes /\ left'.faults = left.faults
    BY WorkspaceEffect DEF Connect
  <1>3. /\ socket' \in [Sockets -> [at : {"away", "open", "command"}, ws : Nat]]
        /\ socket'[s].at = "open" /\ socket'[s].ws = slot'
        /\ \A t \in Sockets : t # s => socket'[t] = socket[t]
    BY <1>0, <1>1, <1>2 DEF Shape
  <1>Shape. Shape'
    BY <1>0, <1>1, <1>2, <1>3 DEF Shape
  <1>Step. StepInv'
    BY <1>0, <1>1, <1>2, <1>3 DEF StepInv, At, Installs
  <1>Lock. LockInv'
    BY <1>0, <1>1, <1>2, <1>3 DEF LockInv, Holding
  <1>Number. NumberInv'
    <2>1. \A b \in Admins : Follows(b)
      BY <1>1 DEF Follows, At
    <2>2. \A w \in Nat : Published(w)' => Published(w)
      BY <1>1, <1>2, <1>3 DEF Published, Ref
    <2> QED
      BY <1>0, <1>1, <1>2, <2>1, <2>2, NumbersKept
  <1>Box. BoxInv'
    BY <1>0, <1>1, <1>2, <1>3 DEF BoxInv, Retiring, Installs
  <1>Slot. SlotInv'
    BY <1>0, <1>1, <1>2 DEF SlotInv, At, Holding
  <1>Open. OpenInv'
    <2>1. \A w : Ref(w)' => w = slot' \/ Ref(w)
      BY <1>1, <1>3 DEF Ref
    <2>2. slot' \in schemas
      BY <1>0, <1>2 DEF WholeInv, PublishedIsWhole, NoBox
    <2>3. \A w : Closing(w)' = Closing(w) /\ Abandoned(w)' = Abandoned(w)
      BY <1>1 DEF Closing, Abandoned, At
    <2> QED
      BY <1>0, <1>1, <1>2, <1>3, <2>1, <2>2, <2>3 DEF OpenInv
  <1>Edits. EditsOfThisGeneration'
    BY <1>0, <1>1, <1>2, <1>3 DEF EditsOfThisGeneration
  <1>Lib. LibInv'
    BY <1>0, <1>1, <1>2, <1>3 DEF LibInv, At, Before
  <1>Whole. WholeInv'
    BY <1>0, <1>1, <1>2, <1>3 DEF WholeInv, PublishedIsWhole, Copied, Before
  <1>Left. LeftInv'
    BY <1>0, <1>1, <1>2, <1>3 DEF LeftInv, Faulty, Copied, At, Retiring
  <1> QED
    BY <1>Shape, <1>Step, <1>Lock, <1>Number, <1>Box, <1>Slot, <1>Open, <1>Edits, <1>Lib,
       <1>Whole, <1>Left DEF IInv

LEMMA AdmitStep ==
  ASSUME IInv, NEW r \in Requests, Admit(r)
  PROVE  IInv'
  <1>0. /\ Shape /\ StepInv /\ LockInv /\ NumberInv /\ BoxInv /\ SlotInv /\ OpenInv
        /\ EditsOfThisGeneration /\ LibInv /\ WholeInv /\ LeftInv
    BY DEF IInv
  <1>1. /\ request' \in [Requests -> [at : {"away", "admission", "running"}, ws : Nat]]
        /\ \A t \in Requests : t # r => request'[t] = request[t]
        /\ request'[r] \in {Away, [request[r] EXCEPT !.at = "running"]}
        /\ request[r].at = "admission" /\ lock = None
        /\ request'[r].at = "running" => request'[r].ws \notin cancelled
        /\ UNCHANGED <<role, box, schemas, dirs, edits, slot, lock, cancelled, change, socket,
                       stale, stray, left>>
    BY <1>0 DEF Admit, Shape, Away, stored
  <1>2. request'[r].ws \in {0, request[r].ws}
    BY <1>0, <1>1 DEF Away, Shape
  <1>3. \A w : Ref(w)' => w = 0 \/ Ref(w)
    BY <1>1, <1>2 DEF Ref
  <1>Shape. Shape'
    BY <1>0, <1>1, <1>2 DEF Shape, Away
  <1>Step. StepInv'
    BY <1>0, <1>1, <1>2 DEF StepInv, At, Installs
  <1>Lock. LockInv'
    BY <1>0, <1>1, <1>2 DEF LockInv, Holding, Away
  <1>Number. NumberInv'
    <2>1. \A b \in Admins : Follows(b)
      BY <1>1 DEF Follows, At
    <2>2. \A w \in Nat : Published(w)' => Published(w) \/ w = 0
      BY <1>1, <1>3 DEF Published
    <2> QED
      BY <1>0, <1>1, <2>1, <2>2, NumbersKept
  <1>Box. BoxInv'
    BY <1>0, <1>1, <1>2 DEF BoxInv, Retiring, Installs
  <1>Slot. SlotInv'
    BY <1>0, <1>1, <1>2 DEF SlotInv, At
  <1>Open. OpenInv'
    <2>1. \A w : Closing(w)' = Closing(w) /\ Abandoned(w)' = Abandoned(w)
      BY <1>1 DEF Closing, Abandoned, At
    <2>2. request'[r].at # "away" => request'[r].ws # 0 /\ request'[r].ws = request[r].ws
      BY <1>0, <1>1 DEF OpenInv, Shape, Away
    <2> QED
      BY <1>0, <1>1, <1>3, <2>1, <2>2 DEF OpenInv, Away
  <1>Edits. EditsOfThisGeneration'
    BY <1>0, <1>1, <1>2 DEF EditsOfThisGeneration
  <1>Lib. LibInv'
    BY <1>0, <1>1, <1>2 DEF LibInv, At, Before
  <1>Whole. WholeInv'
    BY <1>0, <1>1, <1>2 DEF WholeInv, PublishedIsWhole, Copied, Before
  <1>Left. LeftInv'
    BY <1>0, <1>1, <1>2 DEF LeftInv, Faulty, Copied, At, Retiring
  <1> QED
    BY <1>Shape, <1>Step, <1>Lock, <1>Number, <1>Box, <1>Slot, <1>Open, <1>Edits, <1>Lib,
       <1>Whole, <1>Left DEF IInv

LEMMA RespondStep ==
  ASSUME IInv, NEW r \in Requests, Respond(r)
  PROVE  IInv'
  <1>0. /\ Shape /\ StepInv /\ LockInv /\ NumberInv /\ BoxInv /\ SlotInv /\ OpenInv
        /\ EditsOfThisGeneration /\ LibInv /\ WholeInv /\ LeftInv
    BY DEF IInv
  <1>1. /\ request' \in [Requests -> [at : {"away", "admission", "running"}, ws : Nat]]
        /\ \A t \in Requests : t # r => request'[t] = request[t]
        /\ request'[r] = Away
        /\ UNCHANGED <<role, box, schemas, dirs, edits, slot, lock, cancelled, change, socket,
                       stale, stray, left>>
    BY <1>0 DEF Respond, Shape, Away, stored
  <1>2. request'[r].ws \in {0, request[r].ws}
    BY <1>0, <1>1 DEF Away, Shape
  <1>3. \A w : Ref(w)' => w = 0 \/ Ref(w)
    BY <1>1, <1>2 DEF Ref
  <1>Shape. Shape'
    BY <1>0, <1>1, <1>2 DEF Shape, Away
  <1>Step. StepInv'
    BY <1>0, <1>1, <1>2 DEF StepInv, At, Installs
  <1>Lock. LockInv'
    BY <1>0, <1>1, <1>2 DEF LockInv, Holding, Away
  <1>Number. NumberInv'
    <2>1. \A b \in Admins : Follows(b)
      BY <1>1 DEF Follows, At
    <2>2. \A w \in Nat : Published(w)' => Published(w) \/ w = 0
      BY <1>1, <1>3 DEF Published
    <2> QED
      BY <1>0, <1>1, <2>1, <2>2, NumbersKept
  <1>Box. BoxInv'
    BY <1>0, <1>1, <1>2 DEF BoxInv, Retiring, Installs
  <1>Slot. SlotInv'
    BY <1>0, <1>1, <1>2 DEF SlotInv, At
  <1>Open. OpenInv'
    <2>1. \A w : Closing(w)' = Closing(w) /\ Abandoned(w)' = Abandoned(w)
      BY <1>1 DEF Closing, Abandoned, At
    <2>2. request'[r].at # "away" => request'[r].ws # 0 /\ request'[r].ws = request[r].ws
      BY <1>0, <1>1 DEF OpenInv, Shape, Away
    <2> QED
      BY <1>0, <1>1, <1>3, <2>1, <2>2 DEF OpenInv, Away
  <1>Edits. EditsOfThisGeneration'
    BY <1>0, <1>1, <1>2 DEF EditsOfThisGeneration
  <1>Lib. LibInv'
    BY <1>0, <1>1, <1>2 DEF LibInv, At, Before
  <1>Whole. WholeInv'
    BY <1>0, <1>1, <1>2 DEF WholeInv, PublishedIsWhole, Copied, Before
  <1>Left. LeftInv'
    BY <1>0, <1>1, <1>2 DEF LeftInv, Faulty, Copied, At, Retiring
  <1> QED
    BY <1>Shape, <1>Step, <1>Lock, <1>Number, <1>Box, <1>Slot, <1>Open, <1>Edits, <1>Lib,
       <1>Whole, <1>Left DEF IInv

LEMMA CommandStep ==
  ASSUME IInv, NEW s \in Sockets, Command(s)
  PROVE  IInv'
  <1>0. /\ Shape /\ StepInv /\ LockInv /\ NumberInv /\ BoxInv /\ SlotInv /\ OpenInv
        /\ EditsOfThisGeneration /\ LibInv /\ WholeInv /\ LeftInv
    BY DEF IInv
  <1>1. /\ socket' \in [Sockets -> [at : {"away", "open", "command"}, ws : Nat]]
        /\ \A t \in Sockets : t # s => socket'[t] = socket[t]
        /\ socket'[s] = [socket[s] EXCEPT !.at = "command"] /\ socket[s].at = "open"
        /\ socket[s].ws \notin cancelled
        /\ UNCHANGED <<role, box, schemas, dirs, edits, slot, lock, cancelled, change, request,
                       stale, stray, left>>
    BY <1>0 DEF Command, Shape, Away, stored
  <1>2. socket'[s].ws \in {0, socket[s].ws}
    BY <1>0, <1>1 DEF Away, Shape
  <1>3. \A w : Ref(w)' => w = 0 \/ Ref(w)
    BY <1>1, <1>2 DEF Ref
  <1>Shape. Shape'
    BY <1>0, <1>1, <1>2 DEF Shape, Away
  <1>Step. StepInv'
    BY <1>0, <1>1, <1>2 DEF StepInv, At, Installs
  <1>Lock. LockInv'
    BY <1>0, <1>1, <1>2 DEF LockInv, Holding, Away
  <1>Number. NumberInv'
    <2>1. \A b \in Admins : Follows(b)
      BY <1>1 DEF Follows, At
    <2>2. \A w \in Nat : Published(w)' => Published(w) \/ w = 0
      BY <1>1, <1>3 DEF Published
    <2> QED
      BY <1>0, <1>1, <2>1, <2>2, NumbersKept
  <1>Box. BoxInv'
    BY <1>0, <1>1, <1>2 DEF BoxInv, Retiring, Installs
  <1>Slot. SlotInv'
    BY <1>0, <1>1, <1>2 DEF SlotInv, At
  <1>Open. OpenInv'
    <2>1. \A w : Closing(w)' = Closing(w) /\ Abandoned(w)' = Abandoned(w)
      BY <1>1 DEF Closing, Abandoned, At
    <2>2. socket'[s].at # "away" => socket'[s].ws # 0 /\ socket'[s].ws = socket[s].ws
      BY <1>0, <1>1 DEF OpenInv, Shape, Away
    <2> QED
      BY <1>0, <1>1, <1>3, <2>1, <2>2 DEF OpenInv, Away
  <1>Edits. EditsOfThisGeneration'
    BY <1>0, <1>1, <1>2 DEF EditsOfThisGeneration
  <1>Lib. LibInv'
    BY <1>0, <1>1, <1>2 DEF LibInv, At, Before
  <1>Whole. WholeInv'
    BY <1>0, <1>1, <1>2 DEF WholeInv, PublishedIsWhole, Copied, Before
  <1>Left. LeftInv'
    BY <1>0, <1>1, <1>2 DEF LeftInv, Faulty, Copied, At, Retiring
  <1> QED
    BY <1>Shape, <1>Step, <1>Lock, <1>Number, <1>Box, <1>Slot, <1>Open, <1>Edits, <1>Lib,
       <1>Whole, <1>Left DEF IInv

LEMMA AnswerStep ==
  ASSUME IInv, NEW s \in Sockets, Answer(s)
  PROVE  IInv'
  <1>0. /\ Shape /\ StepInv /\ LockInv /\ NumberInv /\ BoxInv /\ SlotInv /\ OpenInv
        /\ EditsOfThisGeneration /\ LibInv /\ WholeInv /\ LeftInv
    BY DEF IInv
  <1>1. /\ socket' \in [Sockets -> [at : {"away", "open", "command"}, ws : Nat]]
        /\ \A t \in Sockets : t # s => socket'[t] = socket[t]
        /\ socket'[s] = [socket[s] EXCEPT !.at = "open"] /\ socket[s].at = "command"
        /\ UNCHANGED <<role, box, schemas, dirs, edits, slot, lock, cancelled, change, request,
                       stale, stray, left>>
    BY <1>0 DEF Answer, Shape, Away, stored
  <1>2. socket'[s].ws \in {0, socket[s].ws}
    BY <1>0, <1>1 DEF Away, Shape
  <1>3. \A w : Ref(w)' => w = 0 \/ Ref(w)
    BY <1>1, <1>2 DEF Ref
  <1>Shape. Shape'
    BY <1>0, <1>1, <1>2 DEF Shape, Away
  <1>Step. StepInv'
    BY <1>0, <1>1, <1>2 DEF StepInv, At, Installs
  <1>Lock. LockInv'
    BY <1>0, <1>1, <1>2 DEF LockInv, Holding, Away
  <1>Number. NumberInv'
    <2>1. \A b \in Admins : Follows(b)
      BY <1>1 DEF Follows, At
    <2>2. \A w \in Nat : Published(w)' => Published(w) \/ w = 0
      BY <1>1, <1>3 DEF Published
    <2> QED
      BY <1>0, <1>1, <2>1, <2>2, NumbersKept
  <1>Box. BoxInv'
    BY <1>0, <1>1, <1>2 DEF BoxInv, Retiring, Installs
  <1>Slot. SlotInv'
    BY <1>0, <1>1, <1>2 DEF SlotInv, At
  <1>Open. OpenInv'
    <2>1. \A w : Closing(w)' = Closing(w) /\ Abandoned(w)' = Abandoned(w)
      BY <1>1 DEF Closing, Abandoned, At
    <2>2. socket'[s].at # "away" => socket'[s].ws # 0 /\ socket'[s].ws = socket[s].ws
      BY <1>0, <1>1 DEF OpenInv, Shape, Away
    <2> QED
      BY <1>0, <1>1, <1>3, <2>1, <2>2 DEF OpenInv, Away
  <1>Edits. EditsOfThisGeneration'
    BY <1>0, <1>1, <1>2 DEF EditsOfThisGeneration
  <1>Lib. LibInv'
    BY <1>0, <1>1, <1>2 DEF LibInv, At, Before
  <1>Whole. WholeInv'
    BY <1>0, <1>1, <1>2 DEF WholeInv, PublishedIsWhole, Copied, Before
  <1>Left. LeftInv'
    BY <1>0, <1>1, <1>2 DEF LeftInv, Faulty, Copied, At, Retiring
  <1> QED
    BY <1>Shape, <1>Step, <1>Lock, <1>Number, <1>Box, <1>Slot, <1>Open, <1>Edits, <1>Lib,
       <1>Whole, <1>Left DEF IInv

LEMMA CloseStep ==
  ASSUME IInv, NEW s \in Sockets, Close(s)
  PROVE  IInv'
  <1>0. /\ Shape /\ StepInv /\ LockInv /\ NumberInv /\ BoxInv /\ SlotInv /\ OpenInv
        /\ EditsOfThisGeneration /\ LibInv /\ WholeInv /\ LeftInv
    BY DEF IInv
  <1>1. /\ socket' \in [Sockets -> [at : {"away", "open", "command"}, ws : Nat]]
        /\ \A t \in Sockets : t # s => socket'[t] = socket[t]
        /\ socket'[s] = Away
        /\ UNCHANGED <<role, box, schemas, dirs, edits, slot, lock, cancelled, change, request,
                       stale, stray, left>>
    BY <1>0 DEF Close, Shape, Away, stored
  <1>2. socket'[s].ws \in {0, socket[s].ws}
    BY <1>0, <1>1 DEF Away, Shape
  <1>3. \A w : Ref(w)' => w = 0 \/ Ref(w)
    BY <1>1, <1>2 DEF Ref
  <1>Shape. Shape'
    BY <1>0, <1>1, <1>2 DEF Shape, Away
  <1>Step. StepInv'
    BY <1>0, <1>1, <1>2 DEF StepInv, At, Installs
  <1>Lock. LockInv'
    BY <1>0, <1>1, <1>2 DEF LockInv, Holding, Away
  <1>Number. NumberInv'
    <2>1. \A b \in Admins : Follows(b)
      BY <1>1 DEF Follows, At
    <2>2. \A w \in Nat : Published(w)' => Published(w) \/ w = 0
      BY <1>1, <1>3 DEF Published
    <2> QED
      BY <1>0, <1>1, <2>1, <2>2, NumbersKept
  <1>Box. BoxInv'
    BY <1>0, <1>1, <1>2 DEF BoxInv, Retiring, Installs
  <1>Slot. SlotInv'
    BY <1>0, <1>1, <1>2 DEF SlotInv, At
  <1>Open. OpenInv'
    <2>1. \A w : Closing(w)' = Closing(w) /\ Abandoned(w)' = Abandoned(w)
      BY <1>1 DEF Closing, Abandoned, At
    <2>2. socket'[s].at # "away" => socket'[s].ws # 0 /\ socket'[s].ws = socket[s].ws
      BY <1>0, <1>1 DEF OpenInv, Shape, Away
    <2> QED
      BY <1>0, <1>1, <1>3, <2>1, <2>2 DEF OpenInv, Away
  <1>Edits. EditsOfThisGeneration'
    BY <1>0, <1>1, <1>2 DEF EditsOfThisGeneration
  <1>Lib. LibInv'
    BY <1>0, <1>1, <1>2 DEF LibInv, At, Before
  <1>Whole. WholeInv'
    BY <1>0, <1>1, <1>2 DEF WholeInv, PublishedIsWhole, Copied, Before
  <1>Left. LeftInv'
    BY <1>0, <1>1, <1>2 DEF LeftInv, Faulty, Copied, At, Retiring
  <1> QED
    BY <1>Shape, <1>Step, <1>Lock, <1>Number, <1>Box, <1>Slot, <1>Open, <1>Edits, <1>Lib,
       <1>Whole, <1>Left DEF IInv

LEMMA EditPlaylistsStep ==
  ASSUME IInv, NEW r \in Requests, EditPlaylists(r)
  PROVE  IInv'
  <1>0. /\ Shape /\ StepInv /\ LockInv /\ NumberInv /\ BoxInv /\ SlotInv /\ OpenInv
        /\ EditsOfThisGeneration /\ LibInv /\ WholeInv /\ LeftInv
    BY DEF IInv
  <1>1. /\ request[r].at = "running" /\ edits' = request[r].ws
        /\ UNCHANGED <<role, box, schemas, dirs, slot, lock, cancelled, change, account, stale,
                       stray, left>>
    BY DEF EditPlaylists
  <1>2. lock = None /\ \A b \in Admins : change[b].at \notin Holding
    BY <1>0, <1>1, SandboxAssumption DEF LockInv
  <1>Shape. Shape'
    BY <1>0, <1>1 DEF Shape, account
  <1>Step. StepInv'
    BY <1>0, <1>1 DEF StepInv, At, Installs
  <1>Lock. LockInv'
    BY <1>0, <1>1 DEF LockInv, Holding, account
  <1>Number. NumberInv'
    <2>1. \A b \in Admins : Follows(b)
      BY <1>1 DEF Follows, At
    <2>2. \A w \in Nat : Published(w)' => Published(w)
      BY <1>1 DEF Published, Ref, account
    <2> QED
      BY <1>0, <1>1, <2>1, <2>2, NumbersKept
  <1>Box. BoxInv'
    BY <1>0, <1>1 DEF BoxInv, Retiring, Installs
  <1>Slot. SlotInv'
    BY <1>0, <1>1 DEF SlotInv, At
  <1>Open. OpenInv'
    BY <1>0, <1>1 DEF OpenInv, At, Closing, Abandoned, Ref, Retiring, account
  <1>Edits. EditsOfThisGeneration'
    <2>1. request[r].ws \in Nat \ (cancelled \cup {0})
      BY <1>0, <1>1 DEF OpenInv, Shape
    <2>2. request[r].ws = slot \/ stray
      BY <1>0, <1>1, <1>2, <2>1 DEF OpenInv, Ref, Closing, Abandoned, At, Holding
    <2>3. slot = 0 \/ box = NoBox \/ slot = box.gen
      BY <1>0, <1>2 DEF SlotInv, At, Holding
    <2> QED
      BY <1>1, <2>1, <2>2, <2>3 DEF EditsOfThisGeneration
  <1>Lib. LibInv'
    BY <1>0, <1>1 DEF LibInv, At, Before
  <1>Whole. WholeInv'
    BY <1>0, <1>1 DEF WholeInv, PublishedIsWhole, Copied, Before
  <1>Left. LeftInv'
    BY <1>0, <1>1 DEF LeftInv, Faulty, Copied, At, Retiring
  <1> QED
    BY <1>Shape, <1>Step, <1>Lock, <1>Number, <1>Box, <1>Slot, <1>Open, <1>Edits, <1>Lib,
       <1>Whole, <1>Left DEF IInv

-----------------------------------------------------------------------------
LEMMA InitHolds == Init => IInv
  <1> SUFFICES ASSUME Init PROVE IInv
    OBVIOUS
  <1>1. /\ \A a \in Admins : change[a] = Idle /\ change[a].at = "idle" /\ change[a].id = 0
             /\ change[a].lib = 0 /\ change[a].seen = 0 /\ change[a].old.gen = 0
             /\ change[a].old.lib = 0 /\ change[a].kind = "none"
        /\ box = NoBox /\ box.gen = 0 /\ box.lib = 0
        /\ left.changes \in Nat
    BY SandboxAssumption DEF Init, Idle, NoBox
  <1>2. Idle \in Changes
    BY DEF Idle, NoBox, Changes
  <1>3. Shape
    <2>1. left = [changes |-> MaxChanges, calls |-> MaxCalls, faults |-> MaxFaults]
      BY DEF Init
    <2>2. left \in [changes : Nat, calls : Nat, faults : Nat] /\ left.faults <= MaxFaults
      BY <2>1, SandboxAssumption
    <2> QED
      BY <1>2, <2>2 DEF Init, Shape, NoBox, Away
  <1>4. StepInv /\ LockInv
    BY <1>1, SandboxAssumption DEF StepInv, LockInv, Init, At, Holding, Away
  <1>5. NumberInv
    BY <1>1 DEF NumberInv, Init, At, Published, Ref, Pending, Before, Away
  <1>6. BoxInv /\ SlotInv
    BY <1>1 DEF BoxInv, SlotInv, Init, At, Retiring
  <1>7. OpenInv
    BY <1>1 DEF OpenInv, Ref, Init, Away
  <1>8. EditsOfThisGeneration /\ LibInv
    BY <1>1 DEF EditsOfThisGeneration, LibInv, Init, At, Before
  <1>9. WholeInv /\ LeftInv
    BY <1>1 DEF WholeInv, LeftInv, PublishedIsWhole, Copied, Init, Before
  <1> QED
    BY <1>3, <1>4, <1>5, <1>6, <1>7, <1>8, <1>9 DEF IInv

LEMMA NextKeeps == IInv /\ [Next]_vars => IInv'
  <1> SUFFICES ASSUME IInv, [Next]_vars PROVE IInv'
    OBVIOUS
  <1>1. ASSUME NEW a \in Admins,
               Configure(a) \/ Reset(a) \/ Promote(a) \/ Demote(a) \/ Delete(a)
        PROVE  IInv'
    <2>1. role \in {"demo", "admin", "gone"}
      BY DEF IInv, Shape
    <2>2. CASE Configure(a)
      BY <2>2, AskStep DEF Configure
    <2>3. CASE Reset(a)
      BY <2>3, AskStep DEF Reset
    <2>4. CASE Promote(a)
      BY <2>4, AskStep DEF Promote
    <2>5. CASE Delete(a)
      BY <2>1, <2>5, AskStep DEF Delete
    <2> QED
      BY <1>1, <2>2, <2>3, <2>4, <2>5, DemoteStep
  <1>2. ASSUME NEW a \in Admins, Continue(a)
        PROVE  IInv'
    BY <1>2, CopyAudioStep, LockStep, PublishStep, RefuseStep, RevokeStep, TakeStep,
       CloseWorkspaceStep, DropSchemaStep, RemoveAudioStep, EraseStep, CleanUpStep DEF Continue
  <1>3. ASSUME NEW r \in Requests,
               Dispatch(r) \/ Admit(r) \/ EditPlaylists(r) \/ Respond(r)
        PROVE  IInv'
    BY <1>3, DispatchStep, AdmitStep, EditPlaylistsStep, RespondStep
  <1>4. ASSUME NEW s \in Sockets, Connect(s) \/ Command(s) \/ Answer(s) \/ Close(s)
        PROVE  IInv'
    BY <1>4, ConnectStep, CommandStep, AnswerStep, CloseStep
  <1>5. CASE UNCHANGED vars
    <2> USE <1>5 DEF IInv, vars, stored, account
    <2>1. Shape' /\ StepInv' /\ LockInv' BY DEF Shape, StepInv, LockInv, At, Installs
    <2>2. NumberInv' BY DEF NumberInv, At, Published, Ref, Pending, Installs
    <2>3. BoxInv' /\ SlotInv' BY DEF BoxInv, SlotInv, At, Installs
    <2>4. OpenInv' BY DEF OpenInv, Ref, Closing, Abandoned, At
    <2>5. EditsOfThisGeneration' BY DEF EditsOfThisGeneration
    <2>6. LibInv' /\ WholeInv' BY DEF LibInv, WholeInv, PublishedIsWhole, Copied, At
    <2>7. LeftInv' BY DEF LeftInv, Faulty, Copied, At
    <2> QED BY <2>1, <2>2, <2>3, <2>4, <2>5, <2>6, <2>7
  <1> QED
    BY <1>1, <1>2, <1>3, <1>4, <1>5, FailStep DEF Next

LEMMA Invariant == Spec => []IInv
  BY InitHolds, NextKeeps, PTL DEF Spec

(* Whatever is promoted, reset or deleted around it, an admitted request   *)
(* finds its schema and an open pool, and edits no later generation: the   *)
(* slot, the gate and the order of cancellation and DROP SCHEMA in demo.rs.*)
THEOREM WorkStaysInside == Spec => []RequestsStayInside
  <1>1. IInv => RequestsStayInside
    <2> SUFFICES ASSUME IInv PROVE AdmittedIsServed /\ EditsOfThisGeneration
      BY DEF RequestsStayInside
    <2>1. Shape /\ OpenInv /\ EditsOfThisGeneration
      BY DEF IInv
    <2>2. \A r \in Requests : request[r].at = "running" => request[r].ws \in schemas \ cancelled
      BY <2>1 DEF Shape, OpenInv, Ref
    <2>3. \A s \in Sockets : socket[s].at = "command" => socket[s].ws \in schemas \ cancelled
      BY <2>1 DEF Shape, OpenInv, Ref
    <2> QED
      BY <2>1, <2>2, <2>3 DEF AdmittedIsServed
  <1> QED
    BY <1>1, Invariant, PTL

(* A published sandbox has its schema and its audio however changes fail   *)
(* and clean up, and without faults nothing of an earlier one stays: the   *)
(* compensations of configure_inner, install and retire.                   *)
THEOREM SandboxesStayWhole == Spec => []SandboxesAreWhole
  <1>1. IInv => SandboxesAreWhole
    <2> SUFFICES ASSUME IInv PROVE PublishedIsWhole /\ NothingLeftBehind
      BY DEF SandboxesAreWhole
    <2>1. Shape /\ BoxInv /\ WholeInv /\ LeftInv
      BY DEF IInv
    <2>2. PublishedIsWhole
      BY <2>1 DEF WholeInv
    <2>3. ASSUME ~ Faulty, role # "gone", \A a \in Admins : At(a, "idle")
          PROVE  schemas = {box.gen} \ {0} /\ dirs \subseteq {box.lib}
      <3>1. schemas \subseteq {box.gen} \ {0} /\ dirs \subseteq {box.lib}
        BY <2>1, <2>3 DEF LeftInv, Shape, At, Retiring, Copied
      <3>2. box.gen # 0 => box.gen \in schemas
        BY <2>2 DEF PublishedIsWhole, NoBox
      <3> QED
        BY <3>1, <3>2
    <2> QED
      BY <2>2, <2>3 DEF NothingLeftBehind
  <1> QED
    BY <1>1, Invariant, PTL

-----------------------------------------------------------------------------
(***************************************************************************)
(* The song library.  A scan is a loop over the listing it began with, and *)
(* anything may disturb it between two of its steps.  While nobody does    *)
(* (Calm), what it has still to do is exactly where the rows and the disk  *)
(* may differ (ListInv, WorkInv, FlagInv); when it ends, nothing is left   *)
(* (IdleWork), and while only scans follow, nothing comes back.  A stamp   *)
(* stands for one content (DiskInv), and a row of library_files for the    *)
(* song it names (CopyInv, RowInv, KnownInv).                              *)
(***************************************************************************)

(* Where a scan stands: it works on one file in OnFile.  What it reads from *)
(* the listing, its copy of the table and what it works on are of the      *)
(* right kind.                                                             *)
OnFile == {"hashed", "refresh", "import", "insert", "track"}
Running(s) == scan[s].at # "idle"
Reading(s) == scan[s].at \in {"files"} \cup OnFile

FileRow == [hash : Audio, stamp : 0..writes]
SongRow == [path : Path, hash : Audio, missing : BOOLEAN]

ScanShape(s) ==
  /\ scan[s].at \in {"idle", "listed", "files"} \cup OnFile
  /\ Running(s) =>
      /\ DOMAIN scan[s].seen \subseteq Path
      /\ \A p \in DOMAIN scan[s].seen : scan[s].seen[p].stamp \in 0..writes
  /\ Reading(s) =>
      /\ DOMAIN scan[s].known \subseteq Path
      /\ \A p \in DOMAIN scan[s].known :
          scan[s].known[p] \in [song : 1..born \cup {NoSong}, hash : Audio, stamp : 0..writes]
      /\ scan[s].todo \subseteq DOMAIN scan[s].seen
      /\ scan[s].gone \subseteq DOMAIN scan[s].known \ DOMAIN scan[s].seen
  /\ scan[s].at \in OnFile => scan[s].path \in scan[s].todo /\ scan[s].hash \in Audio
  /\ scan[s].at = "refresh" => scan[s].path \in DOMAIN scan[s].known
  /\ scan[s].at = "track" => scan[s].song \in 1..born

ScansShape == DOMAIN scan = Scanner /\ \A s \in Scanner : ScanShape(s)

RequestShape(c) ==
  /\ client[c].at \in {"store", "import", "insert"} =>
      client[c].path \in Path /\ client[c].hash \in Audio
  /\ client[c].at \in {"move", "moved"} => client[c].path \in Path /\ client[c].to \in Path

ClientShape == DOMAIN client = Client /\ \A c \in Client : RequestShape(c)

CountShape == writes \in Nat /\ born \in Nat /\ settled \in 0..2 /\ overlap \in BOOLEAN

(* Nothing but scans happens, and one of them has been left alone, now or  *)
(* before: an undisturbed scan is alone, and no file is fresh.             *)
Calm == settled > 0 \/ \E s \in quiet : Running(s)

QuietInv ==
  /\ quiet \subseteq Scanner
  /\ \A s \in quiet : Running(s) => \A t \in Scanner \ {s} : ~ Running(t)
  /\ Calm => fresh = {} /\ \A c \in Client : client[c].at = "idle"

(* What a scan has listed is on the disk as long as nobody interferes.     *)
ListInv(s) ==
  (Calm \/ ~ overlap) /\ Running(s) =>
    /\ DOMAIN scan[s].seen = DOMAIN disk
    /\ \A p \in DOMAIN disk : scan[s].seen[p].stamp = disk[p].stamp
    /\ Calm => \A p \in DOMAIN disk : scan[s].seen[p].stable
    /\ scan[s].at \in OnFile => scan[s].hash = disk[scan[s].path].hash

Agree(s, p) ==
  /\ p \in DOMAIN scan[s].known <=> p \in DOMAIN tracked
  /\ p \in DOMAIN tracked => scan[s].known[p] = tracked[p]

(* What an undisturbed scan has done so far: the files it is through with  *)
(* are remembered as they are, the rest of the table is as it was read.    *)
WorkInv(s) ==
  s \in quiet /\ Reading(s) =>
    /\ \A p \in scan[s].todo : Agree(s, p)
    /\ \A p \in DOMAIN disk \ scan[s].todo :
        p \in DOMAIN tracked /\ tracked[p].stamp = disk[p].stamp
    /\ \A p \in DOMAIN tracked \ DOMAIN disk :
        Agree(s, p) /\ (p \in scan[s].gone \/ tracked[p].song # NoSong)
    /\ scan[s].todo # {} => scan[s].gone = DOMAIN scan[s].known \ DOMAIN scan[s].seen

(* ... and the missing flags of the songs it is through with are right.    *)
FlagInv(s) ==
  s \in quiet /\ Reading(s) =>
    \A i \in DOMAIN songs : Own(i) =>
      /\ songs[i].path \notin DOMAIN disk =>
          songs[i].path \in scan[s].gone \/ (songs[i].missing /\ scan[s].todo = {})
      /\ settled > 0 /\ songs[i].missing => songs[i].path \notin DOMAIN disk \ scan[s].todo

(* After an undisturbed scan every file is found untouched.                *)
IdleWork(s) ==
  settled > 0 =>
    /\ scan[s].at \in {"idle", "listed", "files"}
    /\ Reading(s) => \A p \in DOMAIN disk : Agree(s, p)

Flagged ==
  /\ settled > 0 /\ ScansAtRest =>
      \A i \in DOMAIN songs : Own(i) /\ songs[i].path \notin DOMAIN disk => songs[i].missing
  /\ settled > 1 =>
      \A i \in DOMAIN songs : Own(i) /\ songs[i].missing => songs[i].path \notin DOMAIN disk

(* A stamp stands for one content; a row speaks of the file whose stamp it *)
(* has; and it describes the song whose own path it has.                   *)
SameFile(r) == \A p \in DOMAIN disk : disk[p].stamp = r.stamp => disk[p].hash = r.hash

DiskInv == \A p \in DOMAIN disk : SameFile(disk[p])

CopyInv ==
  \A p \in DOMAIN tracked : tracked[p].song \in DOMAIN songs =>
    songs[tracked[p].song].path = p \/ tracked[p].song \in copied

RowInv ==
  ~ overlap =>
    /\ \A p \in DOMAIN tracked : SameFile(tracked[p])
    /\ \A i \in DOMAIN songs : Own(i) /\ i \notin copied =>
        tracked[songs[i].path].hash = songs[i].hash

(* The same of the rows a scan has read, unless another scan has described *)
(* the song anew in between, and of the song it is importing.              *)
KnownInv(s) ==
  ~ overlap =>
    /\ Reading(s) => \A p \in DOMAIN scan[s].known :
        /\ SameFile(scan[s].known[p])
        /\ \A i \in DOMAIN songs :
            p \in scan[s].todo /\ scan[s].known[p].song = i /\ songs[i].path = p /\ i \notin copied
            => scan[s].known[p].hash = songs[i].hash \/ Described(i)
    /\ scan[s].at = "track" => \A i \in DOMAIN songs :
        scan[s].song = i /\ i \notin copied /\ songs[i].path = scan[s].path => Described(i)

ScansInv ==
  \A s \in Scanner : ListInv(s) /\ WorkInv(s) /\ FlagInv(s) /\ IdleWork(s) /\ KnownInv(s)

LibraryInv ==
  /\ TypeOK /\ CountShape /\ ScansShape /\ ClientShape
  /\ QuietInv /\ ScansInv /\ NothingEscapesTheScan /\ Flagged
  /\ DiskInv /\ CopyInv /\ RowInv
-----------------------------------------------------------------------------
(* What the helpers of the model do. *)
LEMMA ScanEffect ==
  ASSUME ScansShape, NEW s \in Scanner, NEW r, ScanGoesTo(s, r)
  PROVE  DOMAIN scan' = Scanner /\ scan'[s] = r /\ \A t \in Scanner \ {s} : scan'[t] = scan[t]
BY DEF ScansShape, ScanGoesTo

LEMMA ClientEffect ==
  ASSUME ClientShape, NEW c \in Client, NEW r, ClientGoesTo(c, r)
  PROVE  /\ DOMAIN client' = Client /\ client'[c] = r
         /\ \A d \in Client \ {c} : client'[d] = client[d]
BY DEF ClientShape, ClientGoesTo

LEMMA WithoutEffect ==
  ASSUME NEW f, NEW S
  PROVE  /\ DOMAIN Without(f, S) = DOMAIN f \ S
         /\ \A x \in DOMAIN f \ S : Without(f, S)[x] = f[x]
BY DEF Without, Restrict

LEMMA WithEffect ==
  ASSUME NEW f, NEW x, NEW v
  PROVE  /\ DOMAIN With(f, x, v) = DOMAIN f \cup {x}
         /\ With(f, x, v)[x] = v
         /\ \A y \in DOMAIN f \ {x} : With(f, x, v)[y] = f[y]
BY DEF With

(* The oldest song of a set is one of them. *)
LEMMA OldestEffect ==
  ASSUME NEW S, S \subseteq Nat, S # {}
  PROVE  Oldest(S) \in S
<1>1. PICK i \in S : \A j \in S : ~ (<<j, i>> \in OpToRel(<, Nat))
  BY NatLessThanWellFounded, WFMin
<1>2. ASSUME NEW j \in S PROVE i <= j
  <2>1. i \in Nat /\ j \in Nat
    OBVIOUS
  <2>2. j < i => <<j, i>> \in OpToRel(<, Nat)
    BY <2>1 DEF OpToRel
  <2>3. ~ (j < i)
    BY <1>1, <2>2
  <2> QED
    BY <2>1, <2>3
<1> QED
  BY <1>2 DEF Oldest

(* The rows of songs and of the scanner. *)
LEMMA RowFields ==
  ASSUME TypeOK
  PROVE  /\ \A i \in DOMAIN songs :
              songs[i].path \in Path /\ songs[i].hash \in Audio /\ songs[i].missing \in BOOLEAN
         /\ \A p \in DOMAIN tracked :
              /\ tracked[p].song \in DOMAIN songs \cup {NoSong}
              /\ tracked[p].hash \in Audio /\ tracked[p].stamp \in 0..writes
         /\ \A p \in DOMAIN disk : disk[p].hash \in Audio /\ disk[p].stamp \in 0..writes
BY DEF TypeOK

LEMMA KnownFields ==
  ASSUME NEW s \in Scanner, ScanShape(s), Reading(s)
  PROVE  \A p \in DOMAIN scan[s].known :
           /\ scan[s].known[p].song \in 1..born \cup {NoSong}
           /\ scan[s].known[p].hash \in Audio /\ scan[s].known[p].stamp \in 0..writes
BY DEF ScanShape

LEMMA PresentEffect ==
  ASSUME TypeOK, NEW i \in DOMAIN songs
  PROVE  /\ DOMAIN Present(i) = DOMAIN songs
         /\ \A j \in DOMAIN songs \ {i} : Present(i)[j] = songs[j]
         /\ Present(i)[i] \in SongRow
         /\ Present(i)[i].path = songs[i].path /\ Present(i)[i].hash = songs[i].hash
         /\ ~ Present(i)[i].missing
<1>1. songs[i] \in SongRow
  BY DEF TypeOK, SongRow
<1>2. [songs[i] EXCEPT !.missing = FALSE] \in SongRow
  BY <1>1 DEF SongRow
<1>3. Present(i)[i] = [songs[i] EXCEPT !.missing = FALSE]
  BY DEF Present
<1> QED
  BY <1>1, <1>2, <1>3 DEF Present, SongRow

Anew(i, h) == [songs EXCEPT ![i].hash = h, ![i].missing = FALSE]

LEMMA DescribeEffect ==
  ASSUME TypeOK, NEW i \in DOMAIN songs, NEW h \in Audio, NEW f, f = Anew(i, h)
  PROVE  /\ DOMAIN f = DOMAIN songs
         /\ \A j \in DOMAIN songs \ {i} : f[j] = songs[j]
         /\ f[i] \in SongRow
         /\ f[i].path = songs[i].path /\ f[i].hash = h /\ ~ f[i].missing
<1>1. songs[i] \in SongRow
  BY DEF TypeOK, SongRow
<1>2. f[i] = [[songs[i] EXCEPT !.hash = h] EXCEPT !.missing = FALSE]
  BY DEF Anew
<1>3. [songs[i] EXCEPT !.hash = h] \in SongRow
  BY <1>1 DEF SongRow
<1>4. [[songs[i] EXCEPT !.hash = h] EXCEPT !.missing = FALSE] \in SongRow
  BY <1>3 DEF SongRow
<1>5. f[i] \in SongRow
  BY <1>2, <1>4
<1>6. f[i].path = songs[i].path /\ f[i].hash = h /\ ~ f[i].missing
  BY <1>1, <1>2 DEF SongRow
<1> QED
  BY <1>5, <1>6 DEF Anew

Found(i, p) == [songs EXCEPT ![i].path = p, ![i].missing = FALSE]

LEMMA RelocateEffect ==
  ASSUME TypeOK, NEW i \in DOMAIN songs, NEW p \in Path, NEW f, f = Found(i, p)
  PROVE  /\ DOMAIN f = DOMAIN songs
         /\ \A j \in DOMAIN songs \ {i} : f[j] = songs[j]
         /\ f[i] \in SongRow
         /\ f[i].path = p /\ f[i].hash = songs[i].hash /\ ~ f[i].missing
<1>1. songs[i] \in SongRow
  BY DEF TypeOK, SongRow
<1>2. f[i] = [[songs[i] EXCEPT !.path = p] EXCEPT !.missing = FALSE]
  BY DEF Found
<1>3. [songs[i] EXCEPT !.path = p] \in SongRow
  BY <1>1 DEF SongRow
<1>4. [[songs[i] EXCEPT !.path = p] EXCEPT !.missing = FALSE] \in SongRow
  BY <1>3 DEF SongRow
<1>5. f[i] \in SongRow
  BY <1>2, <1>4
<1>6. f[i].path = p /\ f[i].hash = songs[i].hash /\ ~ f[i].missing
  BY <1>1, <1>2 DEF SongRow
<1> QED
  BY <1>5, <1>6 DEF Found

LEMMA MarkEffect ==
  ASSUME TypeOK, NEW i \in DOMAIN songs, NEW f, f = [songs EXCEPT ![i].missing = TRUE]
  PROVE  /\ DOMAIN f = DOMAIN songs
         /\ \A j \in DOMAIN songs \ {i} : f[j] = songs[j]
         /\ f[i] \in SongRow
         /\ f[i].path = songs[i].path /\ f[i].hash = songs[i].hash /\ f[i].missing
<1>1. songs[i] \in SongRow
  BY DEF TypeOK, SongRow
<1>2. f[i] = [songs[i] EXCEPT !.missing = TRUE]
  OBVIOUS
<1>3. [songs[i] EXCEPT !.missing = TRUE] \in SongRow
  BY <1>1 DEF SongRow
<1> QED
  BY <1>1, <1>2, <1>3 DEF SongRow

LEMMA ForgetEffect ==
  ASSUME TypeOK, NEW ids
  PROVE  /\ DOMAIN Forget(tracked, ids) = DOMAIN tracked
         /\ \A p \in DOMAIN tracked :
              LET row == Forget(tracked, ids)[p] IN
              /\ row \in [song : (DOMAIN songs \ ids) \cup {NoSong}, hash : Audio,
                          stamp : 0..writes]
              /\ row.song \in {tracked[p].song, NoSong}
              /\ row.hash = tracked[p].hash /\ row.stamp = tracked[p].stamp
<1>1. ASSUME NEW p \in DOMAIN tracked
      PROVE  LET row == Forget(tracked, ids)[p] IN
              /\ row \in [song : (DOMAIN songs \ ids) \cup {NoSong}, hash : Audio,
                          stamp : 0..writes]
              /\ row.song \in {tracked[p].song, NoSong}
              /\ row.hash = tracked[p].hash /\ row.stamp = tracked[p].stamp
  <2>1. tracked[p] \in [song : DOMAIN songs \cup {NoSong}, hash : Audio, stamp : 0..writes]
    BY DEF TypeOK
  <2>2. [tracked[p] EXCEPT !.song = NoSong]
          \in [song : {NoSong}, hash : Audio, stamp : 0..writes]
    BY <2>1
  <2> QED
    BY <2>1, <2>2 DEF Forget
<1> QED
  BY <1>1 DEF Forget
-----------------------------------------------------------------------------
(* What no step of a scan touches but the rows. *)
Around == <<disk, fresh, client, writes, quiet, settled, overlap>>
Rows == <<songs, tracked, born, copied>>

(* A scan moves on over the rows as they are: only what is said of this    *)
(* scan can be lost.                                                       *)
LEMMA ScanMoves ==
  ASSUME LibraryInv, NEW s \in Scanner, NEW r, ScanGoesTo(s, r), Running(s),
         UNCHANGED Around, UNCHANGED Rows,
         r.at # "idle", r.seen = scan[s].seen,
         ScanShape(s)', WorkInv(s)', FlagInv(s)', IdleWork(s)', KnownInv(s)',
         r.at \in OnFile /\ (Calm \/ ~ overlap) => r.hash = disk[r.path].hash
  PROVE  LibraryInv'
<1> USE DEF Around, Rows
<1>0. /\ TypeOK /\ CountShape /\ ScansShape /\ ClientShape
      /\ QuietInv /\ ScansInv /\ NothingEscapesTheScan /\ Flagged
      /\ DiskInv /\ CopyInv /\ RowInv
  BY DEF LibraryInv
<1>1. DOMAIN scan' = Scanner /\ scan'[s] = r /\ \A t \in Scanner \ {s} : scan'[t] = scan[t]
  BY <1>0, ScanEffect
<1>2. \A t \in Scanner : Running(t)' = Running(t)
  BY <1>1 DEF Running
<1>3. Calm' = Calm
  BY <1>0, <1>2 DEF Calm, QuietInv
<1>4. TypeOK' /\ CountShape' /\ ClientShape'
  BY <1>0 DEF TypeOK, CountShape, ClientShape, RequestShape
<1>5. ScansShape'
  <2>1. ASSUME NEW t \in Scanner \ {s} PROVE ScanShape(t)'
    <3>1. ScanShape(t)
      BY <1>0 DEF ScansShape
    <3> QED
      BY <1>1, <3>1 DEF ScanShape, Running, Reading
  <2> QED
    BY <1>1, <2>1 DEF ScansShape
<1>6. QuietInv'
  BY <1>0, <1>2, <1>3 DEF QuietInv
<1>7. ScansInv'
  <2>1. ASSUME NEW t \in Scanner \ {s}
        PROVE  (ListInv(t) /\ WorkInv(t) /\ FlagInv(t) /\ IdleWork(t) /\ KnownInv(t))'
    <3>1. ListInv(t) /\ WorkInv(t) /\ FlagInv(t) /\ IdleWork(t) /\ KnownInv(t)
      BY <1>0 DEF ScansInv
    <3>2. scan'[t] = scan[t]
      BY <1>1
    <3>3. ListInv(t)'
      BY <1>3, <3>1, <3>2 DEF ListInv, Running
    <3>4. WorkInv(t)' /\ FlagInv(t)' /\ IdleWork(t)'
      BY <3>1, <3>2 DEF WorkInv, FlagInv, IdleWork, Reading, Agree, Own
    <3>5. KnownInv(t)'
      BY <3>1, <3>2 DEF KnownInv, Reading, SameFile, Described
    <3> QED
      BY <3>3, <3>4, <3>5
  <2>2. ListInv(s)'
    <3>1. ListInv(s)
      BY <1>0 DEF ScansInv
    <3> QED
      BY <1>1, <1>3, <3>1 DEF ListInv, Running
  <2> QED
    BY <2>1, <2>2 DEF ScansInv
<1>8. NothingEscapesTheScan' /\ Flagged'
  <2>1. ~ ScansAtRest'
    BY <1>1 DEF ScansAtRest
  <2> QED
    BY <1>0, <2>1 DEF NothingEscapesTheScan, Flagged, Own
<1>9. DiskInv' /\ CopyInv' /\ RowInv'
  BY <1>0 DEF DiskInv, CopyInv, RowInv, SameFile, Own
<1> QED
  BY <1>4, <1>5, <1>6, <1>7, <1>8, <1>9 DEF LibraryInv

(* It turns to one of its files, or does the next thing with it. *)
LEMMA WorkingStep ==
  ASSUME LibraryInv, NEW s \in Scanner, Reading(s), settled = 0,
         NEW at \in OnFile, NEW p \in scan[s].todo, NEW h \in Audio, NEW song,
         ScanGoesTo(s, Working(s, at, p, h, song)),
         UNCHANGED Around, UNCHANGED Rows,
         at = "refresh" => p \in DOMAIN scan[s].known,
         at = "track" => song \in 1..born,
         Calm \/ ~ overlap => h = disk[p].hash,
         at = "track" /\ ~ overlap => \A i \in DOMAIN songs :
            song = i /\ i \notin copied /\ songs[i].path = p => Described(i)
  PROVE  LibraryInv'
<1> DEFINE r == Working(s, at, p, h, song)
<1>1. /\ r.at = at /\ r.seen = scan[s].seen /\ r.known = scan[s].known
      /\ r.todo = scan[s].todo /\ r.gone = scan[s].gone
      /\ r.path = p /\ r.hash = h /\ r.song = song
  BY DEF Working
<1>2. ScansShape /\ ScansInv /\ CountShape
  BY DEF LibraryInv
<1>3. ScanShape(s) /\ WorkInv(s) /\ FlagInv(s) /\ KnownInv(s)
  BY <1>2 DEF ScansShape, ScansInv
<1>4. at \notin {"idle", "listed", "files"}
  BY DEF OnFile
<1> HIDE DEF r
<1>5. scan'[s] = r /\ ScanGoesTo(s, r)
  BY <1>2, ScanEffect DEF r
<1>6. Running(s) /\ Running(s)' /\ Reading(s)'
  BY <1>1, <1>4, <1>5 DEF Running, Reading, OnFile
<1>7. ScanShape(s)'
  BY <1>1, <1>3, <1>5, <1>6 DEF ScanShape, Around, Rows, OnFile
<1>8. WorkInv(s)' /\ FlagInv(s)' /\ IdleWork(s)'
  <2>1. (\A q : Agree(s, q)' <=> Agree(s, q)) /\ (\A i : Own(i)' <=> Own(i))
    BY <1>1, <1>5 DEF Agree, Own, Rows
  <2>2. WorkInv(s)'
    BY <1>1, <1>3, <1>5, <2>1 DEF WorkInv, Around, Rows
  <2>3. FlagInv(s)'
    BY <1>1, <1>3, <1>5, <2>1 DEF FlagInv, Around, Rows
  <2> QED
    BY <2>2, <2>3 DEF IdleWork, Around
<1>9. KnownInv(s)'
  <2>1. \A i \in DOMAIN songs : Described(i)' <=> Described(i)
    BY DEF Described, Around, Rows
  <2>2. \A x : SameFile(x)' <=> SameFile(x)
    BY DEF SameFile, Around
  <2> QED
    BY <1>1, <1>3, <1>5, <2>1 DEF KnownInv, SameFile, Around, Rows
<1> QED
  BY <1>1, <1>4, <1>5, <1>6, <1>7, <1>8, <1>9, ScanMoves
-----------------------------------------------------------------------------
(* A scan ends before it is through. *)
LEMMA EndStep ==
  ASSUME LibraryInv, NEW s \in Scanner, Running(s), settled = 0,
         ScanGoesTo(s, NoScan), UNCHANGED Around, UNCHANGED Rows
  PROVE  LibraryInv'
<1> USE DEF Around, Rows
<1>0. /\ TypeOK /\ CountShape /\ ScansShape /\ ClientShape
      /\ QuietInv /\ ScansInv /\ NothingEscapesTheScan /\ Flagged
      /\ DiskInv /\ CopyInv /\ RowInv
  BY DEF LibraryInv
<1>1. DOMAIN scan' = Scanner /\ scan'[s] = NoScan /\ \A t \in Scanner \ {s} : scan'[t] = scan[t]
  BY <1>0, ScanEffect
<1>2. scan'[s].at = "idle"
  BY <1>1 DEF NoScan
<1>3. \A t \in Scanner : Running(t)' => Running(t)
  BY <1>1, <1>2 DEF Running
<1>4. Calm' => Calm
  BY <1>0, <1>3 DEF Calm, QuietInv
<1>5. TypeOK' /\ CountShape' /\ ClientShape'
  BY <1>0 DEF TypeOK, CountShape, ClientShape, RequestShape
<1>6. ScansShape'
  <2>1. ASSUME NEW t \in Scanner \ {s} PROVE ScanShape(t)'
    <3>1. ScanShape(t)
      BY <1>0 DEF ScansShape
    <3> QED
      BY <1>1, <3>1 DEF ScanShape, Running, Reading
  <2>2. ScanShape(s)'
    BY <1>2 DEF ScanShape, Running, Reading, OnFile
  <2> QED
    BY <1>1, <2>1, <2>2 DEF ScansShape
<1>7. QuietInv'
  BY <1>0, <1>3, <1>4 DEF QuietInv
<1>8. ScansInv'
  <2>1. ASSUME NEW t \in Scanner \ {s}
        PROVE  (ListInv(t) /\ WorkInv(t) /\ FlagInv(t) /\ IdleWork(t) /\ KnownInv(t))'
    <3>1. ListInv(t) /\ WorkInv(t) /\ FlagInv(t) /\ IdleWork(t) /\ KnownInv(t)
      BY <1>0 DEF ScansInv
    <3>2. scan'[t] = scan[t]
      BY <1>1
    <3>3. ListInv(t)'
      BY <1>4, <3>1, <3>2 DEF ListInv, Running
    <3>4. WorkInv(t)' /\ FlagInv(t)' /\ IdleWork(t)'
      BY <3>1, <3>2 DEF WorkInv, FlagInv, IdleWork, Reading, Agree, Own
    <3>5. KnownInv(t)'
      BY <3>1, <3>2 DEF KnownInv, Reading, SameFile, Described
    <3> QED
      BY <3>3, <3>4, <3>5
  <2>2. (ListInv(s) /\ WorkInv(s) /\ FlagInv(s) /\ IdleWork(s) /\ KnownInv(s))'
    BY <1>2 DEF ListInv, WorkInv, FlagInv, IdleWork, KnownInv, Running, Reading, OnFile
  <2> QED
    BY <2>1, <2>2 DEF ScansInv
<1>9. NothingEscapesTheScan' /\ Flagged'
  BY DEF NothingEscapesTheScan, Flagged
<1>10. DiskInv' /\ CopyInv' /\ RowInv'
  BY <1>0 DEF DiskInv, CopyInv, RowInv, SameFile, Own
<1> QED
  BY <1>5, <1>6, <1>7, <1>8, <1>9, <1>10 DEF LibraryInv

LEMMA StartScanStep ==
  ASSUME LibraryInv, NEW s \in Scanner, StartScan(s)
  PROVE  LibraryInv'
<1>0. /\ TypeOK /\ CountShape /\ ScansShape /\ ClientShape
      /\ QuietInv /\ ScansInv /\ NothingEscapesTheScan /\ Flagged
      /\ DiskInv /\ CopyInv /\ RowInv
  BY DEF LibraryInv
<1> DEFINE seen == [p \in DOMAIN disk |->
                      [stamp |-> disk[p].stamp, stable |-> p \notin fresh]]
           r == [at |-> "listed", seen |-> seen]
<1>1. /\ \A t \in Scanner : t \in quiet' =>
            /\ t = s /\ fresh = {} /\ \A c \in Client : client[c].at = "idle"
            /\ \A u \in Scanner : ~ Running(u)
      /\ quiet' \subseteq Scanner
  BY DEF StartScan, Running
<1>2. /\ scan[s].at = "idle" /\ ScanGoesTo(s, r)
      /\ UNCHANGED <<disk, fresh, songs, tracked, client, born, writes, settled, overlap, copied>>
  BY DEF StartScan
<1>3. /\ DOMAIN scan' = Scanner /\ scan'[s] = r
      /\ \A t \in Scanner \ {s} : scan'[t] = scan[t]
  BY <1>0, <1>2, ScanEffect
<1>4. /\ scan'[s].at = "listed" /\ DOMAIN scan'[s].seen = DOMAIN disk
      /\ \A p \in DOMAIN disk :
            scan'[s].seen[p].stamp = disk[p].stamp /\ (scan'[s].seen[p].stable <=> p \notin fresh)
  <2>1. scan'[s].at = "listed" /\ scan'[s].seen = seen
    BY <1>3
  <2>2. ASSUME NEW p \in DOMAIN disk
        PROVE  seen[p].stamp = disk[p].stamp /\ seen[p].stable = (p \notin fresh)
    OBVIOUS
  <2> QED
    BY <2>1, <2>2
<1> HIDE DEF r, seen
<1>5. Calm' => Calm \/ (quiet' = {s} /\ fresh = {})
  BY <1>1, <1>2 DEF Calm
<1>6. TypeOK' /\ CountShape' /\ ClientShape'
  BY <1>0, <1>2 DEF TypeOK, CountShape, ClientShape, RequestShape
<1>7. ScansShape'
  <2>1. ASSUME NEW t \in Scanner \ {s} PROVE ScanShape(t)'
    <3>1. ScanShape(t) /\ scan'[t] = scan[t]
      BY <1>0, <1>3 DEF ScansShape
    <3> QED
      BY <1>2, <3>1 DEF ScanShape, Running, Reading
  <2>2. ScanShape(s)'
    BY <1>0, <1>2, <1>4, RowFields DEF ScanShape, Running, Reading, OnFile, TypeOK
  <2> QED
    BY <1>3, <2>1, <2>2 DEF ScansShape
<1>8. QuietInv'
  <2>1. \A t \in quiet' : Running(t)' => \A u \in Scanner \ {t} : ~ Running(u)'
    BY <1>1, <1>3 DEF Running
  <2>2. Calm' => fresh = {} /\ \A c \in Client : client[c].at = "idle"
    BY <1>0, <1>1, <1>5 DEF QuietInv
  <2> QED
    BY <1>1, <1>2, <2>1, <2>2 DEF QuietInv
<1>9. ScansInv'
  <2>1. ASSUME NEW t \in Scanner \ {s}
        PROVE  (ListInv(t) /\ WorkInv(t) /\ FlagInv(t) /\ IdleWork(t) /\ KnownInv(t))'
    <3>1. ListInv(t) /\ IdleWork(t) /\ KnownInv(t)
      BY <1>0 DEF ScansInv
    <3>2. scan'[t] = scan[t] /\ t \notin quiet'
      BY <1>1, <1>3
    <3>3. Calm' /\ Running(t) => Calm
      BY <1>1, <1>5
    <3>4. ListInv(t)'
      BY <1>2, <3>1, <3>2, <3>3 DEF ListInv, Running
    <3>5. WorkInv(t)' /\ FlagInv(t)'
      BY <3>2 DEF WorkInv, FlagInv
    <3>6. IdleWork(t)'
      BY <1>2, <3>1, <3>2 DEF IdleWork, Reading, Agree
    <3>7. KnownInv(t)'
      BY <1>2, <3>1, <3>2 DEF KnownInv, Reading, SameFile, Described
    <3> QED
      BY <3>4, <3>5, <3>6, <3>7
  <2>2. ListInv(s)'
    <3>1. Calm' => fresh = {}
      BY <1>0, <1>5 DEF QuietInv
    <3> QED
      BY <1>2, <1>4, <3>1 DEF ListInv, OnFile
  <2>3. (WorkInv(s) /\ FlagInv(s) /\ IdleWork(s) /\ KnownInv(s))'
    BY <1>4 DEF WorkInv, FlagInv, IdleWork, KnownInv, Reading, OnFile
  <2> QED
    BY <2>1, <2>2, <2>3 DEF ScansInv
<1>10. NothingEscapesTheScan' /\ Flagged'
  <2>1. ~ ScansAtRest'
    BY <1>4 DEF ScansAtRest
  <2> QED
    BY <1>0, <1>2, <2>1 DEF NothingEscapesTheScan, Flagged, Own
<1>11. DiskInv' /\ CopyInv' /\ RowInv'
  BY <1>0, <1>2 DEF DiskInv, CopyInv, RowInv, SameFile, Own
<1> QED
  BY <1>6, <1>7, <1>8, <1>9, <1>10, <1>11 DEF LibraryInv
-----------------------------------------------------------------------------
LEMMA ReadKnownStep ==
  ASSUME LibraryInv, NEW s \in Scanner, ReadKnown(s)
  PROVE  LibraryInv'
<1>0. /\ TypeOK /\ CountShape /\ ScansShape /\ QuietInv /\ ScansInv /\ RowInv
  BY DEF LibraryInv
<1>00. ScanShape(s) /\ ListInv(s)
  BY <1>0 DEF ScansShape, ScansInv
<1> DEFINE r == [at |-> "files", seen |-> scan[s].seen, known |-> tracked,
                 todo |-> DOMAIN scan[s].seen,
                 gone |-> DOMAIN tracked \ DOMAIN scan[s].seen]
<1>1. /\ scan[s].at = "listed" /\ ScanGoesTo(s, r)
      /\ UNCHANGED Around /\ UNCHANGED Rows
  BY DEF ReadKnown, ScanFrame, Around, Rows
<1>2. /\ r.at = "files" /\ r.seen = scan[s].seen /\ r.known = tracked
      /\ r.todo = DOMAIN scan[s].seen /\ r.gone = DOMAIN tracked \ DOMAIN scan[s].seen
  OBVIOUS
<1> HIDE DEF r
<1>3. scan'[s] = r
  BY <1>0, <1>1, ScanEffect
<1>4. Running(s) /\ Reading(s)'
  BY <1>1, <1>2, <1>3 DEF Running, Reading
<1>5. Calm \/ ~ overlap => DOMAIN scan[s].seen = DOMAIN disk
  BY <1>00, <1>4 DEF ListInv
<1>6. ScanShape(s)'
  <2>1. \A p \in DOMAIN tracked :
          tracked[p] \in [song : 1..born \cup {NoSong}, hash : Audio, stamp : 0..writes]
    BY <1>0 DEF TypeOK
  <2>2. DOMAIN tracked \subseteq Path
    BY <1>0 DEF TypeOK
  <2> QED
    BY <1>00, <1>1, <1>2, <1>3, <1>4, <2>1, <2>2 DEF ScanShape, OnFile, Around, Rows
<1>7. \A p : Agree(s, p)'
  BY <1>1, <1>2, <1>3 DEF Agree, Rows
<1>8. WorkInv(s)' /\ FlagInv(s)'
  <2>1. s \in quiet => Calm
    BY <1>4 DEF Calm
  <2>2. WorkInv(s)'
    BY <1>1, <1>2, <1>3, <1>5, <1>7, <2>1 DEF WorkInv, Around, Rows
  <2>3. FlagInv(s)'
    BY <1>1, <1>2, <1>3, <1>5, <2>1 DEF FlagInv, Own, Around, Rows
  <2> QED
    BY <2>2, <2>3
<1>9. IdleWork(s)'
  BY <1>2, <1>3, <1>7 DEF IdleWork
<1>10. KnownInv(s)'
  BY <1>0, <1>1, <1>2, <1>3 DEF KnownInv, RowInv, SameFile, Own, Around, Rows
<1> QED
  BY <1>1, <1>2, <1>4, <1>6, <1>8, <1>9, <1>10, ScanMoves DEF OnFile

LEMMA LookingEffect ==
  ASSUME ScansShape, NEW s \in Scanner, NEW todo, NEW gone, ScanGoesTo(s, Looking(s, todo, gone))
  PROVE  /\ DOMAIN scan' = Scanner /\ \A t \in Scanner \ {s} : scan'[t] = scan[t]
         /\ scan'[s].at = "files" /\ scan'[s].seen = scan[s].seen
         /\ scan'[s].known = scan[s].known /\ scan'[s].todo = todo /\ scan'[s].gone = gone
BY ScanEffect DEF Looking

LEMMA ScanUnstableStep ==
  ASSUME LibraryInv, NEW s \in Scanner, NEW p, ScanUnstable(s, p)
  PROVE  LibraryInv'
<1>0. ScansShape /\ ScansInv
  BY DEF LibraryInv
<1>00. ScanShape(s) /\ ListInv(s) /\ KnownInv(s)
  BY <1>0 DEF ScansShape, ScansInv
<1> DEFINE r == Looking(s, scan[s].todo \ {p}, scan[s].gone)
<1>1. /\ scan[s].at = "files" /\ p \in scan[s].todo /\ ~ scan[s].seen[p].stable
      /\ ScanGoesTo(s, r) /\ UNCHANGED Around /\ UNCHANGED Rows
  BY DEF ScanUnstable, ScanFrame, Around, Rows, Done
<1>2. /\ scan'[s].at = "files" /\ scan'[s].seen = scan[s].seen
      /\ scan'[s].known = scan[s].known /\ scan'[s].todo = scan[s].todo \ {p}
      /\ scan'[s].gone = scan[s].gone
  BY <1>0, <1>1, LookingEffect
<1>3. scan'[s] = r
  BY <1>0, <1>1, ScanEffect
<1>4. Running(s) /\ Reading(s) /\ Reading(s)' /\ Running(s)'
  BY <1>1, <1>2 DEF Running, Reading
<1> HIDE DEF r
<1>5. ~ Calm
  BY <1>00, <1>1, <1>4 DEF ListInv, ScanShape
<1>6. ScanShape(s)'
  BY <1>00, <1>1, <1>2, <1>4 DEF ScanShape, OnFile, Around, Rows
<1>7. s \notin quiet /\ ~ settled > 0
  BY <1>4, <1>5 DEF Calm
<1>8. WorkInv(s)' /\ FlagInv(s)' /\ IdleWork(s)'
  BY <1>1, <1>7 DEF WorkInv, FlagInv, IdleWork, Around
<1>9. KnownInv(s)'
  <2>1. \A i \in DOMAIN songs : Described(i)' <=> Described(i)
    BY <1>1 DEF Described, Around, Rows
  <2> QED
    BY <1>00, <1>1, <1>2, <1>4, <2>1 DEF KnownInv, SameFile, Around, Rows
<1> QED
  BY <1>1, <1>2, <1>3, <1>4, <1>6, <1>8, <1>9, ScanMoves DEF OnFile

LEMMA FinishScanStep ==
  ASSUME LibraryInv, NEW s \in Scanner, FinishScan(s)
  PROVE  LibraryInv'
<1>0. /\ TypeOK /\ CountShape /\ ScansShape /\ ClientShape
      /\ QuietInv /\ ScansInv /\ NothingEscapesTheScan /\ Flagged
      /\ DiskInv /\ CopyInv /\ RowInv
  BY DEF LibraryInv
<1>00. WorkInv(s) /\ FlagInv(s)
  BY <1>0 DEF ScansInv
<1>1. /\ scan[s].at = "files" /\ scan[s].todo = {} /\ scan[s].gone = {}
      /\ ScanGoesTo(s, NoScan) /\ quiet' = quiet \ {s}
      /\ UNCHANGED <<disk, fresh, songs, tracked, client, born, writes, overlap, copied>>
  BY DEF FinishScan
<1>2. /\ settled' \in 0..2
      /\ settled' > 0 => s \in quiet
      /\ settled' > 1 => settled > 0
  BY <1>0 DEF FinishScan, CountShape
<1>3. DOMAIN scan' = Scanner /\ scan'[s] = NoScan /\ \A t \in Scanner \ {s} : scan'[t] = scan[t]
  BY <1>0, <1>1, ScanEffect
<1>4. scan'[s].at = "idle"
  BY <1>3 DEF NoScan
<1>5. Running(s) /\ Reading(s) /\ \A t \in Scanner : Running(t)' => Running(t) /\ t # s
  BY <1>1, <1>3, <1>4 DEF Running, Reading
<1>6. Calm' => Calm
  BY <1>0, <1>1, <1>2, <1>5 DEF Calm, QuietInv
<1>7. settled' > 0 => \A t \in Scanner : scan'[t].at = "idle"
  BY <1>0, <1>2, <1>3, <1>4, <1>5 DEF QuietInv, Running
<1>8. TypeOK' /\ CountShape' /\ ClientShape'
  BY <1>0, <1>1, <1>2 DEF TypeOK, CountShape, ClientShape, RequestShape
<1>9. ScansShape'
  <2>1. ASSUME NEW t \in Scanner \ {s} PROVE ScanShape(t)'
    <3>1. ScanShape(t) /\ scan'[t] = scan[t]
      BY <1>0, <1>3 DEF ScansShape
    <3> QED
      BY <1>1, <3>1 DEF ScanShape, Running, Reading
  <2>2. ScanShape(s)'
    BY <1>4 DEF ScanShape, Running, Reading, OnFile
  <2> QED
    BY <1>3, <2>1, <2>2 DEF ScansShape
<1>10. QuietInv'
  BY <1>0, <1>1, <1>5, <1>6 DEF QuietInv
<1>11. ScansInv'
  <2>1. ASSUME NEW t \in Scanner \ {s}
        PROVE  (ListInv(t) /\ WorkInv(t) /\ FlagInv(t) /\ IdleWork(t) /\ KnownInv(t))'
    <3>1. ListInv(t) /\ WorkInv(t) /\ FlagInv(t) /\ IdleWork(t) /\ KnownInv(t)
      BY <1>0 DEF ScansInv
    <3>2. scan'[t] = scan[t]
      BY <1>3
    <3>3. ListInv(t)'
      BY <1>1, <1>6, <3>1, <3>2 DEF ListInv, Running
    <3>4. WorkInv(t)'
      BY <1>1, <3>1, <3>2 DEF WorkInv, Reading, Agree
    <3>5. FlagInv(t)'
      <4>1. CASE settled' > 0
        BY <1>7, <4>1 DEF FlagInv, Reading, OnFile
      <4>2. CASE ~ settled' > 0
        BY <1>1, <3>1, <3>2, <4>2 DEF FlagInv, Reading, Own
      <4> QED
        BY <4>1, <4>2
    <3>6. IdleWork(t)'
      BY <1>7 DEF IdleWork, Reading, OnFile
    <3>7. KnownInv(t)'
      BY <1>1, <3>1, <3>2 DEF KnownInv, Reading, SameFile, Described
    <3> QED
      BY <3>3, <3>4, <3>5, <3>6, <3>7
  <2>2. (ListInv(s) /\ WorkInv(s) /\ FlagInv(s) /\ IdleWork(s) /\ KnownInv(s))'
    BY <1>4 DEF ListInv, WorkInv, FlagInv, IdleWork, KnownInv, Running, Reading, OnFile
  <2> QED
    BY <2>1, <2>2 DEF ScansInv
<1>12. NothingEscapesTheScan'
  BY <1>00, <1>1, <1>2, <1>5 DEF NothingEscapesTheScan, WorkInv
<1>13. Flagged'
  BY <1>00, <1>1, <1>2, <1>5 DEF Flagged, FlagInv, Own
<1>14. DiskInv' /\ CopyInv' /\ RowInv'
  BY <1>0, <1>1 DEF DiskInv, CopyInv, RowInv, SameFile, Own
<1> QED
  BY <1>8, <1>9, <1>10, <1>11, <1>12, <1>13, <1>14 DEF LibraryInv
-----------------------------------------------------------------------------
(* The song of a path that is gone is flagged, or the row is dropped. *)
LEMMA GoneEffect ==
  ASSUME LibraryInv, NEW s \in Scanner, NEW p, Gone(s, p)
  PROVE  /\ DOMAIN songs' = DOMAIN songs
         /\ \A j \in DOMAIN songs :
              /\ songs'[j] \in SongRow
              /\ songs'[j].path = songs[j].path /\ songs'[j].hash = songs[j].hash
              /\ songs'[j].missing = songs[j].missing \/ songs[j].path = p
         /\ DOMAIN tracked' \subseteq DOMAIN tracked
         /\ DOMAIN tracked \ {p} \subseteq DOMAIN tracked'
         /\ \A q \in DOMAIN tracked' : tracked'[q] = tracked[q]
         /\ p \in DOMAIN tracked' /\ p \in DOMAIN tracked =>
              LET i == scan[s].known[p].song IN
              i \in DOMAIN songs /\ (songs[i].path = p => songs'[i].missing)
<1> DEFINE i == scan[s].known[p].song
<1>0. TypeOK
  BY DEF LibraryInv
<1>1. \A j \in DOMAIN songs : songs[j] \in SongRow
  BY <1>0 DEF TypeOK, SongRow
<1>2. CASE i \in DOMAIN songs /\ songs[i].path = p
  <2>1. songs' = [songs EXCEPT ![i].missing = TRUE] /\ tracked' = tracked
    BY <1>2 DEF Gone
  <2> HIDE DEF i
  <2>2. /\ DOMAIN songs' = DOMAIN songs
        /\ \A j \in DOMAIN songs \ {i} : songs'[j] = songs[j]
        /\ songs'[i] \in SongRow
        /\ songs'[i].path = songs[i].path /\ songs'[i].hash = songs[i].hash /\ songs'[i].missing
    BY <1>0, <1>2, <2>1, MarkEffect
  <2>3. \A j \in DOMAIN songs :
          /\ songs'[j] \in SongRow
          /\ songs'[j].path = songs[j].path /\ songs'[j].hash = songs[j].hash
          /\ songs'[j].missing = songs[j].missing \/ songs[j].path = p
    BY <1>1, <1>2, <2>2
  <2> QED
    BY <1>2, <2>1, <2>2, <2>3 DEF i
<1>3. CASE i \in DOMAIN songs /\ songs[i].path # p
  <2>1. songs' = songs /\ tracked' = tracked
    BY <1>3 DEF Gone
  <2> QED
    BY <1>1, <1>3, <2>1
<1>4. CASE i \notin DOMAIN songs
  <2>1. songs' = songs /\ tracked' = Without(tracked, {p})
    BY <1>4 DEF Gone
  <2>2. /\ DOMAIN tracked' = DOMAIN tracked \ {p}
        /\ \A q \in DOMAIN tracked \ {p} : tracked'[q] = tracked[q]
    BY <2>1, WithoutEffect
  <2> QED
    BY <1>1, <2>1, <2>2
<1> QED
  BY <1>2, <1>3, <1>4

LEMMA GoneStep ==
  ASSUME LibraryInv, NEW s \in Scanner, NEW p, Gone(s, p)
  PROVE  LibraryInv'
<1> DEFINE i == scan[s].known[p].song
<1>0. /\ TypeOK /\ CountShape /\ ScansShape /\ ClientShape
      /\ QuietInv /\ ScansInv /\ NothingEscapesTheScan /\ Flagged
      /\ DiskInv /\ CopyInv /\ RowInv
  BY DEF LibraryInv
<1>00. ScanShape(s) /\ ListInv(s) /\ WorkInv(s) /\ FlagInv(s)
  BY <1>0 DEF ScansShape, ScansInv
<1>1. /\ scan[s].at = "files" /\ scan[s].todo = {} /\ p \in scan[s].gone
      /\ ScanGoesTo(s, Looking(s, {}, scan[s].gone \ {p}))
      /\ UNCHANGED Around /\ UNCHANGED <<born, copied>>
  BY DEF Gone, ScanFrame, Around
<1>2. /\ DOMAIN scan' = Scanner /\ \A t \in Scanner \ {s} : scan'[t] = scan[t]
      /\ scan'[s].at = "files" /\ scan'[s].seen = scan[s].seen
      /\ scan'[s].known = scan[s].known /\ scan'[s].todo = {}
      /\ scan'[s].gone = scan[s].gone \ {p}
  BY <1>0, <1>1, LookingEffect
<1>3. /\ DOMAIN songs' = DOMAIN songs
      /\ \A j \in DOMAIN songs :
           /\ songs'[j] \in SongRow
           /\ songs'[j].path = songs[j].path /\ songs'[j].hash = songs[j].hash
           /\ songs'[j].missing = songs[j].missing \/ songs[j].path = p
      /\ DOMAIN tracked' \subseteq DOMAIN tracked
      /\ DOMAIN tracked \ {p} \subseteq DOMAIN tracked'
      /\ \A q \in DOMAIN tracked' : tracked'[q] = tracked[q]
      /\ p \in DOMAIN tracked' /\ p \in DOMAIN tracked =>
           i \in DOMAIN songs /\ (songs[i].path = p => songs'[i].missing)
  BY GoneEffect
<1> HIDE DEF i
<1> USE DEF Around
<1>4. Running(s) /\ Reading(s) /\ Reading(s)' /\ \A t \in Scanner : Running(t)' <=> Running(t)
  BY <1>1, <1>2 DEF Running, Reading
<1>5. Calm' => Calm
  BY <1>0, <1>1, <1>4 DEF Calm, QuietInv
<1>6. Calm => p \notin DOMAIN disk
  BY <1>00, <1>1, <1>4 DEF ScanShape, ListInv
<1>7. TypeOK'
  <2>1. \A j \in DOMAIN songs' : songs'[j] \in [path : Path, hash : Audio, missing : BOOLEAN]
    BY <1>3 DEF SongRow
  <2>2. \A q \in DOMAIN tracked' :
          tracked'[q] \in [song : DOMAIN songs' \cup {NoSong}, hash : Audio, stamp : 0..writes']
    BY <1>0, <1>1, <1>3 DEF TypeOK
  <2>3. /\ DOMAIN disk' \subseteq Path /\ fresh' \subseteq DOMAIN disk'
        /\ \A q \in DOMAIN disk' : disk'[q] \in [hash : Audio, stamp : 0..writes']
        /\ DOMAIN songs' \subseteq 1..born' /\ DOMAIN tracked' \subseteq Path
    BY <1>0, <1>1, <1>3 DEF TypeOK
  <2> QED
    BY <2>1, <2>2, <2>3 DEF TypeOK
<1>8. CountShape' /\ ClientShape'
  BY <1>0, <1>1 DEF CountShape, ClientShape, RequestShape
<1>9. ScansShape'
  <2>1. ASSUME NEW t \in Scanner \ {s} PROVE ScanShape(t)'
    <3>1. ScanShape(t) /\ scan'[t] = scan[t]
      BY <1>0, <1>2 DEF ScansShape
    <3> QED
      BY <1>1, <3>1 DEF ScanShape, Running, Reading
  <2>2. ScanShape(s)'
    BY <1>00, <1>1, <1>2, <1>4 DEF ScanShape, OnFile
  <2> QED
    BY <1>2, <2>1, <2>2 DEF ScansShape
<1>10. QuietInv'
  BY <1>0, <1>1, <1>4, <1>5 DEF QuietInv
<1>11. ASSUME NEW t \in Scanner, NEW q \in DOMAIN disk, Calm, Agree(t, q)
       PROVE  Agree(t, q)'
  <2>1. q # p
    BY <1>6, <1>11
  <2>2. scan'[t].known = scan[t].known
    BY <1>2
  <2> QED
    BY <1>3, <1>11, <2>1, <2>2 DEF Agree
<1>12. ASSUME NEW t \in Scanner PROVE ListInv(t)' /\ IdleWork(t)' /\ KnownInv(t)'
  <2>1. ListInv(t) /\ IdleWork(t) /\ KnownInv(t)
    BY <1>0 DEF ScansInv
  <2>2. /\ scan'[t].at = scan[t].at /\ scan'[t].seen = scan[t].seen
        /\ scan'[t].known = scan[t].known /\ scan'[t].todo = scan[t].todo
        /\ scan'[t].song = scan[t].song \/ scan'[t].at = "files"
        /\ (scan'[t].hash = scan[t].hash /\ scan'[t].path = scan[t].path) \/ scan'[t].at = "files"
    BY <1>1, <1>2
  <2>3. ListInv(t)'
    BY <1>1, <1>5, <2>1, <2>2 DEF ListInv, Running, OnFile
  <2>4. IdleWork(t)'
    BY <1>1, <1>11, <2>1, <2>2 DEF IdleWork, Reading, Calm
  <2>5. \A j \in DOMAIN songs : Described(j)' <=> Described(j)
    BY <1>1, <1>3 DEF Described
  <2>6. KnownInv(t)'
    BY <1>1, <1>3, <2>1, <2>2, <2>5 DEF KnownInv, Reading, SameFile
  <2> QED
    BY <2>3, <2>4, <2>6
<1>13. ASSUME NEW t \in Scanner \ {s}, t \in quiet PROVE ~ Reading(t)'
  BY <1>0, <1>2, <1>4, <1>13 DEF QuietInv, Running, Reading, OnFile
<1>14. s \in quiet => Calm
  BY <1>4 DEF Calm
<1>15. WorkInv(s)'
  <2> SUFFICES ASSUME s \in quiet
               PROVE  /\ \A q \in DOMAIN disk :
                           q \in DOMAIN tracked' /\ tracked'[q].stamp = disk[q].stamp
                      /\ \A q \in DOMAIN tracked' \ DOMAIN disk :
                          Agree(s, q)' /\ (q \in scan[s].gone \ {p} \/ tracked'[q].song # NoSong)
    BY <1>1, <1>2 DEF WorkInv
  <2>1. /\ \A q \in DOMAIN disk : q \in DOMAIN tracked /\ tracked[q].stamp = disk[q].stamp
        /\ \A q \in DOMAIN tracked \ DOMAIN disk :
             Agree(s, q) /\ (q \in scan[s].gone \/ tracked[q].song # NoSong)
    BY <1>00, <1>1, <1>4 DEF WorkInv
  <2>2. \A q \in DOMAIN disk : q \in DOMAIN tracked' /\ tracked'[q].stamp = disk[q].stamp
    BY <1>3, <1>6, <1>14, <2>1
  <2>3. ASSUME NEW q \in DOMAIN tracked' \ DOMAIN disk
        PROVE  Agree(s, q)' /\ (q \in scan[s].gone \ {p} \/ tracked'[q].song # NoSong)
    <3>1. /\ q \in DOMAIN tracked /\ tracked'[q] = tracked[q] /\ Agree(s, q)
          /\ q \in scan[s].gone \/ tracked[q].song # NoSong
      BY <1>3, <2>1
    <3>2. Agree(s, q)'
      BY <1>2, <3>1 DEF Agree
    <3>3. q = p => tracked[q].song # NoSong
      <4>1. q = p => tracked[q].song = i /\ i \in DOMAIN songs
        BY <1>3, <3>1 DEF Agree, i
      <4> QED
        BY <1>0, <4>1, LibraryAssumption DEF TypeOK
    <3> QED
      BY <3>1, <3>2, <3>3
  <2> QED
    BY <2>2, <2>3
<1>16. FlagInv(s)'
  <2> SUFFICES ASSUME s \in quiet, NEW j \in DOMAIN songs, Own(j)'
               PROVE  /\ songs'[j].path \notin DOMAIN disk =>
                          songs'[j].path \in scan[s].gone \ {p} \/ songs'[j].missing
                      /\ settled > 0 /\ songs'[j].missing => songs'[j].path \notin DOMAIN disk
    BY <1>1, <1>2, <1>3 DEF FlagInv
  <2>1. /\ songs'[j].path = songs[j].path /\ songs[j].path \in DOMAIN tracked'
        /\ tracked[songs[j].path].song = j /\ songs[j].path \in DOMAIN tracked
    BY <1>3 DEF Own
  <2>2. /\ songs[j].path \notin DOMAIN disk =>
            songs[j].path \in scan[s].gone \/ songs[j].missing
        /\ settled > 0 /\ songs[j].missing => songs[j].path \notin DOMAIN disk
    BY <1>00, <1>1, <1>4, <2>1 DEF FlagInv, Own
  <2>3. CASE songs[j].path = p
    <3>1. Agree(s, p)
      BY <1>00, <1>4, <1>6, <1>14, <2>1, <2>3 DEF WorkInv
    <3>2. i = j
      BY <2>1, <2>3, <3>1 DEF Agree, i
    <3> QED
      BY <1>3, <1>6, <1>14, <2>1, <2>3, <3>2
  <2>4. CASE songs[j].path # p
    BY <1>3, <2>1, <2>2, <2>4
  <2> QED
    BY <2>3, <2>4
<1>17. ScansInv'
  <2>1. ASSUME NEW t \in Scanner \ {s} PROVE WorkInv(t)' /\ FlagInv(t)'
    BY <1>1, <1>13 DEF WorkInv, FlagInv
  <2> QED
    BY <1>12, <1>15, <1>16, <2>1 DEF ScansInv
<1>18. NothingEscapesTheScan'
  BY <1>0, <1>1, <1>3, <1>6 DEF NothingEscapesTheScan, Calm
<1>19. Flagged'
  <2>1. ~ ScansAtRest'
    BY <1>2 DEF ScansAtRest
  <2>2. \A j \in DOMAIN songs : Own(j)' => Own(j)
    BY <1>3 DEF Own
  <2>3. settled > 1 => settled > 0
    BY <1>0 DEF CountShape
  <2>4. ASSUME settled > 1, NEW j \in DOMAIN songs, Own(j)', songs'[j].missing
        PROVE  songs'[j].path \notin DOMAIN disk
    BY <1>0, <1>3, <1>6, <2>2, <2>3, <2>4 DEF Flagged, Calm
  <2> QED
    BY <1>1, <1>3, <2>1, <2>4 DEF Flagged
<1>20. DiskInv' /\ CopyInv' /\ RowInv'
  <2>1. DiskInv' /\ CopyInv'
    BY <1>0, <1>1, <1>3 DEF DiskInv, CopyInv, SameFile
  <2>2. RowInv'
    BY <1>0, <1>1, <1>3 DEF RowInv, SameFile, Own
  <2> QED
    BY <2>1, <2>2
<1> QED
  BY <1>7, <1>8, <1>9, <1>10, <1>17, <1>18, <1>19, <1>20 DEF LibraryInv
-----------------------------------------------------------------------------
(* What is recorded of a file: the row, what becomes of the other rows and *)
(* of the songs, of which only the row's own is written to.                *)
Keeps(s, rows) ==
  /\ DOMAIN rows \subseteq DOMAIN tracked
  /\ DOMAIN tracked \cap DOMAIN scan[s].seen \subseteq DOMAIN rows
  /\ \A q \in DOMAIN rows : rows[q] = tracked[q]

Alike(i) == songs'[i].path = songs[i].path /\ songs'[i].hash = songs[i].hash

Writes(p, row, rows) ==
  /\ DOMAIN songs' = DOMAIN songs
  /\ \A i \in DOMAIN songs : songs'[i] \in SongRow /\ (i # row.song => songs'[i] = songs[i])
  /\ row.song \in DOMAIN songs =>
      /\ songs'[row.song].path \in {songs[row.song].path, p}
      /\ songs'[row.song].path # songs[row.song].path => songs[row.song].path \notin DOMAIN rows
      /\ \/ Alike(row.song)
         \/ ~ overlap /\ songs'[row.song].path = p => songs'[row.song].hash = disk[p].hash

(* The row and the song are of the file that was read. *)
OfFile(s, p, row, rows) ==
  /\ Calm => row.stamp = disk[p].stamp
  /\ ~ overlap =>
      /\ SameFile(row)
      /\ row.song \in DOMAIN songs /\ row.song \notin copied /\ songs'[row.song].path = p
         => row.hash = songs'[row.song].hash
  /\ settled > 0 =>
      /\ row = scan[s].known[p] /\ rows = tracked
      /\ row.song \in DOMAIN songs => Alike(row.song) /\ ~ songs'[row.song].missing

LEMMA RecordTypes ==
  ASSUME LibraryInv, NEW s \in Scanner, Reading(s), NEW p \in scan[s].todo, NEW rows,
         NEW row \in [song : DOMAIN songs \cup {NoSong}, hash : Audio, stamp : 0..writes],
         Keeps(s, rows), Writes(p, row, rows), UNCHANGED Around, born' = born,
         tracked' = With(rows, p, row), Done(s, p)
  PROVE  /\ TypeOK' /\ CountShape' /\ ScansShape' /\ ClientShape' /\ QuietInv'
         /\ Calm' = Calm
<1> USE DEF Around
<1>0. TypeOK /\ CountShape /\ ScansShape /\ ClientShape /\ QuietInv
  BY DEF LibraryInv
<1>1. /\ DOMAIN scan' = Scanner /\ \A t \in Scanner \ {s} : scan'[t] = scan[t]
      /\ scan'[s].at = "files" /\ scan'[s].seen = scan[s].seen
      /\ scan'[s].known = scan[s].known /\ scan'[s].todo = scan[s].todo \ {p}
      /\ scan'[s].gone = scan[s].gone
  BY <1>0, LookingEffect DEF Done
<1>2. ScanShape(s)
  BY <1>0 DEF ScansShape
<1>3. Running(s) /\ \A t \in Scanner : Running(t)' = Running(t)
  <2>1. Running(s) /\ Running(s)'
    BY <1>1 DEF Running, Reading, OnFile
  <2>2. \A t \in Scanner \ {s} : Running(t)' = Running(t)
    BY <1>1 DEF Running
  <2> QED
    BY <2>1, <2>2 DEF Running
<1>4. Calm' = Calm
  BY <1>0, <1>3 DEF Calm, QuietInv
<1>5. QuietInv'
  BY <1>0, <1>3, <1>4 DEF QuietInv
<1>6. CountShape' /\ ClientShape'
  BY <1>0 DEF CountShape, ClientShape, RequestShape
<1>7. ScansShape'
  <2>1. ASSUME NEW t \in Scanner \ {s} PROVE ScanShape(t)'
    <3>1. ScanShape(t) /\ scan'[t] = scan[t]
      BY <1>0, <1>1 DEF ScansShape
    <3> QED
      BY <3>1 DEF ScanShape, Running, Reading
  <2>2. ScanShape(s)'
    BY <1>1, <1>2, <1>3 DEF ScanShape, OnFile, Reading
  <2> QED
    BY <1>1, <2>1, <2>2 DEF ScansShape
<1>8. TypeOK'
  <2>1. /\ DOMAIN tracked' = DOMAIN rows \cup {p} /\ tracked'[p] = row
        /\ \A q \in DOMAIN rows \ {p} : tracked'[q] = rows[q]
    BY DEF With
  <2>2. p \in Path
    BY <1>2, <1>3 DEF ScanShape
  <2>3. DOMAIN songs' = DOMAIN songs
    BY DEF Writes
  <2>4. \A q \in DOMAIN tracked' :
          tracked'[q] \in [song : DOMAIN songs' \cup {NoSong}, hash : Audio, stamp : 0..writes']
    BY <1>0, <2>1, <2>3 DEF TypeOK, Keeps
  <2>5. \A j \in DOMAIN songs' : songs'[j] \in [path : Path, hash : Audio, missing : BOOLEAN]
    BY <2>3 DEF Writes, SongRow
  <2>6. /\ DOMAIN disk' \subseteq Path /\ fresh' \subseteq DOMAIN disk'
        /\ \A q \in DOMAIN disk' : disk'[q] \in [hash : Audio, stamp : 0..writes']
        /\ DOMAIN songs' \subseteq 1..born'
    BY <1>0, <2>3 DEF TypeOK
  <2>7. DOMAIN tracked' \subseteq Path
    BY <1>0, <2>1, <2>2 DEF TypeOK, Keeps
  <2> QED
    BY <2>4, <2>5, <2>6, <2>7 DEF TypeOK
<1> QED
  BY <1>4, <1>5, <1>6, <1>7, <1>8

(* The last statement for a file goes through. *)
LEMMA RecordStep ==
  ASSUME LibraryInv, NEW s \in Scanner, Reading(s), NEW p \in scan[s].todo, NEW rows,
         NEW row \in [song : DOMAIN songs \cup {NoSong}, hash : Audio, stamp : 0..writes],
         Keeps(s, rows), Writes(p, row, rows), OfFile(s, p, row, rows),
         UNCHANGED Around, born' = born,
         tracked' = With(rows, p, row), Done(s, p),
         copied' = IF row.song \in DOMAIN songs /\ songs'[row.song].path # p
                   THEN copied \cup {row.song} ELSE copied
  PROVE  LibraryInv'
<1> USE DEF Around
<1>0. /\ TypeOK /\ CountShape /\ ScansShape /\ ClientShape
      /\ QuietInv /\ ScansInv /\ NothingEscapesTheScan /\ Flagged
      /\ DiskInv /\ CopyInv /\ RowInv
  BY DEF LibraryInv
<1>00. ScanShape(s) /\ ListInv(s) /\ WorkInv(s) /\ FlagInv(s) /\ IdleWork(s)
  BY <1>0 DEF ScansShape, ScansInv
<1>1. /\ DOMAIN scan' = Scanner /\ \A t \in Scanner \ {s} : scan'[t] = scan[t]
      /\ scan'[s].at = "files" /\ scan'[s].seen = scan[s].seen
      /\ scan'[s].known = scan[s].known /\ scan'[s].todo = scan[s].todo \ {p}
      /\ scan'[s].gone = scan[s].gone
  BY <1>0, LookingEffect DEF Done
<1>2. /\ TypeOK' /\ CountShape' /\ ScansShape' /\ ClientShape' /\ QuietInv'
      /\ Calm' = Calm
  BY RecordTypes
<1>3. /\ DOMAIN tracked' = DOMAIN rows \cup {p} /\ tracked'[p] = row
      /\ \A q \in DOMAIN rows \ {p} : tracked'[q] = rows[q]
  BY DEF With
<1>4. Running(s) /\ Reading(s)'
  BY <1>1 DEF Running, Reading, OnFile
<1>5. p \in DOMAIN scan[s].seen
  BY <1>00 DEF ScanShape
<1>6. Calm \/ ~ overlap => DOMAIN scan[s].seen = DOMAIN disk /\ p \in DOMAIN disk
  BY <1>00, <1>4, <1>5 DEF ListInv
<1>8. \A q \in DOMAIN tracked' \ {p} : q \in DOMAIN tracked /\ tracked'[q] = tracked[q]
  BY <1>3 DEF Keeps
<1>9. \A q \in DOMAIN scan[s].seen \ {p} : q \in DOMAIN tracked' <=> q \in DOMAIN tracked
  BY <1>3 DEF Keeps
<1>10. s \in quiet => Calm
  BY <1>4 DEF Calm
<1>11. settled > 0 => Agree(s, p) /\ p \in DOMAIN disk /\ p \in DOMAIN tracked
  <2>1. settled > 0 => Calm
    BY DEF Calm
  <2> QED
    BY <1>0, <1>00, <1>6, <2>1 DEF IdleWork, NothingEscapesTheScan
<1>12. settled > 0 => /\ DOMAIN tracked' = DOMAIN tracked
                      /\ \A q \in DOMAIN tracked : tracked'[q] = tracked[q]
  BY <1>3, <1>11 DEF OfFile, Agree
<1>13. /\ DOMAIN songs' = DOMAIN songs
       /\ \A i \in DOMAIN songs : i # row.song => songs'[i] = songs[i]
  BY DEF Writes
<1>14. settled > 0 => \A i \in DOMAIN songs :
         /\ Alike(i) /\ (Own(i)' <=> Own(i))
         /\ i = row.song => ~ songs'[i].missing
  BY <1>12, <1>13 DEF OfFile, Alike, Own
<1>15. ASSUME NEW t \in Scanner
       PROVE  /\ scan'[t].seen = scan[t].seen /\ scan'[t].known = scan[t].known
              /\ scan'[t].at = "files" \/ scan'[t] = scan[t]
              /\ Reading(t)' <=> Reading(t)
              /\ Running(t)' <=> Running(t)
  BY <1>1, <1>4 DEF Reading, Running
<1>16. ASSUME NEW t \in Scanner PROVE ListInv(t)' /\ IdleWork(t)'
  <2>1. ListInv(t) /\ IdleWork(t)
    BY <1>0 DEF ScansInv
  <2>2. ListInv(t)'
    BY <1>2, <1>15, <2>1 DEF ListInv, OnFile
  <2>3. IdleWork(t)'
    BY <1>12, <1>15, <2>1 DEF IdleWork, Agree
  <2> QED
    BY <2>2, <2>3
<1>17. ASSUME NEW t \in Scanner \ {s} PROVE WorkInv(t)' /\ FlagInv(t)'
  <2>1. t \in quiet => ~ Reading(t)
    BY <1>0, <1>4 DEF QuietInv, Reading, Running, OnFile
  <2> QED
    BY <1>15, <2>1 DEF WorkInv, FlagInv
<1>18. WorkInv(s)'
  <2> SUFFICES ASSUME s \in quiet PROVE WorkInv(s)'
    BY DEF WorkInv
  <2>1. Calm /\ Reading(s)
    BY <1>10
  <2>2. ASSUME NEW q \in scan[s].todo \ {p} PROVE Agree(s, q)'
    <3>1. Agree(s, q) /\ q \in DOMAIN scan[s].seen
      BY <1>00, <2>1 DEF WorkInv, ScanShape
    <3> QED
      BY <1>1, <1>8, <1>9, <3>1 DEF Agree
  <2>3. ASSUME NEW q \in DOMAIN disk \ (scan[s].todo \ {p})
        PROVE  q \in DOMAIN tracked' /\ tracked'[q].stamp = disk[q].stamp
    <3>1. CASE q = p
      BY <1>3, <2>1, <3>1 DEF OfFile
    <3>2. CASE q # p
      <4>1. q \in DOMAIN tracked /\ tracked[q].stamp = disk[q].stamp
        BY <1>00, <2>1, <2>3, <3>2 DEF WorkInv
      <4>2. q \in DOMAIN tracked'
        BY <1>6, <1>9, <2>1, <3>2, <4>1
      <4> QED
        BY <1>8, <3>2, <4>1, <4>2
    <3> QED
      BY <3>1, <3>2
  <2>4. ASSUME NEW q \in DOMAIN tracked' \ DOMAIN disk
        PROVE  Agree(s, q)' /\ (q \in scan[s].gone \/ tracked'[q].song # NoSong)
    <3>1. q # p
      BY <1>6, <2>1
    <3>2. q \in DOMAIN tracked /\ tracked'[q] = tracked[q]
      BY <1>8, <3>1
    <3>3. Agree(s, q) /\ (q \in scan[s].gone \/ tracked[q].song # NoSong)
      BY <1>00, <2>1, <3>2 DEF WorkInv
    <3> QED
      BY <1>1, <3>2, <3>3 DEF Agree
  <2>5. scan[s].gone = DOMAIN scan[s].known \ DOMAIN scan[s].seen
    BY <1>00, <2>1 DEF WorkInv
  <2> QED
    BY <1>1, <2>2, <2>3, <2>4, <2>5 DEF WorkInv
<1>19. FlagInv(s)'
  <2> SUFFICES ASSUME s \in quiet, NEW i \in DOMAIN songs, Own(i)'
               PROVE  /\ songs'[i].path \notin DOMAIN disk => songs'[i].path \in scan[s].gone
                      /\ settled > 0 /\ songs'[i].missing =>
                          songs'[i].path \notin DOMAIN disk \ (scan[s].todo \ {p})
    BY <1>1, <1>13 DEF FlagInv
  <2>1. Calm /\ Reading(s)
    BY <1>10
  <2>2. ASSUME songs'[i].path \notin DOMAIN disk PROVE songs'[i].path \in scan[s].gone
    <3>1. songs'[i].path # p
      BY <1>6, <2>1, <2>2
    <3>2. songs'[i].path = songs[i].path
      BY <1>13, <3>1 DEF Writes
    <3>3. Own(i)
      BY <1>8, <3>1, <3>2 DEF Own
    <3> QED
      BY <1>00, <2>1, <2>2, <3>2, <3>3 DEF FlagInv
  <2>3. ASSUME settled > 0, songs'[i].missing
        PROVE  songs'[i].path \notin DOMAIN disk \ (scan[s].todo \ {p})
    <3>1. i # row.song /\ Own(i) /\ songs'[i] = songs[i]
      BY <1>13, <1>14, <2>3
    <3>2. songs[i].path \notin DOMAIN disk \ scan[s].todo
      BY <1>00, <2>1, <2>3, <3>1 DEF FlagInv
    <3>3. songs[i].path # p
      BY <1>3, <3>1 DEF Own
    <3> QED
      BY <3>1, <3>2, <3>3
  <2> QED
    BY <2>2, <2>3
<1>20. ASSUME ~ overlap, NEW t \in Scanner PROVE KnownInv(t)'
  <2>1. KnownInv(t)
    BY <1>0 DEF ScansInv
  <2>2. ASSUME NEW i \in DOMAIN songs, i \notin copied'
        PROVE  /\ i \notin copied
               /\ \/ songs'[i].path = songs[i].path /\ songs'[i].hash = songs[i].hash
                     /\ (Described(i)' <=> Described(i))
                  \/ songs'[i].path = p /\ Described(i)'
    <3>1. CASE Alike(i)
      BY <3>1, <2>2 DEF Alike, Described
    <3>2. CASE ~ Alike(i)
      <4>1. i = row.song
        BY <1>13, <3>2 DEF Alike
      <4>2. songs'[i].path = p
        BY <2>2, <4>1
      <4>3. songs'[i].hash = disk[p].hash
        BY <1>20, <3>2, <4>1, <4>2 DEF Writes
      <4> QED
        BY <2>2, <4>2, <4>3 DEF Described
    <3> QED
      BY <3>1, <3>2
  <2>3. scan'[t].todo = scan[t].todo \/ (t = s /\ scan'[t].todo = scan[t].todo \ {p})
    BY <1>1
  <2>4. Reading(t)' => \A q \in DOMAIN scan'[t].known :
          /\ SameFile(scan'[t].known[q])
          /\ \A i \in DOMAIN songs' :
              q \in scan'[t].todo /\ scan'[t].known[q].song = i /\ songs'[i].path = q
              /\ i \notin copied'
              => scan'[t].known[q].hash = songs'[i].hash \/ Described(i)'
    BY <1>13, <1>15, <1>20, <2>1, <2>2, <2>3 DEF KnownInv, SameFile
  <2>5. scan'[t].at = "track" => \A i \in DOMAIN songs' :
          scan'[t].song = i /\ i \notin copied' /\ songs'[i].path = scan'[t].path => Described(i)'
    BY <1>13, <1>15, <1>20, <2>1, <2>2 DEF KnownInv
  <2> QED
    BY <2>4, <2>5 DEF KnownInv, SameFile
<1>21. ScansInv'
  <2>1. \A t \in Scanner : KnownInv(t)'
    BY <1>20 DEF KnownInv
  <2> QED
    BY <1>16, <1>17, <1>18, <1>19, <2>1 DEF ScansInv
<1>22. NothingEscapesTheScan'
  BY <1>0, <1>12 DEF NothingEscapesTheScan
<1>23. Flagged'
  <2>1. ~ ScansAtRest'
    BY <1>1 DEF ScansAtRest
  <2>2. settled > 1 => settled > 0
    BY <1>0 DEF CountShape
  <2>3. ASSUME settled > 1, NEW i \in DOMAIN songs, Own(i)', songs'[i].missing
        PROVE  songs'[i].path \notin DOMAIN disk
    <3>1. i # row.song /\ Own(i) /\ songs'[i] = songs[i]
      BY <1>13, <1>14, <2>2, <2>3
    <3> QED
      BY <1>0, <2>3, <3>1 DEF Flagged
  <2> QED
    BY <1>13, <2>1, <2>3 DEF Flagged
<1>24. CopyInv'
  <2> SUFFICES ASSUME NEW q \in DOMAIN tracked', tracked'[q].song \in DOMAIN songs
               PROVE  songs'[tracked'[q].song].path = q \/ tracked'[q].song \in copied'
    BY <1>13 DEF CopyInv
  <2>1. CASE q = p
    BY <1>3, <2>1
  <2>2. CASE q # p
    <3> DEFINE i == tracked'[q].song
    <3>1. q \in DOMAIN tracked /\ tracked[q].song = i /\ q \in DOMAIN rows
      BY <1>3, <1>8, <2>2
    <3> HIDE DEF i
    <3>2. i \in DOMAIN songs /\ (songs[i].path = q \/ i \in copied)
      BY <1>0, <3>1 DEF CopyInv, i
    <3>3. CASE songs'[i].path = songs[i].path
      BY <3>2, <3>3 DEF i
    <3>4. CASE songs'[i].path # songs[i].path
      <4>1. i = row.song /\ songs[i].path \notin DOMAIN rows
        BY <1>13, <3>2, <3>4 DEF Writes
      <4> QED
        BY <3>1, <3>2, <4>1 DEF i
    <3> QED
      BY <3>3, <3>4
  <2> QED
    BY <2>1, <2>2
<1>25. RowInv'
  <2> SUFFICES ASSUME ~ overlap
               PROVE  /\ \A q \in DOMAIN tracked' : SameFile(tracked'[q])
                      /\ \A i \in DOMAIN songs : Own(i)' /\ i \notin copied' =>
                          tracked'[songs'[i].path].hash = songs'[i].hash
    BY <1>13 DEF RowInv, SameFile
  <2>1. \A q \in DOMAIN tracked' : SameFile(tracked'[q])
    BY <1>0, <1>3, <1>8 DEF RowInv, OfFile
  <2>2. ASSUME NEW i \in DOMAIN songs, Own(i)', i \notin copied'
        PROVE  tracked'[songs'[i].path].hash = songs'[i].hash
    <3>1. songs'[i].path \in DOMAIN tracked' /\ tracked'[songs'[i].path].song = i
      BY <2>2 DEF Own
    <3>2. i \notin copied
      BY <2>2
    <3>3. CASE i = row.song
      <4>1. songs'[i].path = p
        BY <2>2, <3>3
      <4> QED
        BY <1>3, <3>2, <3>3, <4>1 DEF OfFile
    <3>4. CASE i # row.song
      <4>1. songs'[i] = songs[i]
        BY <1>13, <3>4
      <4>2. songs[i].path # p
        BY <1>3, <3>1, <3>4, <4>1
      <4>3. Own(i)
        BY <1>8, <3>1, <4>1, <4>2 DEF Own
      <4> QED
        BY <1>0, <1>8, <3>1, <3>2, <4>1, <4>2, <4>3 DEF RowInv
    <3> QED
      BY <3>3, <3>4
  <2> QED
    BY <2>1, <2>2
<1>26. DiskInv'
  BY <1>0 DEF DiskInv, SameFile
<1> QED
  BY <1>2, <1>21, <1>22, <1>23, <1>24, <1>25, <1>26 DEF LibraryInv
-----------------------------------------------------------------------------
LEMMA UpsertStep ==
  ASSUME LibraryInv, NEW s \in Scanner, Reading(s), NEW p \in scan[s].todo, NEW rows,
         NEW row \in [song : 1..born \cup {NoSong}, hash : Audio, stamp : 0..writes],
         Keeps(s, rows), Writes(p, row, rows), OfFile(s, p, row, rows),
         UNCHANGED Around, born' = born, Upsert(s, p, row, rows),
         row.song \notin DOMAIN songs \cup {NoSong} =>
            settled = 0 /\ rows = tracked /\ songs' = songs
  PROVE  LibraryInv'
<1>1. CASE row.song \in DOMAIN songs \cup {NoSong}
  <2>1. row \in [song : DOMAIN songs \cup {NoSong}, hash : Audio, stamp : 0..writes]
    BY <1>1
  <2>2. /\ tracked' = With(rows, p, row) /\ Done(s, p)
        /\ copied' = IF row.song \in DOMAIN songs /\ songs'[row.song].path # p
                     THEN copied \cup {row.song} ELSE copied
    BY <1>1 DEF Upsert
  <2> QED
    BY <2>1, <2>2, RecordStep
<1>2. CASE row.song \notin DOMAIN songs \cup {NoSong}
  <2>1. ScanGoesTo(s, NoScan) /\ UNCHANGED Rows
    BY <1>2 DEF Upsert, Rows
  <2>2. Running(s)
    BY DEF Running, Reading, OnFile
  <2> QED
    BY <1>2, <2>1, <2>2, EndStep
<1> QED
  BY <1>1, <1>2

LEMMA KeepsAll == \A s : Keeps(s, tracked)
BY DEF Keeps

(* What is known when a scan is at one of its files. *)
LEMMA AtFile ==
  ASSUME LibraryInv, NEW s \in Scanner, Reading(s), NEW p \in scan[s].todo
  PROVE  /\ p \in Path /\ p \in DOMAIN scan[s].seen
         /\ scan[s].seen[p].stamp \in 0..writes
         /\ Running(s) /\ TypeOK /\ ScansShape /\ CountShape
         /\ scan[s].todo \subseteq DOMAIN scan[s].seen
         /\ Calm \/ ~ overlap =>
              /\ DOMAIN scan[s].seen = DOMAIN disk
              /\ p \in DOMAIN disk /\ scan[s].seen[p].stamp = disk[p].stamp
              /\ scan[s].at \in OnFile => scan[s].hash = disk[scan[s].path].hash
         /\ p \in DOMAIN scan[s].known =>
              scan[s].known[p] \in [song : 1..born \cup {NoSong}, hash : Audio, stamp : 0..writes]
         /\ settled > 0 =>
              /\ Calm /\ Agree(s, p) /\ p \in DOMAIN tracked /\ tracked[p].stamp = disk[p].stamp
              /\ scan[s].at = "files"
         /\ settled > 0 \/ settled = 0
<1>0. /\ TypeOK /\ ScansShape /\ CountShape /\ ScanShape(s) /\ ListInv(s) /\ IdleWork(s)
      /\ NothingEscapesTheScan
  BY DEF LibraryInv, ScansShape, ScansInv
<1>1. Running(s)
  BY DEF Running, Reading, OnFile
<1>2. /\ p \in Path /\ p \in DOMAIN scan[s].seen
      /\ scan[s].seen[p].stamp \in 0..writes
      /\ scan[s].todo \subseteq DOMAIN scan[s].seen
      /\ p \in DOMAIN scan[s].known =>
           scan[s].known[p] \in [song : 1..born \cup {NoSong}, hash : Audio, stamp : 0..writes]
  BY <1>0, <1>1 DEF ScanShape
<1>3. Calm \/ ~ overlap =>
        /\ DOMAIN scan[s].seen = DOMAIN disk
        /\ p \in DOMAIN disk /\ scan[s].seen[p].stamp = disk[p].stamp
        /\ scan[s].at \in OnFile => scan[s].hash = disk[scan[s].path].hash
  BY <1>0, <1>1, <1>2 DEF ListInv
<1>4. settled > 0 =>
        /\ Calm /\ Agree(s, p) /\ p \in DOMAIN tracked /\ tracked[p].stamp = disk[p].stamp
        /\ scan[s].at = "files"
  BY <1>0, <1>3 DEF IdleWork, NothingEscapesTheScan, Reading, OnFile, Calm
<1>5. settled > 0 \/ settled = 0
  BY <1>0 DEF CountShape
<1> QED
  BY <1>0, <1>1, <1>2, <1>3, <1>4, <1>5

LEMMA ScanUntouchedStep ==
  ASSUME LibraryInv, NEW s \in Scanner, NEW p, ScanUntouched(s, p)
  PROVE  LibraryInv'
<1> DEFINE row == scan[s].known[p]
<1>1. /\ scan[s].at = "files" /\ p \in scan[s].todo
      /\ p \in DOMAIN scan[s].known /\ row.stamp = scan[s].seen[p].stamp
      /\ songs' = IF row.song \in DOMAIN songs THEN Present(row.song) ELSE songs
      /\ Upsert(s, p, row, tracked) /\ UNCHANGED Around /\ born' = born
  BY DEF ScanUntouched, Untouched, ScanFrame, Around
<1>2. Reading(s)
  BY <1>1 DEF Reading
<1>3. /\ p \in Path /\ p \in DOMAIN scan[s].seen /\ TypeOK
      /\ Calm \/ ~ overlap => p \in DOMAIN disk /\ scan[s].seen[p].stamp = disk[p].stamp
      /\ row \in [song : 1..born \cup {NoSong}, hash : Audio, stamp : 0..writes]
      /\ settled > 0 => Agree(s, p) /\ p \in DOMAIN tracked
      /\ settled > 0 \/ settled = 0
  BY <1>1, <1>2, AtFile
<1>4. KnownInv(s)
  BY DEF LibraryInv, ScansInv
<1>5. row.song \notin DOMAIN songs \cup {NoSong} => settled = 0 /\ songs' = songs
  BY <1>1, <1>3 DEF Agree, TypeOK
<1>6. \A i \in DOMAIN songs : songs[i] \in SongRow
  BY <1>3 DEF TypeOK, SongRow
<1>7. /\ DOMAIN songs' = DOMAIN songs
      /\ \A i \in DOMAIN songs \ {row.song} : songs'[i] = songs[i]
      /\ row.song \in DOMAIN songs =>
           /\ songs'[row.song] \in SongRow /\ ~ songs'[row.song].missing
           /\ songs'[row.song].path = songs[row.song].path
           /\ songs'[row.song].hash = songs[row.song].hash
  <2> HIDE DEF row
  <2>1. CASE row.song \in DOMAIN songs
    <3>1. songs' = Present(row.song)
      BY <1>1, <2>1
    <3> QED
      BY <1>3, <2>1, <3>1, PresentEffect
  <2>2. CASE row.song \notin DOMAIN songs
    BY <1>1, <2>2
  <2> QED
    BY <2>1, <2>2
<1>8. Writes(p, row, tracked)
  BY <1>6, <1>7 DEF Writes, Alike
<1>9. OfFile(s, p, row, tracked)
  <2>1. Calm => row.stamp = disk[p].stamp
    BY <1>1, <1>3
  <2>2. ASSUME ~ overlap
        PROVE  /\ SameFile(row)
               /\ row.song \in DOMAIN songs /\ row.song \notin copied /\ songs'[row.song].path = p
                  => row.hash = songs'[row.song].hash
    <3>1. SameFile(row)
      BY <1>1, <1>2, <1>4, <2>2 DEF KnownInv
    <3>2. row.hash = disk[p].hash /\ p \in DOMAIN disk
      BY <1>1, <1>3, <2>2, <3>1 DEF SameFile
    <3>3. ASSUME row.song \in DOMAIN songs, row.song \notin copied, songs[row.song].path = p
          PROVE  row.hash = songs[row.song].hash
      <4>1. row.hash = songs[row.song].hash \/ Described(row.song)
        BY <1>1, <1>2, <1>4, <2>2, <3>3 DEF KnownInv
      <4> QED
        BY <3>2, <3>3, <4>1 DEF Described
    <3> QED
      BY <1>7, <3>1, <3>3
  <2> QED
    BY <1>7, <2>1, <2>2 DEF OfFile, Alike
<1> HIDE DEF row
<1> QED
  BY <1>1, <1>2, <1>3, <1>5, <1>8, <1>9, KeepsAll, UpsertStep

LEMMA HashStep ==
  ASSUME LibraryInv, NEW s \in Scanner, NEW p, Hash(s, p)
  PROVE  LibraryInv'
<1>1. /\ scan[s].at = "files" /\ p \in scan[s].todo /\ ~ Untouched(s, p)
      /\ UNCHANGED Around /\ UNCHANGED Rows
  BY DEF Hash, ScanFrame, Around, Rows
<1>2. Reading(s)
  BY <1>1 DEF Reading
<1>3. /\ Running(s) /\ TypeOK /\ (settled > 0 \/ settled = 0)
      /\ settled > 0 => /\ Calm /\ Agree(s, p) /\ p \in DOMAIN tracked
                        /\ tracked[p].stamp = disk[p].stamp
      /\ Calm => scan[s].seen[p].stamp = disk[p].stamp
  BY <1>1, <1>2, AtFile
<1>4. settled = 0
  BY <1>1, <1>3 DEF Untouched, Agree
<1>5. CASE p \in DOMAIN disk
  <2>1. ScanGoesTo(s, Working(s, "hashed", p, disk[p].hash, NoSong))
    BY <1>5 DEF Hash
  <2>2. disk[p].hash \in Audio /\ "hashed" \in OnFile
    BY <1>3, <1>5, RowFields DEF OnFile
  <2> QED
    BY <1>1, <1>2, <1>4, <2>1, <2>2, WorkingStep
<1>6. CASE p \notin DOMAIN disk
  BY <1>1, <1>3, <1>4, <1>6, EndStep DEF Hash
<1> QED
  BY <1>5, <1>6

(* What is known when a scan works on a file. *)
LEMMA OnItsFile ==
  ASSUME LibraryInv, NEW s \in Scanner, scan[s].at \in OnFile
  PROVE  /\ Reading(s) /\ Running(s) /\ settled = 0 /\ TypeOK
         /\ scan[s].path \in scan[s].todo /\ scan[s].hash \in Audio
         /\ scan[s].path \in Path /\ scan[s].path \in DOMAIN scan[s].seen
         /\ scan[s].seen[scan[s].path].stamp \in 0..writes
         /\ Calm \/ ~ overlap =>
              /\ DOMAIN scan[s].seen = DOMAIN disk /\ scan[s].path \in DOMAIN disk
              /\ scan[s].seen[scan[s].path].stamp = disk[scan[s].path].stamp
              /\ scan[s].hash = disk[scan[s].path].hash
         /\ DOMAIN songs \subseteq 1..born /\ DOMAIN songs \subseteq Nat
<1>1. Reading(s)
  BY DEF Reading
<1>2. scan[s].path \in scan[s].todo /\ scan[s].hash \in Audio
  BY DEF LibraryInv, ScansShape, ScanShape
<1>3. scan[s].at # "files"
  BY DEF OnFile
<1>4. TypeOK
  BY DEF LibraryInv
<1>5. DOMAIN songs \subseteq 1..born /\ DOMAIN songs \subseteq Nat
  BY <1>4 DEF TypeOK
<1> QED
  BY <1>1, <1>2, <1>3, <1>4, <1>5, AtFile
-----------------------------------------------------------------------------
LEMMA ResolveKnownStep ==
  ASSUME LibraryInv, NEW s \in Scanner, ResolveKnown(s)
  PROVE  LibraryInv'
<1> DEFINE p == scan[s].path
           row == scan[s].known[p]
           h == scan[s].hash
           new == Row(row.song, h, scan[s].seen[p].stamp)
<1>1. /\ scan[s].at = "hashed" /\ p \in DOMAIN scan[s].known
      /\ songs' = songs /\ born' = born /\ UNCHANGED Around
  BY DEF ResolveKnown, ScanFrame, Around
<1>2. scan[s].at \in OnFile
  BY <1>1 DEF OnFile
<1>3. /\ Reading(s) /\ settled = 0 /\ p \in scan[s].todo /\ h \in Audio /\ TypeOK
      /\ scan[s].seen[p].stamp \in 0..writes
      /\ Calm \/ ~ overlap =>
           /\ p \in DOMAIN disk /\ scan[s].seen[p].stamp = disk[p].stamp
           /\ h = disk[p].hash
  BY <1>2, OnItsFile
<1>4. row \in [song : 1..born \cup {NoSong}, hash : Audio, stamp : 0..writes]
  BY <1>1, <1>3, AtFile
<1>5. ScansInv /\ DiskInv
  BY DEF LibraryInv
<1>6. CASE h = row.hash /\ Upsert(s, p, new, tracked)
  <2>1. /\ new \in [song : 1..born \cup {NoSong}, hash : Audio, stamp : 0..writes]
        /\ new.song = row.song /\ new.hash = h /\ new.stamp = scan[s].seen[p].stamp
    BY <1>3, <1>4 DEF Row
  <2>2. Writes(p, new, tracked)
    BY <1>1, <1>3 DEF Writes, Alike, SongRow, TypeOK
  <2>3. ASSUME ~ overlap
        PROVE  /\ SameFile(new)
               /\ row.song \in DOMAIN songs /\ row.song \notin copied /\ songs[row.song].path = p
                  => h = songs[row.song].hash
    <3>1. SameFile(new)
      BY <1>3, <1>5, <2>1, <2>3 DEF DiskInv, SameFile
    <3>2. ASSUME row.song \in DOMAIN songs, row.song \notin copied, songs[row.song].path = p
          PROVE  h = songs[row.song].hash
      <4>1. row.hash = songs[row.song].hash \/ Described(row.song)
        BY <1>1, <1>3, <1>5, <2>3, <3>2 DEF ScansInv, KnownInv
      <4> QED
        BY <1>3, <1>6, <2>3, <3>2, <4>1 DEF Described
    <3> QED
      BY <3>1, <3>2
  <2> HIDE DEF new, row, p, h
  <2>4. OfFile(s, p, new, tracked)
    <3>1. Calm => new.stamp = disk[p].stamp
      BY <1>3, <2>1
    <3> QED
      BY <1>1, <1>3, <2>1, <2>3, <3>1 DEF OfFile
  <2> QED
    BY <1>1, <1>3, <1>6, <2>1, <2>2, <2>4, KeepsAll, UpsertStep
<1>7. ASSUME NEW at \in {"refresh", "import"}, ScanGoesTo(s, Working(s, at, p, h, NoSong)),
             UNCHANGED <<tracked, copied>>
      PROVE  LibraryInv'
  <2>1. at \in OnFile /\ at # "track"
    BY DEF OnFile
  <2>2. UNCHANGED Rows
    BY <1>1, <1>7 DEF Rows
  <2> HIDE DEF p, h
  <2> QED
    BY <1>1, <1>3, <1>7, <2>1, <2>2, WorkingStep
<1>8. \/ h = row.hash /\ Upsert(s, p, new, tracked)
      \/ /\ ScanGoesTo(s, Working(s, IF row.song \in DOMAIN songs THEN "refresh" ELSE "import",
                                  p, h, NoSong))
         /\ UNCHANGED <<tracked, copied>>
  BY DEF ResolveKnown
<1> HIDE DEF row, p, h, new
<1>9. (IF row.song \in DOMAIN songs THEN "refresh" ELSE "import") \in {"refresh", "import"}
  OBVIOUS
<1> QED
  BY <1>6, <1>7, <1>8, <1>9

LEMMA ResolveUnknownStep ==
  ASSUME LibraryInv, NEW s \in Scanner, ResolveUnknown(s)
  PROVE  LibraryInv'
<1> DEFINE p == scan[s].path
           h == scan[s].hash
           found == WithHash(h)
           i == Oldest(found)
           row == Row(i, h, scan[s].seen[p].stamp)
<1>1. /\ scan[s].at = "hashed" /\ p \notin DOMAIN scan[s].known
      /\ born' = born /\ UNCHANGED Around
  BY DEF ResolveUnknown, ScanFrame, Around
<1>2. scan[s].at \in OnFile
  BY <1>1 DEF OnFile
<1>3. /\ Reading(s) /\ settled = 0 /\ p \in scan[s].todo /\ h \in Audio /\ TypeOK
      /\ p \in Path /\ p \in DOMAIN scan[s].seen
      /\ scan[s].seen[p].stamp \in 0..writes
      /\ Calm \/ ~ overlap =>
           /\ p \in DOMAIN disk /\ scan[s].seen[p].stamp = disk[p].stamp
           /\ h = disk[p].hash
      /\ DOMAIN songs \subseteq 1..born /\ DOMAIN songs \subseteq Nat
  BY <1>2, OnItsFile
<1>4. DiskInv
  BY DEF LibraryInv
<1>5. CASE found = {}
  <2>1. ScanGoesTo(s, Working(s, "import", p, h, NoSong)) /\ UNCHANGED Rows
    BY <1>1, <1>5 DEF ResolveUnknown, Rows
  <2>2. "import" \in OnFile
    BY DEF OnFile
  <2> HIDE DEF p, h
  <2> QED
    BY <1>1, <1>3, <2>1, <2>2, WorkingStep
<1>6. CASE found # {}
  <2>1. i \in DOMAIN songs /\ songs[i].hash = h
    <3>1. found \subseteq Nat
      BY <1>3 DEF WithHash
    <3>2. i \in found
      <4> HIDE DEF found
      <4> QED
        BY <1>6, <3>1, OldestEffect
    <3> HIDE DEF i
    <3> QED
      BY <3>2 DEF WithHash
  <2>2. \/ /\ songs[i].path \notin DOMAIN scan[s].seen
           /\ songs' = [songs EXCEPT ![i].path = p, ![i].missing = FALSE]
           /\ Upsert(s, p, row, Without(tracked, {songs[i].path}))
        \/ songs' = songs /\ Upsert(s, p, row, tracked)
        \/ songs' = Present(i) /\ Upsert(s, p, row, tracked)
    BY <1>6 DEF ResolveUnknown
  <2> HIDE DEF i, found
  <2>3. /\ row \in [song : 1..born \cup {NoSong}, hash : Audio, stamp : 0..writes]
        /\ row.song = i /\ row.hash = h /\ row.stamp = scan[s].seen[p].stamp
    BY <1>3, <2>1 DEF Row
  <2> HIDE DEF row
  <2>4. \A j \in DOMAIN songs : songs[j] \in SongRow
    BY <1>3 DEF TypeOK, SongRow
  <2>5. ASSUME NEW rows, Keeps(s, rows), Upsert(s, p, row, rows),
               DOMAIN songs' = DOMAIN songs,
               \A j \in DOMAIN songs \ {i} : songs'[j] = songs[j],
               songs'[i] \in SongRow, songs'[i].hash = songs[i].hash,
               songs'[i].path \in {songs[i].path, p},
               songs'[i].path # songs[i].path => songs[i].path \notin DOMAIN rows
        PROVE  LibraryInv'
    <3>1. Writes(p, row, rows)
      <4>1. ~ overlap => songs'[i].hash = disk[p].hash
        BY <1>3, <2>1, <2>5
      <4> QED
        BY <2>1, <2>3, <2>4, <2>5, <4>1 DEF Writes
    <3>2. OfFile(s, p, row, rows)
      <4>1. ~ overlap => SameFile(row)
        BY <1>3, <1>4, <2>3 DEF DiskInv, SameFile
      <4> QED
        BY <1>3, <2>1, <2>3, <2>5, <4>1 DEF OfFile
    <3> HIDE DEF p, h
    <3> QED
      BY <1>1, <1>3, <2>1, <2>3, <2>5, <3>1, <3>2, UpsertStep
  <2>6. CASE /\ songs[i].path \notin DOMAIN scan[s].seen
             /\ songs' = [songs EXCEPT ![i].path = p, ![i].missing = FALSE]
             /\ Upsert(s, p, row, Without(tracked, {songs[i].path}))
    <3> DEFINE rows == Without(tracked, {songs[i].path})
    <3>1. /\ DOMAIN rows = DOMAIN tracked \ {songs[i].path}
          /\ \A q \in DOMAIN tracked \ {songs[i].path} : rows[q] = tracked[q]
      BY WithoutEffect
    <3>2. Upsert(s, p, row, rows)
      BY <2>6
    <3> HIDE DEF rows
    <3>3. Keeps(s, rows) /\ songs[i].path \notin DOMAIN rows
      BY <2>6, <3>1 DEF Keeps
    <3>4. /\ DOMAIN songs' = DOMAIN songs
          /\ \A j \in DOMAIN songs \ {i} : songs'[j] = songs[j]
          /\ songs'[i] \in SongRow
          /\ songs'[i].path = p /\ songs'[i].hash = songs[i].hash
      <4>1. p \in Path /\ songs' = Found(i, p)
        BY <1>3, <2>6 DEF Found
      <4>2. TypeOK /\ i \in DOMAIN songs
        BY <1>3, <2>1
      <4> HIDE DEF p, h
      <4> QED
        BY ONLY <4>1, <4>2, RelocateEffect
    <3> HIDE DEF p
    <3> QED
      BY <2>5, <3>2, <3>3, <3>4
  <2>7. CASE songs' = songs /\ Upsert(s, p, row, tracked)
    <3> HIDE DEF p
    <3> QED
      BY <2>1, <2>4, <2>5, <2>7, KeepsAll
  <2>8. CASE songs' = Present(i) /\ Upsert(s, p, row, tracked)
    <3>1. /\ DOMAIN songs' = DOMAIN songs
          /\ \A j \in DOMAIN songs \ {i} : songs'[j] = songs[j]
          /\ songs'[i] \in SongRow
          /\ songs'[i].path = songs[i].path /\ songs'[i].hash = songs[i].hash
      BY <1>3, <2>1, <2>8, PresentEffect
    <3> HIDE DEF p
    <3> QED
      BY <2>5, <2>8, <3>1, KeepsAll
  <2> QED
    BY <2>2, <2>6, <2>7, <2>8
<1> QED
  BY <1>5, <1>6
-----------------------------------------------------------------------------
LEMMA RefreshStep ==
  ASSUME LibraryInv, NEW s \in Scanner, Refresh(s)
  PROVE  LibraryInv'
<1> DEFINE p == scan[s].path
           i == scan[s].known[p].song
           row == Row(i, scan[s].hash, scan[s].seen[p].stamp)
<1>1. /\ scan[s].at = "refresh" /\ p \in DOMAIN disk
      /\ songs' = IF i \in DOMAIN songs THEN Anew(i, disk[p].hash) ELSE songs
      /\ Upsert(s, p, row, tracked)
      /\ born' = born /\ UNCHANGED Around
  BY DEF Refresh, ScanFrame, Around, Anew
<1>2. scan[s].at \in OnFile
  BY <1>1 DEF OnFile
<1>3. /\ Reading(s) /\ settled = 0 /\ p \in scan[s].todo /\ scan[s].hash \in Audio /\ TypeOK
      /\ scan[s].seen[p].stamp \in 0..writes
      /\ Calm \/ ~ overlap =>
           scan[s].seen[p].stamp = disk[p].stamp /\ scan[s].hash = disk[p].hash
  BY <1>2, OnItsFile
<1>4. p \in DOMAIN scan[s].known
  BY <1>1 DEF LibraryInv, ScansShape, ScanShape
<1>5. i \in 1..born \cup {NoSong}
  BY <1>3, <1>4, AtFile
<1>6. DiskInv
  BY DEF LibraryInv
<1>7. disk[p].hash \in Audio
  BY <1>1, <1>3, RowFields
<1> HIDE DEF i
<1>8. /\ row \in [song : 1..born \cup {NoSong}, hash : Audio, stamp : 0..writes]
      /\ row.song = i /\ row.hash = scan[s].hash /\ row.stamp = scan[s].seen[p].stamp
  BY <1>3, <1>5 DEF Row
<1> HIDE DEF row, p
<1>9. \A j \in DOMAIN songs : songs[j] \in SongRow
  BY <1>3 DEF TypeOK, SongRow
<1>10. /\ DOMAIN songs' = DOMAIN songs
       /\ \A j \in DOMAIN songs \ {i} : songs'[j] = songs[j]
       /\ i \in DOMAIN songs =>
            /\ songs'[i] \in SongRow
            /\ songs'[i].path = songs[i].path /\ songs'[i].hash = disk[p].hash
  <2>1. CASE i \in DOMAIN songs
    <3>1. songs' = Anew(i, disk[p].hash)
      BY <1>1, <2>1
    <3>2. TypeOK
      BY <1>3
    <3>3. /\ DOMAIN songs' = DOMAIN songs
          /\ \A j \in DOMAIN songs \ {i} : songs'[j] = songs[j]
          /\ songs'[i] \in SongRow
          /\ songs'[i].path = songs[i].path /\ songs'[i].hash = disk[p].hash
      BY <1>7, <2>1, <3>1, <3>2, DescribeEffect
    <3> QED
      BY <3>3
  <2>2. CASE i \notin DOMAIN songs
    BY <1>1, <2>2
  <2> QED
    BY <2>1, <2>2
<1>11. Writes(p, row, tracked)
  BY <1>8, <1>9, <1>10 DEF Writes
<1>12. OfFile(s, p, row, tracked)
  <2>1. ~ overlap => SameFile(row)
    BY <1>1, <1>3, <1>6, <1>8 DEF DiskInv, SameFile
  <2>2. Calm => row.stamp = disk[p].stamp
    BY <1>3, <1>8
  <2>3. ~ overlap /\ row.song \in DOMAIN songs => row.hash = songs'[row.song].hash
    BY <1>3, <1>8, <1>10
  <2> QED
    BY <1>3, <2>1, <2>2, <2>3 DEF OfFile
<1>13. row.song \notin DOMAIN songs => songs' = songs
  BY <1>1, <1>8
<1> QED
  BY <1>1, <1>3, <1>8, <1>11, <1>12, <1>13, KeepsAll, UpsertStep

LEMMA TrackStep ==
  ASSUME LibraryInv, NEW s \in Scanner, Track(s)
  PROVE  LibraryInv'
<1> DEFINE p == scan[s].path
           i == scan[s].song
           row == Row(i, disk[p].hash, disk[p].stamp)
<1>1. /\ scan[s].at = "track" /\ p \in DOMAIN disk
      /\ songs' = songs /\ Upsert(s, p, row, tracked)
      /\ born' = born /\ UNCHANGED Around
  BY DEF Track, ScanFrame, Around
<1>2. scan[s].at \in OnFile
  BY <1>1 DEF OnFile
<1>3. Reading(s) /\ settled = 0 /\ p \in scan[s].todo /\ TypeOK
  BY <1>2, OnItsFile
<1>4. i \in 1..born
  BY <1>1 DEF LibraryInv, ScansShape, ScanShape
<1>5. DiskInv /\ KnownInv(s)
  BY DEF LibraryInv, ScansInv
<1>6. disk[p].hash \in Audio /\ disk[p].stamp \in 0..writes
  BY <1>1, <1>3, RowFields
<1>7. /\ row \in [song : 1..born \cup {NoSong}, hash : Audio, stamp : 0..writes]
      /\ row.song = i /\ row.hash = disk[p].hash /\ row.stamp = disk[p].stamp
  BY <1>4, <1>6 DEF Row
<1> HIDE DEF row
<1>8. Writes(p, row, tracked)
  BY <1>1, <1>3 DEF Writes, Alike, TypeOK, SongRow
<1>9. OfFile(s, p, row, tracked)
  <2>1. SameFile(row)
    BY <1>1, <1>5, <1>7 DEF DiskInv, SameFile
  <2>2. ASSUME ~ overlap, i \in DOMAIN songs, i \notin copied, songs[i].path = p
        PROVE  row.hash = songs[i].hash
    <3>1. Described(i)
      BY <1>1, <1>5, <2>2 DEF KnownInv
    <3> QED
      BY <1>1, <1>7, <2>2, <3>1 DEF Described
  <2> HIDE DEF i, p
  <2> QED
    BY <1>1, <1>3, <1>7, <2>1, <2>2 DEF OfFile
<1> HIDE DEF i, p
<1> QED
  BY <1>1, <1>3, <1>7, <1>8, <1>9, KeepsAll, UpsertStep

LEMMA ImportCheckStep ==
  ASSUME LibraryInv, NEW s \in Scanner, ImportCheck(s)
  PROVE  LibraryInv'
<1> DEFINE p == scan[s].path
           h == disk[p].hash
           found == WithHash(h)
           i == Oldest(found)
<1>1. /\ scan[s].at = "import" /\ p \in DOMAIN disk
      /\ UNCHANGED Rows /\ UNCHANGED Around
  BY DEF ImportCheck, ScanFrame, Around, Rows
<1>2. scan[s].at \in OnFile
  BY <1>1 DEF OnFile
<1>3. /\ Reading(s) /\ settled = 0 /\ p \in scan[s].todo /\ TypeOK
      /\ DOMAIN songs \subseteq 1..born /\ DOMAIN songs \subseteq Nat
  BY <1>2, OnItsFile
<1>4. h \in Audio
  BY <1>1, <1>3, RowFields
<1>5. CASE found = {}
  <2>1. ScanGoesTo(s, Working(s, "insert", p, h, NoSong)) /\ "insert" \in OnFile
    BY <1>5 DEF ImportCheck, OnFile
  <2> QED
    BY <1>1, <1>3, <1>4, <2>1, WorkingStep
<1>6. CASE found # {}
  <2>1. ScanGoesTo(s, Working(s, "track", p, h, i)) /\ "track" \in OnFile
    BY <1>6 DEF ImportCheck, OnFile
  <2>2. i \in DOMAIN songs /\ songs[i].hash = h
    <3>1. found \subseteq Nat
      BY <1>3 DEF WithHash
    <3>2. i \in found
      <4> HIDE DEF found
      <4> QED
        BY <1>6, <3>1, OldestEffect
    <3> HIDE DEF i
    <3> QED
      BY <3>2 DEF WithHash
  <2> HIDE DEF i
  <2>3. songs[i].path = p => Described(i)
    BY <2>2 DEF Described
  <2> HIDE DEF p, h
  <2> QED
    BY <1>1, <1>3, <1>4, <2>1, <2>2, <2>3, WorkingStep DEF h
<1> QED
  BY <1>5, <1>6

LEMMA FileVanishedStep ==
  ASSUME LibraryInv, NEW s \in Scanner, FileVanished(s)
  PROVE  LibraryInv'
<1>1. scan[s].at \in OnFile
  BY DEF FileVanished, OnFile
<1>2. Running(s) /\ settled = 0
  BY <1>1, OnItsFile
<1> QED
  BY <1>2, EndStep DEF FileVanished, Abort, Around, Rows

(* A new song is nobody's yet. *)
LEMMA InsertEffect ==
  ASSUME TypeOK, CountShape, NEW p \in Path, NEW h \in Audio, Insert(p, h)
  PROVE  /\ born' = born + 1 /\ born' \notin DOMAIN songs
         /\ DOMAIN songs' = DOMAIN songs \cup {born'}
         /\ \A i \in DOMAIN songs : songs'[i] = songs[i]
         /\ songs'[born'] \in SongRow
         /\ songs'[born'].path = p /\ songs'[born'].hash = h
         /\ \A q \in DOMAIN tracked : tracked[q].song # born'
         /\ DOMAIN songs' \subseteq 1..born'
<1>1. /\ born' = born + 1 /\ born' \notin DOMAIN songs
      /\ born' \in 1..born' /\ 1..born \subseteq 1..born'
  BY DEF Insert, TypeOK, CountShape
<1> DEFINE new == [path |-> p, hash |-> h, missing |-> FALSE]
<1>2. new \in SongRow /\ new.path = p /\ new.hash = h
  BY DEF SongRow
<1> HIDE DEF new
<1>3. /\ DOMAIN songs' = DOMAIN songs \cup {born'} /\ songs'[born'] = new
      /\ \A i \in DOMAIN songs : songs'[i] = songs[i]
  BY <1>1 DEF Insert, With, new
<1>4. \A q \in DOMAIN tracked : tracked[q].song # born'
  <2>1. born' \in Nat
    BY <1>1
  <2> QED
    BY <1>1, <2>1, LibraryAssumption DEF TypeOK
<1> QED
  BY <1>1, <1>2, <1>3, <1>4 DEF TypeOK

LEMMA InsertTypes ==
  ASSUME TypeOK, CountShape, NEW p \in Path, NEW h \in Audio, Insert(p, h),
         UNCHANGED <<disk, fresh, tracked, writes>>
  PROVE  TypeOK'
<1>1. /\ DOMAIN songs' = DOMAIN songs \cup {born'}
      /\ \A i \in DOMAIN songs : songs'[i] = songs[i]
      /\ songs'[born'] \in SongRow /\ DOMAIN songs' \subseteq 1..born'
  BY InsertEffect
<1>2. \A i \in DOMAIN songs' : songs'[i] \in [path : Path, hash : Audio, missing : BOOLEAN]
  BY <1>1 DEF TypeOK, SongRow
<1>3. \A q \in DOMAIN tracked :
        tracked[q] \in [song : DOMAIN songs' \cup {NoSong}, hash : Audio, stamp : 0..writes]
  BY <1>1 DEF TypeOK
<1> QED
  BY <1>1, <1>2, <1>3 DEF TypeOK

LEMMA InsertRows ==
  ASSUME TypeOK, CountShape, CopyInv, RowInv, NEW p \in Path, NEW h \in Audio, Insert(p, h),
         UNCHANGED <<disk, tracked, copied>>, overlap' = FALSE => overlap = FALSE,
         overlap' \in BOOLEAN, overlap \in BOOLEAN
  PROVE  CopyInv' /\ RowInv' /\ \A i \in DOMAIN songs' : Own(i)' => i \in DOMAIN songs /\ Own(i)
<1>1. /\ DOMAIN songs' = DOMAIN songs \cup {born'}
      /\ \A i \in DOMAIN songs : songs'[i] = songs[i]
      /\ \A q \in DOMAIN tracked : tracked[q].song # born'
  BY InsertEffect
<1>2. \A i \in DOMAIN songs' : Own(i)' => i \in DOMAIN songs /\ Own(i)
  BY <1>1 DEF Own
<1>3. CopyInv'
  BY <1>1 DEF CopyInv
<1>4. RowInv'
  BY <1>1, <1>2 DEF RowInv, SameFile
<1> QED
  BY <1>2, <1>3, <1>4
-----------------------------------------------------------------------------
LEMMA ImportInsertStep ==
  ASSUME LibraryInv, NEW s \in Scanner, ImportInsert(s)
  PROVE  LibraryInv'
<1> DEFINE p == scan[s].path
           h == scan[s].hash
           r == Working(s, "track", p, h, born')
<1>0. /\ TypeOK /\ CountShape /\ ScansShape /\ ClientShape
      /\ QuietInv /\ ScansInv /\ NothingEscapesTheScan /\ Flagged
      /\ DiskInv /\ CopyInv /\ RowInv
  BY DEF LibraryInv
<1>00. ScanShape(s) /\ ListInv(s) /\ WorkInv(s) /\ FlagInv(s) /\ KnownInv(s)
  BY <1>0 DEF ScansShape, ScansInv
<1>1. /\ scan[s].at = "insert" /\ Insert(p, h) /\ ScanGoesTo(s, r)
      /\ UNCHANGED Around /\ UNCHANGED <<tracked, copied>>
  BY DEF ImportInsert, ScanFrame, Around
<1>2. scan[s].at \in OnFile
  BY <1>1 DEF OnFile
<1>3. /\ Reading(s) /\ Running(s) /\ settled = 0 /\ p \in scan[s].todo /\ h \in Audio /\ p \in Path
      /\ Calm \/ ~ overlap => p \in DOMAIN disk /\ h = disk[p].hash
  BY <1>2, OnItsFile
<1>4. /\ r.at = "track" /\ r.seen = scan[s].seen /\ r.known = scan[s].known
      /\ r.todo = scan[s].todo /\ r.gone = scan[s].gone
      /\ r.path = p /\ r.hash = h /\ r.song = born'
  BY DEF Working
<1> HIDE DEF r
<1>5. /\ DOMAIN scan' = Scanner /\ scan'[s] = r
      /\ \A t \in Scanner \ {s} : scan'[t] = scan[t]
  BY <1>0, <1>1, ScanEffect
<1> HIDE DEF p, h
<1>6. /\ born' = born + 1 /\ born' \notin DOMAIN songs
      /\ DOMAIN songs' = DOMAIN songs \cup {born'}
      /\ \A i \in DOMAIN songs : songs'[i] = songs[i]
      /\ songs'[born'].path = p /\ songs'[born'].hash = h
      /\ DOMAIN songs \subseteq 1..born /\ born \in Nat
  BY <1>0, <1>1, <1>3, InsertEffect DEF TypeOK, CountShape
<1> USE DEF Around
<1>7. TypeOK'
  BY <1>0, <1>1, <1>3, InsertTypes
<1>8. CopyInv' /\ RowInv' /\ \A i \in DOMAIN songs' : Own(i)' => i \in DOMAIN songs /\ Own(i)
  BY <1>0, <1>1, <1>3, InsertRows DEF CountShape
<1>9. CountShape' /\ ClientShape'
  BY <1>0, <1>1, <1>6 DEF CountShape, ClientShape, RequestShape
<1>10. /\ Reading(s)'
       /\ \A t \in Scanner : (Running(t)' <=> Running(t)) /\ (Reading(t)' <=> Reading(t))
  BY <1>3, <1>4, <1>5 DEF Reading, Running, OnFile
<1>11. Calm' <=> Calm
  BY <1>0, <1>1, <1>10 DEF Calm, QuietInv
<1>12. 1..born \subseteq 1..born' /\ born' \in 1..born' /\ born' \notin 1..born \cup {NoSong}
  BY <1>6, LibraryAssumption
<1>13. ScansShape'
  <2>1. ASSUME NEW t \in Scanner \ {s} PROVE ScanShape(t)'
    <3>1. ScanShape(t) /\ scan'[t] = scan[t]
      BY <1>0, <1>5 DEF ScansShape
    <3>2. Reading(t) => \A q \in DOMAIN scan[t].known :
            scan[t].known[q] \in [song : 1..born' \cup {NoSong}, hash : Audio, stamp : 0..writes]
      BY <1>12, <3>1 DEF ScanShape
    <3> QED
      BY <1>1, <1>12, <3>1, <3>2 DEF ScanShape, Running, Reading
  <2>2. ScanShape(s)'
    <3>1. \A q \in DOMAIN scan[s].known :
            scan[s].known[q] \in [song : 1..born' \cup {NoSong}, hash : Audio, stamp : 0..writes]
      BY <1>00, <1>3, <1>12 DEF ScanShape
    <3> QED
      BY <1>00, <1>1, <1>3, <1>4, <1>5, <1>10, <1>12, <3>1 DEF ScanShape, OnFile
  <2> QED
    BY <1>5, <2>1, <2>2 DEF ScansShape
<1>14. QuietInv'
  BY <1>0, <1>1, <1>10, <1>11 DEF QuietInv
<1>15. ASSUME NEW t \in Scanner
       PROVE  /\ scan'[t].seen = scan[t].seen /\ scan'[t].known = scan[t].known
              /\ scan'[t].todo = scan[t].todo /\ scan'[t].gone = scan[t].gone
              /\ scan'[t] = scan[t] \/ (t = s /\ scan'[t].at = "track")
  BY <1>4, <1>5
<1>16. ASSUME NEW t \in Scanner PROVE ListInv(t)' /\ IdleWork(t)' /\ WorkInv(t)' /\ FlagInv(t)'
  <2>1. ListInv(t) /\ WorkInv(t) /\ FlagInv(t)
    BY <1>0 DEF ScansInv
  <2>2. ListInv(t)'
    <3>1. scan'[t].at \in OnFile /\ (Calm \/ ~ overlap) => scan'[t].hash = disk[scan'[t].path].hash
      <4>1. CASE t = s
        BY <1>3, <1>4, <1>5, <4>1
      <4>2. CASE t # s
        BY <1>5, <1>10, <2>1, <4>2 DEF ListInv, Running, OnFile
      <4> QED
        BY <4>1, <4>2
    <3> QED
      BY <1>1, <1>10, <1>11, <1>15, <2>1, <3>1 DEF ListInv
  <2>3. IdleWork(t)'
    BY <1>1, <1>3 DEF IdleWork
  <2>4. WorkInv(t)'
    BY <1>1, <1>10, <1>15, <2>1 DEF WorkInv, Agree
  <2>5. FlagInv(t)'
    <3> SUFFICES ASSUME t \in quiet, Reading(t), NEW i \in DOMAIN songs', Own(i)',
                        songs'[i].path \notin DOMAIN disk
                 PROVE  songs'[i].path \in scan[t].gone \/ (songs'[i].missing /\ scan[t].todo = {})
      BY <1>1, <1>3, <1>10, <1>15 DEF FlagInv
    <3>1. i \in DOMAIN songs /\ Own(i) /\ songs'[i] = songs[i]
      BY <1>6, <1>8
    <3> QED
      BY <2>1, <3>1 DEF FlagInv
  <2> QED
    BY <2>2, <2>3, <2>4, <2>5
<1>17. ASSUME NEW t \in Scanner, ~ overlap PROVE KnownInv(t)'
  <2>1. KnownInv(t) /\ ScanShape(t)
    BY <1>0 DEF ScansInv, ScansShape
  <2>2. \A i \in DOMAIN songs : Described(i)' <=> Described(i)
    BY <1>1, <1>6 DEF Described
  <2>3. Reading(t)' => \A q \in DOMAIN scan'[t].known :
          /\ SameFile(scan'[t].known[q])
          /\ \A i \in DOMAIN songs' :
              q \in scan'[t].todo /\ scan'[t].known[q].song = i /\ songs'[i].path = q
              /\ i \notin copied'
              => scan'[t].known[q].hash = songs'[i].hash \/ Described(i)'
    <3> SUFFICES ASSUME Reading(t), NEW q \in DOMAIN scan[t].known
                 PROVE  /\ SameFile(scan[t].known[q])
                        /\ \A i \in DOMAIN songs' :
                            q \in scan[t].todo /\ scan[t].known[q].song = i /\ songs'[i].path = q
                            /\ i \notin copied
                            => scan[t].known[q].hash = songs'[i].hash \/ Described(i)'
      BY <1>1, <1>10, <1>15
    <3>1. scan[t].known[q].song # born'
      BY <1>12, <2>1 DEF ScanShape
    <3> QED
      BY <1>6, <1>17, <2>1, <2>2, <3>1 DEF KnownInv
  <2>4. scan'[t].at = "track" => \A i \in DOMAIN songs' :
          scan'[t].song = i /\ i \notin copied' /\ songs'[i].path = scan'[t].path => Described(i)'
    <3>1. CASE t = s
      <4>1. disk'[p].hash = songs'[born'].hash /\ songs'[born'].path = p
        BY <1>1, <1>3, <1>6, <1>17
      <4> QED
        BY <1>4, <1>5, <3>1, <4>1 DEF Described
    <3>2. CASE t # s
      <4>1. scan'[t] = scan[t]
        BY <1>5, <3>2
      <4>2. scan[t].at = "track" => scan[t].song # born'
        BY <1>12, <2>1 DEF ScanShape
      <4> QED
        BY <1>1, <1>6, <1>17, <2>1, <2>2, <4>1, <4>2 DEF KnownInv
    <3> QED
      BY <3>1, <3>2
  <2> QED
    BY <1>1, <2>3, <2>4 DEF KnownInv, SameFile
<1>18. ScansInv'
  <2>1. \A t \in Scanner : KnownInv(t)'
    BY <1>1, <1>17 DEF KnownInv
  <2> QED
    BY <1>16, <2>1 DEF ScansInv
<1>19. NothingEscapesTheScan' /\ Flagged' /\ DiskInv'
  BY <1>0, <1>1, <1>3 DEF NothingEscapesTheScan, Flagged, DiskInv, SameFile
<1> QED
  BY <1>7, <1>8, <1>9, <1>13, <1>14, <1>18, <1>19 DEF LibraryInv

LEMMA ScanStepKeeps ==
  ASSUME LibraryInv, NEW s \in Scanner, ScanStep(s)
  PROVE  LibraryInv'
BY StartScanStep, ReadKnownStep, ScanUntouchedStep, ScanUnstableStep, HashStep, GoneStep,
   ResolveKnownStep, ResolveUnknownStep, RefreshStep, ImportCheckStep, ImportInsertStep,
   TrackStep, FileVanishedStep, FinishScanStep DEF ScanStep

(* What is remembered about the scans when the rows and files are as before. *)
LEMMA NothingChanges ==
  ASSUME LibraryInv, fresh' \subseteq fresh,
         UNCHANGED <<disk, songs, tracked, scan, client, born, writes,
                     quiet, settled, overlap, copied>>
  PROVE  LibraryInv'
<1>0. /\ TypeOK /\ CountShape /\ ScansShape /\ ClientShape
      /\ QuietInv /\ ScansInv /\ NothingEscapesTheScan /\ Flagged
      /\ DiskInv /\ CopyInv /\ RowInv
  BY DEF LibraryInv
<1>1. TypeOK' /\ CountShape' /\ ClientShape'
  BY <1>0 DEF TypeOK, CountShape, ClientShape, RequestShape
<1>2. ScansShape'
  BY <1>0 DEF ScansShape, ScanShape, Running, Reading
<1>3. Calm' <=> Calm
  BY DEF Calm, Running
<1>4. QuietInv'
  BY <1>0, <1>3 DEF QuietInv, Running
<1>5. ScansInv'
  <2>1. ASSUME NEW t \in Scanner
        PROVE  (ListInv(t) /\ WorkInv(t) /\ FlagInv(t) /\ IdleWork(t) /\ KnownInv(t))'
    <3>1. ListInv(t) /\ WorkInv(t) /\ FlagInv(t) /\ IdleWork(t) /\ KnownInv(t)
      BY <1>0 DEF ScansInv
    <3>2. ListInv(t)'
      BY <1>3, <3>1 DEF ListInv, Running
    <3>3. WorkInv(t)' /\ FlagInv(t)' /\ IdleWork(t)'
      BY <3>1 DEF WorkInv, FlagInv, IdleWork, Reading, Agree, Own
    <3>4. KnownInv(t)'
      BY <3>1 DEF KnownInv, Reading, SameFile, Described
    <3> QED
      BY <3>2, <3>3, <3>4
  <2> QED
    BY <2>1 DEF ScansInv
<1>6. NothingEscapesTheScan' /\ Flagged'
  BY <1>0 DEF NothingEscapesTheScan, Flagged, Own, ScansAtRest
<1>7. DiskInv' /\ CopyInv' /\ RowInv'
  BY <1>0 DEF DiskInv, CopyInv, RowInv, SameFile, Own
<1> QED
  BY <1>1, <1>2, <1>4, <1>5, <1>6, <1>7 DEF LibraryInv
-----------------------------------------------------------------------------
(* Somebody else acts: nothing is promised of the scans that are under way, *)
(* and of no scan any more once one was disturbed.                         *)
AllIdle == \A s \in Scanner : scan'[s].at = "idle"

LEMMA Disturbed ==
  ASSUME LibraryInv, Interfere, scan' = scan \/ AllIdle,
         TypeOK', CountShape', ScansShape', ClientShape', DiskInv', CopyInv', RowInv'
  PROVE  LibraryInv'
<1>1. quiet' = {} /\ settled' = 0 /\ (~ overlap' => AllIdle)
  BY DEF Interfere, AllIdle
<1>2. ~ Calm'
  BY <1>1 DEF Calm
<1>3. QuietInv'
  BY <1>1, <1>2 DEF QuietInv
<1>4. ASSUME NEW t \in Scanner
      PROVE  (ListInv(t) /\ WorkInv(t) /\ FlagInv(t) /\ IdleWork(t) /\ KnownInv(t))'
  <2>1. ListInv(t)'
    BY <1>1, <1>2 DEF ListInv, Running, AllIdle
  <2>2. (WorkInv(t) /\ FlagInv(t) /\ IdleWork(t))'
    BY <1>1 DEF WorkInv, FlagInv, IdleWork
  <2>3. KnownInv(t)'
    BY <1>1 DEF KnownInv, Reading, OnFile, AllIdle
  <2> QED
    BY <2>1, <2>2, <2>3
<1>5. NothingEscapesTheScan' /\ Flagged'
  BY <1>1 DEF NothingEscapesTheScan, Flagged
<1> QED
  BY <1>3, <1>4, <1>5 DEF LibraryInv, ScansInv

LEMMA DisturbEffect ==
  ASSUME CountShape, Disturb
  PROVE  /\ overlap' \in BOOLEAN /\ settled' \in 0..2 /\ copied' = copied
         /\ ~ overlap' => ~ overlap
BY DEF CountShape, Disturb, Interfere

LEMMA ScansKept ==
  ASSUME ScansShape, CountShape, scan' = scan, born' \in {born, born + 1},
         writes' \in {writes, writes + 1}
  PROVE  ScansShape'
<1>1. 1..born \subseteq 1..born' /\ 0..writes \subseteq 0..writes'
  BY DEF CountShape
<1>2. ASSUME NEW s \in Scanner PROVE ScanShape(s)'
  <2>1. ScanShape(s)
    BY DEF ScansShape
  <2>2. Reading(s) => \A p \in DOMAIN scan[s].known :
          scan[s].known[p] \in [song : 1..born' \cup {NoSong}, hash : Audio, stamp : 0..writes']
    <3> SUFFICES ASSUME Reading(s), NEW p \in DOMAIN scan[s].known
                 PROVE  scan[s].known[p]
                          \in [song : 1..born' \cup {NoSong}, hash : Audio, stamp : 0..writes']
      OBVIOUS
    <3>1. scan[s].known[p] \in [song : 1..born \cup {NoSong}, hash : Audio, stamp : 0..writes]
      BY <2>1 DEF ScanShape
    <3> QED
      BY <1>1, <3>1
  <2> QED
    BY <1>1, <2>1, <2>2 DEF ScanShape, Running, Reading
<1> QED
  BY <1>2 DEF ScansShape

LEMMA ClientKept ==
  ASSUME ClientShape, NEW c \in Client, NEW r, ClientGoesTo(c, r),
         r.at \in {"store", "import", "insert"} => r.path \in Path /\ r.hash \in Audio,
         r.at \in {"move", "moved"} => r.path \in Path /\ r.to \in Path
  PROVE  ClientShape'
<1>1. /\ DOMAIN client' = Client /\ client'[c] = r
      /\ \A d \in Client \ {c} : client'[d] = client[d]
  BY ClientEffect
<1> QED
  BY <1>1 DEF ClientShape, RequestShape

(* Rows and files only go, or forget their song. *)
LEMMA RowsShrink ==
  ASSUME LibraryInv, Disturb, scan' = scan \/ AllIdle, ScansShape', ClientShape',
         born' = born, writes' = writes,
         DOMAIN disk' \subseteq DOMAIN disk, \A p \in DOMAIN disk' : disk'[p] = disk[p],
         fresh' \subseteq DOMAIN disk',
         DOMAIN songs' \subseteq DOMAIN songs, \A i \in DOMAIN songs' : songs'[i] = songs[i],
         DOMAIN tracked' \subseteq DOMAIN tracked,
         \A p \in DOMAIN tracked' :
            /\ tracked'[p] \in [song : DOMAIN songs' \cup {NoSong}, hash : Audio, stamp : 0..writes]
            /\ tracked'[p].song \in {tracked[p].song, NoSong}
            /\ tracked'[p].hash = tracked[p].hash /\ tracked'[p].stamp = tracked[p].stamp
  PROVE  LibraryInv'
<1>0. TypeOK /\ CountShape /\ DiskInv /\ CopyInv /\ RowInv
  BY DEF LibraryInv
<1>1. /\ overlap' \in BOOLEAN /\ settled' \in 0..2 /\ copied' = copied
      /\ ~ overlap' => ~ overlap
  BY <1>0, DisturbEffect
<1>2. CountShape'
  BY <1>0, <1>1 DEF CountShape
<1>3. TypeOK'
  BY <1>0 DEF TypeOK
<1>4. \A i \in DOMAIN songs' : i # NoSong
  BY <1>0, LibraryAssumption DEF TypeOK
<1>5. DiskInv'
  BY <1>0 DEF DiskInv, SameFile
<1>6. CopyInv'
  BY <1>0, <1>1, <1>4 DEF CopyInv
<1>7. RowInv'
  <2>1. \A i \in DOMAIN songs' : Own(i)' => Own(i)
    BY <1>4 DEF Own
  <2>2. ASSUME ~ overlap', NEW p \in DOMAIN tracked', NEW q \in DOMAIN disk',
               disk'[q].stamp = tracked'[p].stamp
        PROVE  disk'[q].hash = tracked'[p].hash
    BY <1>0, <1>1, <2>2 DEF RowInv, SameFile
  <2>3. ASSUME ~ overlap', NEW i \in DOMAIN songs', Own(i)', i \notin copied'
        PROVE  tracked'[songs'[i].path].hash = songs'[i].hash
    <3>1. Own(i) /\ songs[i].path \in DOMAIN tracked'
      BY <2>1, <2>3 DEF Own
    <3> QED
      BY <1>0, <1>1, <2>3, <3>1 DEF RowInv
  <2> QED
    BY <2>2, <2>3 DEF RowInv, SameFile
<1> QED
  BY <1>2, <1>3, <1>5, <1>6, <1>7, Disturbed DEF Disturb

LEMMA NothingMoves ==
  ASSUME LibraryInv, Disturb, ClientShape',
         UNCHANGED <<disk, fresh, songs, tracked, scan, born, writes>>
  PROVE  LibraryInv'
<1>0. TypeOK /\ CountShape /\ ScansShape
  BY DEF LibraryInv
<1>1. ScansShape'
  BY <1>0, ScansKept
<1>2. \A p \in DOMAIN tracked :
        /\ tracked[p] \in [song : DOMAIN songs \cup {NoSong}, hash : Audio, stamp : 0..writes]
        /\ tracked[p].song \in {tracked[p].song, NoSong}
  BY <1>0 DEF TypeOK
<1>3. fresh \subseteq DOMAIN disk
  BY <1>0 DEF TypeOK
<1> QED
  BY <1>1, <1>2, <1>3, RowsShrink

(* Files change places or one is written, and no row. *)
Here(p) == \E q \in DOMAIN disk : disk'[p] = disk[q]

LEMMA FilesChange ==
  ASSUME LibraryInv, Disturb, ClientShape', UNCHANGED <<songs, tracked, scan, born>>,
         writes' \in {writes, writes + 1},
         DOMAIN disk' \subseteq Path, fresh' \subseteq DOMAIN disk',
         \A p \in DOMAIN disk' :
            \/ Here(p)
            \/ /\ writes' = writes + 1
               /\ disk'[p] \in [hash : Audio, stamp : {writes + 1}]
               /\ \A q \in DOMAIN disk' \ {p} : Here(q)
  PROVE  LibraryInv'
<1>0. TypeOK /\ CountShape /\ ScansShape /\ DiskInv /\ CopyInv /\ RowInv
  BY DEF LibraryInv
<1>1. /\ overlap' \in BOOLEAN /\ settled' \in 0..2 /\ copied' = copied
      /\ ~ overlap' => ~ overlap
  BY <1>0, DisturbEffect
<1>2. ScansShape' /\ CountShape'
  BY <1>0, <1>1, ScansKept DEF CountShape
<1>3. 0..writes \subseteq 0..writes' /\ writes + 1 \notin 0..writes
      /\ (writes' = writes + 1 => writes + 1 \in 0..writes')
  BY <1>0 DEF CountShape
<1>4. TypeOK'
  <2>1. ASSUME NEW p \in DOMAIN disk' PROVE disk'[p] \in [hash : Audio, stamp : 0..writes']
    <3>1. CASE Here(p)
      BY <1>0, <1>3, <3>1 DEF Here, TypeOK
    <3>2. CASE ~ Here(p)
      BY <1>3, <3>2
    <3> QED
      BY <3>1, <3>2
  <2>2. ASSUME NEW p \in DOMAIN tracked
        PROVE  tracked[p] \in [song : DOMAIN songs \cup {NoSong}, hash : Audio, stamp : 0..writes']
    BY <1>0, <1>3 DEF TypeOK
  <2>3. /\ DOMAIN songs \subseteq 1..born /\ DOMAIN tracked \subseteq Path
        /\ \A i \in DOMAIN songs : songs[i] \in [path : Path, hash : Audio, missing : BOOLEAN]
    BY <1>0 DEF TypeOK
  <2> QED
    BY <2>1, <2>2, <2>3 DEF TypeOK
<1>5. ASSUME NEW x, x.stamp \in 0..writes, SameFile(x) PROVE SameFile(x)'
  <2>1. \A p \in DOMAIN disk' : ~ Here(p) => disk'[p].stamp = writes + 1
    OBVIOUS
  <2> QED
    BY <1>3, <1>5, <2>1 DEF SameFile, Here
<1>6. DiskInv'
  <2> SUFFICES ASSUME NEW p \in DOMAIN disk', NEW q \in DOMAIN disk',
                      disk'[p].stamp = disk'[q].stamp
               PROVE  disk'[p].hash = disk'[q].hash
    BY DEF DiskInv, SameFile
  <2>1. \A u \in DOMAIN disk : disk[u].stamp \in 0..writes
    BY <1>0, RowFields
  <2>2. CASE Here(p) /\ Here(q)
    BY <1>0, <2>2 DEF Here, DiskInv, SameFile
  <2>3. CASE ~ Here(p) \/ ~ Here(q)
    BY <1>3, <2>1, <2>3 DEF Here
  <2> QED
    BY <2>2, <2>3
<1>7. CopyInv'
  BY <1>0, <1>1 DEF CopyInv
<1>8. RowInv'
  <2>1. \A p \in DOMAIN tracked : tracked[p].stamp \in 0..writes
    BY <1>0, RowFields
  <2>2. ASSUME ~ overlap, NEW p \in DOMAIN tracked PROVE SameFile(tracked[p])'
    <3>1. SameFile(tracked[p])
      BY <1>0, <2>2 DEF RowInv
    <3>2. tracked' = tracked
      OBVIOUS
    <3> QED
      BY <1>5, <2>1, <3>1, <3>2 DEF SameFile
  <2> QED
    BY <1>0, <1>1, <2>2 DEF RowInv, Own
<1> QED
  BY <1>2, <1>4, <1>6, <1>7, <1>8, Disturbed DEF Disturb
-----------------------------------------------------------------------------
(* The requests of the panel. *)
LEMMA RequestStep ==
  ASSUME LibraryInv, Disturb, NEW c \in Client, NEW r, Request(c, r),
         r.at \in {"store", "import", "insert"} => r.path \in Path /\ r.hash \in Audio,
         r.at \in {"move", "moved"} => r.path \in Path /\ r.to \in Path
  PROVE  LibraryInv'
<1>1. ClientShape'
  BY ClientKept DEF Request, LibraryInv
<1> QED
  BY <1>1, NothingMoves DEF Request

LEMMA AskRequestStep ==
  ASSUME LibraryInv, Disturb, NEW c \in Client,
         AskUpload(c) \/ AskDelete(c) \/ AskDeleteFile(c) \/ AskPurge(c) \/ AskMove(c)
  PROVE  LibraryInv'
<1>1. CASE AskUpload(c)
  <2>1. PICK p \in Path, a \in Audio, force \in BOOLEAN : Request(c, Upload("store", p, a, force))
    BY <1>1 DEF AskUpload
  <2>2. /\ Upload("store", p, a, force).at = "store"
        /\ Upload("store", p, a, force).path = p /\ Upload("store", p, a, force).hash = a
    BY DEF Upload
  <2> QED
    BY <2>1, <2>2, RequestStep
<1>2. CASE AskDelete(c)
  <2>1. PICK i \in DOMAIN songs :
          Request(c, [at |-> "delete", rows |-> [j \in {i} |-> songs[j].path]])
    BY <1>2 DEF AskDelete
  <2> DEFINE r == [at |-> "delete", rows |-> [j \in {i} |-> songs[j].path]]
  <2>2. r.at = "delete" /\ Request(c, r)
    BY <2>1
  <2> HIDE DEF r
  <2> QED
    BY <2>2, RequestStep
<1>3. CASE AskDeleteFile(c)
  <2>1. PICK p \in Path :
          Request(c, [at |-> "delete_file", path |-> p,
                      ids |-> {i \in DOMAIN songs : songs[i].path = p}])
    BY <1>3 DEF AskDeleteFile
  <2> DEFINE r == [at |-> "delete_file", path |-> p,
                   ids |-> {i \in DOMAIN songs : songs[i].path = p}]
  <2>2. r.at = "delete_file" /\ Request(c, r)
    BY <2>1
  <2> HIDE DEF r
  <2> QED
    BY <2>2, RequestStep
<1>4. CASE AskPurge(c)
  <2> DEFINE missing == {i \in DOMAIN songs : songs[i].missing}
             r == [at |-> "purge", rows |-> [i \in missing |-> songs[i].path]]
  <2>1. r.at = "purge" /\ Request(c, r)
    BY <1>4 DEF AskPurge
  <2> HIDE DEF r
  <2> QED
    BY <2>1, RequestStep
<1>5. CASE AskMove(c)
  <2>1. PICK p \in DOMAIN disk, q \in Path \ DOMAIN disk :
          Request(c, [at |-> "move", path |-> p, to |-> q])
    BY <1>5 DEF AskMove
  <2> DEFINE r == [at |-> "move", path |-> p, to |-> q]
  <2>2. r.at = "move" /\ r.path = p /\ r.to = q /\ Request(c, r)
    BY <2>1
  <2>3. p \in Path
    BY DEF LibraryInv, TypeOK
  <2> HIDE DEF r
  <2> QED
    BY <2>2, <2>3, RequestStep
<1> QED
  BY <1>1, <1>2, <1>3, <1>4, <1>5

LEMMA NoRequestShape == NoRequest.at = "idle"
BY DEF NoRequest

(* The file of one path takes another name. *)
LEMMA RenameEffect ==
  ASSUME TypeOK, NEW p \in DOMAIN disk, NEW q \in Path, Rename(p, q)
  PROVE  /\ DOMAIN disk' \subseteq Path /\ fresh' \subseteq DOMAIN disk'
         /\ \A u \in DOMAIN disk' : Here(u)
<1>1. /\ DOMAIN disk' = (DOMAIN disk \ {p}) \cup {q} /\ disk'[q] = disk[p]
      /\ \A u \in DOMAIN disk \ {p, q} : disk'[u] = disk[u]
  BY DEF Rename, With, Without, Restrict
<1>2. DOMAIN disk \subseteq Path /\ fresh \subseteq DOMAIN disk
  BY DEF TypeOK
<1>3. fresh' \subseteq (fresh \ {p, q}) \cup {q}
  BY DEF Rename
<1> QED
  BY <1>1, <1>2, <1>3 DEF Here

LEMMA RenameStep ==
  ASSUME LibraryInv, Disturb, ClientShape', UNCHANGED <<songs, tracked, scan, born, writes>>,
         NEW p \in DOMAIN disk, NEW q \in Path, Rename(p, q)
  PROVE  LibraryInv'
<1>1. /\ DOMAIN disk' \subseteq Path /\ fresh' \subseteq DOMAIN disk'
      /\ \A u \in DOMAIN disk' : Here(u)
  BY RenameEffect DEF LibraryInv
<1> QED
  BY <1>1, FilesChange

(* A file is written with a stamp of its own. *)
LEMMA WriteStep ==
  ASSUME LibraryInv, Disturb, ClientShape', UNCHANGED <<songs, tracked, scan, born>>,
         NEW p \in Path, NEW a \in Audio, writes' = writes + 1,
         disk' = With(disk, p, [hash |-> a, stamp |-> writes + 1]), fresh' = fresh \cup {p}
  PROVE  LibraryInv'
<1> DEFINE f == [hash |-> a, stamp |-> writes + 1]
<1>0. DOMAIN disk \subseteq Path /\ fresh \subseteq DOMAIN disk
  BY DEF LibraryInv, TypeOK
<1>1. f \in [hash : Audio, stamp : {writes + 1}]
  OBVIOUS
<1> HIDE DEF f
<1>2. /\ DOMAIN disk' = DOMAIN disk \cup {p} /\ disk'[p] = f
      /\ \A u \in DOMAIN disk \ {p} : disk'[u] = disk[u]
  BY DEF With, f
<1>3. \A u \in DOMAIN disk' : u # p => Here(u)
  BY <1>2 DEF Here
<1> QED
  BY <1>0, <1>1, <1>2, <1>3, FilesChange

LEMMA StoreStep ==
  ASSUME LibraryInv, Disturb, NEW c \in Client, Store(c)
  PROVE  LibraryInv'
<1> DEFINE p == client[c].path
           a == client[c].hash
           force == client[c].force
<1>0. ClientShape
  BY DEF LibraryInv
<1>1. client[c].at = "store" /\ UNCHANGED <<songs, tracked, scan, born>>
  BY DEF Store
<1>2. p \in Path /\ a \in Audio
  BY <1>0, <1>1 DEF ClientShape, RequestShape
<1>3. ASSUME NEW q \in Path, NEW at \in {"store", "import"},
             ClientGoesTo(c, Upload(at, q, a, force))
      PROVE  ClientShape'
  <2> DEFINE r == Upload(at, q, a, force)
  <2>1. r.at = at /\ r.path = q /\ r.hash = a
    BY DEF Upload
  <2> HIDE DEF r
  <2>2. ClientGoesTo(c, r)
    BY <1>3 DEF r
  <2> QED
    BY <1>0, <1>2, <2>1, <2>2, ClientKept
<1>4. CASE /\ disk' = With(disk, p, [hash |-> a, stamp |-> writes + 1])
           /\ writes' = writes + 1
           /\ fresh' = fresh \cup {p}
           /\ ClientGoesTo(c, Upload("import", p, a, force))
  <2>1. ClientShape'
    BY <1>2, <1>3, <1>4
  <2> HIDE DEF p, a
  <2> QED
    BY <1>1, <1>2, <1>4, <2>1, WriteStep
<1>5. CASE /\ ClientGoesTo(c, Upload("import", p, a, force))
           /\ UNCHANGED <<disk, writes, fresh>>
  <2>1. ClientShape'
    BY <1>2, <1>3, <1>5
  <2> QED
    BY <1>1, <1>5, <2>1, NothingMoves
<1>6. CASE /\ \E q \in Path \ {p} : ClientGoesTo(c, Upload("store", q, a, force))
           /\ UNCHANGED <<disk, writes, fresh>>
  <2>1. ClientShape'
    BY <1>3, <1>6
  <2> QED
    BY <1>1, <1>6, <2>1, NothingMoves
<1> QED
  BY <1>4, <1>5, <1>6 DEF Store

LEMMA UploadCheckStep ==
  ASSUME LibraryInv, Disturb, NEW c \in Client, UploadCheck(c)
  PROVE  LibraryInv'
<1> DEFINE p == client[c].path
           r == [at |-> "insert", path |-> p, hash |-> disk[p].hash]
<1>0. ClientShape /\ TypeOK
  BY DEF LibraryInv
<1>1. /\ client[c].at = "import"
      /\ UNCHANGED <<disk, fresh, songs, tracked, scan, born, writes>>
      /\ \/ p \in DOMAIN disk /\ ClientGoesTo(c, r)
         \/ ClientGoesTo(c, NoRequest)
  BY DEF UploadCheck, ClientFrame
<1>2. p \in Path
  BY <1>0, <1>1 DEF ClientShape, RequestShape
<1>3. r.at = "insert" /\ r.path = p /\ r.hash = disk[p].hash
  OBVIOUS
<1> HIDE DEF r
<1>4. ClientShape'
  <2>1. CASE p \in DOMAIN disk /\ ClientGoesTo(c, r)
    <3>1. disk[p].hash \in Audio
      BY <1>0, <2>1, RowFields
    <3> HIDE DEF p
    <3> QED
      BY <1>0, <1>2, <1>3, <2>1, <3>1, ClientKept
  <2>2. CASE ClientGoesTo(c, NoRequest)
    BY <1>0, <2>2, ClientKept, NoRequestShape
  <2> QED
    BY <1>1, <2>1, <2>2
<1> QED
  BY <1>1, <1>4, NothingMoves

LEMMA UploadInsertStep ==
  ASSUME LibraryInv, Disturb, NEW c \in Client, UploadInsert(c)
  PROVE  LibraryInv'
<1> DEFINE p == client[c].path
           h == client[c].hash
<1>0. ClientShape /\ TypeOK /\ CountShape /\ ScansShape /\ CopyInv /\ RowInv /\ DiskInv
  BY DEF LibraryInv
<1>1. /\ client[c].at = "insert" /\ Insert(p, h) /\ ClientGoesTo(c, NoRequest)
      /\ UNCHANGED <<disk, fresh, tracked, scan, writes>>
  BY DEF UploadInsert, ClientFrame
<1>2. p \in Path /\ h \in Audio
  BY <1>0, <1>1 DEF ClientShape, RequestShape
<1> HIDE DEF p, h
<1>3. /\ overlap' \in BOOLEAN /\ settled' \in 0..2 /\ copied' = copied
      /\ ~ overlap' => ~ overlap
  BY <1>0, DisturbEffect
<1>4. born' = born + 1
  BY <1>0, <1>1, <1>2, InsertEffect
<1>5. TypeOK'
  BY <1>0, <1>1, <1>2, InsertTypes
<1>6. CopyInv' /\ RowInv'
  BY <1>0, <1>1, <1>2, <1>3, InsertRows DEF CountShape
<1>7. ClientShape'
  BY <1>0, <1>1, ClientKept, NoRequestShape
<1>8. ScansShape' /\ CountShape' /\ DiskInv'
  <2>1. ScansShape'
    BY <1>0, <1>1, <1>4, ScansKept
  <2>2. CountShape' /\ DiskInv'
    BY <1>0, <1>1, <1>3, <1>4 DEF CountShape, DiskInv, SameFile
  <2> QED
    BY <2>1, <2>2
<1> QED
  BY <1>1, <1>5, <1>6, <1>7, <1>8, Disturbed DEF Disturb
-----------------------------------------------------------------------------
(* Some songs are deleted, and the scanner's rows of some paths. *)
LEMMA ForgottenStep ==
  ASSUME LibraryInv, Disturb, ClientShape', UNCHANGED <<disk, fresh, scan, born, writes>>,
         NEW ids, NEW paths,
         songs' = Without(songs, ids), tracked' = Without(Forget(tracked, ids), paths)
  PROVE  LibraryInv'
<1>0. TypeOK /\ CountShape /\ ScansShape
  BY DEF LibraryInv
<1>1. ScansShape'
  BY <1>0, ScansKept
<1>2. /\ DOMAIN songs' = DOMAIN songs \ ids
      /\ \A i \in DOMAIN songs' : songs'[i] = songs[i]
  BY DEF Without, Restrict
<1>3. fresh \subseteq DOMAIN disk
  BY <1>0 DEF TypeOK
<1> DEFINE rows == Forget(tracked, ids)
<1>4. /\ DOMAIN rows = DOMAIN tracked
      /\ \A p \in DOMAIN tracked :
           /\ rows[p] \in [song : (DOMAIN songs \ ids) \cup {NoSong}, hash : Audio,
                          stamp : 0..writes]
           /\ rows[p].song \in {tracked[p].song, NoSong}
           /\ rows[p].hash = tracked[p].hash /\ rows[p].stamp = tracked[p].stamp
  BY <1>0, ForgetEffect
<1> HIDE DEF rows
<1>5. /\ DOMAIN tracked' = DOMAIN tracked \ paths
      /\ \A p \in DOMAIN tracked' : tracked'[p] = rows[p]
  BY <1>4 DEF Without, Restrict, rows
<1>6. \A p \in DOMAIN tracked' :
        /\ tracked'[p] \in [song : DOMAIN songs' \cup {NoSong}, hash : Audio, stamp : 0..writes]
        /\ tracked'[p].song \in {tracked[p].song, NoSong}
        /\ tracked'[p].hash = tracked[p].hash /\ tracked'[p].stamp = tracked[p].stamp
  BY <1>2, <1>4, <1>5
<1> QED
  BY <1>1, <1>2, <1>3, <1>5, <1>6, RowsShrink

(* A file goes with the scanner's row of its path. *)
LEMMA DropStep ==
  ASSUME LibraryInv, Disturb, ClientShape', UNCHANGED <<songs, scan, born, writes>>,
         NEW paths, NEW files, tracked' = Without(tracked, paths),
         disk' = Without(disk, files), fresh' = fresh \ files
  PROVE  LibraryInv'
<1>0. TypeOK /\ CountShape /\ ScansShape
  BY DEF LibraryInv
<1>1. ScansShape'
  BY <1>0, ScansKept
<1>2. /\ DOMAIN disk' = DOMAIN disk \ files
      /\ \A p \in DOMAIN disk' : disk'[p] = disk[p]
      /\ DOMAIN tracked' = DOMAIN tracked \ paths
      /\ \A p \in DOMAIN tracked' : tracked'[p] = tracked[p]
  BY DEF Without, Restrict
<1>3. fresh' \subseteq DOMAIN disk'
  BY <1>0, <1>2 DEF TypeOK
<1>4. \A p \in DOMAIN tracked' :
        tracked'[p] \in [song : DOMAIN songs' \cup {NoSong}, hash : Audio, stamp : 0..writes]
  BY <1>0, <1>2 DEF TypeOK
<1> QED
  BY <1>1, <1>2, <1>3, <1>4, RowsShrink

LEMMA ClientEnds ==
  ASSUME LibraryInv, NEW c \in Client, NEW r, ClientGoesTo(c, r),
         r.at \notin {"store", "import", "insert", "move", "moved"}
  PROVE  ClientShape'
BY ClientKept DEF LibraryInv

LEMMA DeletionStep ==
  ASSUME LibraryInv, Disturb, NEW c \in Client,
         DeleteSongs(c) \/ RemoveFile(c) \/ DeleteFound(c) \/ Purge(c)
           \/ \E i \in SongId : CountOthers(c, i) \/ Unlink(c, i)
  PROVE  LibraryInv'
<1>1. CASE DeleteSongs(c)
  <2> DEFINE r == [at |-> "count", rows |-> client[c].rows]
             ids == DOMAIN client[c].rows
  <2>1. r.at = "count" /\ ClientGoesTo(c, r)
    BY <1>1 DEF DeleteSongs
  <2> HIDE DEF r
  <2>2. ClientShape'
    BY <2>1, ClientEnds
  <2>3. /\ songs' = Without(songs, ids) /\ tracked' = Forget(tracked, ids)
        /\ UNCHANGED <<disk, fresh, scan, born, writes>>
    BY <1>1 DEF DeleteSongs, DeleteRows, ClientFrame
  <2> HIDE DEF ids
  <2>4. TypeOK /\ CountShape /\ ScansShape
    BY DEF LibraryInv
  <2>5. ScansShape'
    BY <2>3, <2>4, ScansKept
  <2>6. /\ DOMAIN songs' = DOMAIN songs \ ids
        /\ \A i \in DOMAIN songs' : songs'[i] = songs[i]
    BY <2>3 DEF Without, Restrict
  <2>7. fresh \subseteq DOMAIN disk
    BY <2>4 DEF TypeOK
  <2>8. /\ DOMAIN tracked' = DOMAIN tracked
        /\ \A p \in DOMAIN tracked :
           /\ tracked'[p] \in [song : DOMAIN songs' \cup {NoSong}, hash : Audio, stamp : 0..writes]
           /\ tracked'[p].song \in {tracked[p].song, NoSong}
           /\ tracked'[p].hash = tracked[p].hash /\ tracked'[p].stamp = tracked[p].stamp
    BY <2>3, <2>4, <2>6, ForgetEffect
  <2> QED
    BY <2>2, <2>3, <2>5, <2>6, <2>7, <2>8, RowsShrink
<1>2. CASE RemoveFile(c)
  <2> DEFINE r == [at |-> "delete_found", path |-> client[c].path, ids |-> client[c].ids]
  <2>1. r.at = "delete_found" /\ (ClientGoesTo(c, r) \/ ClientGoesTo(c, NoRequest))
    BY <1>2 DEF RemoveFile
  <2> HIDE DEF r
  <2>2. ClientShape'
    BY <2>1, ClientEnds, NoRequestShape
  <2>3. /\ disk' = Without(disk, {client[c].path}) /\ fresh' = fresh \ {client[c].path}
        /\ UNCHANGED <<songs, tracked, scan, born, writes>>
    BY <1>2 DEF RemoveFile, ClientFrame
  <2>4. TypeOK /\ CountShape /\ ScansShape
    BY DEF LibraryInv
  <2>5. ScansShape'
    BY <2>3, <2>4, ScansKept
  <2>6. /\ DOMAIN disk' = DOMAIN disk \ {client[c].path}
        /\ \A p \in DOMAIN disk' : disk'[p] = disk[p]
    BY <2>3 DEF Without, Restrict
  <2>7. fresh' \subseteq DOMAIN disk'
    BY <2>3, <2>4, <2>6 DEF TypeOK
  <2>8. \A p \in DOMAIN tracked :
          tracked[p] \in [song : DOMAIN songs \cup {NoSong}, hash : Audio, stamp : 0..writes]
    BY <2>4 DEF TypeOK
  <2> QED
    BY <2>2, <2>3, <2>5, <2>6, <2>7, <2>8, RowsShrink
<1>3. CASE DeleteFound(c)
  <2>1. /\ songs' = Without(songs, client[c].ids)
        /\ tracked' = Without(Forget(tracked, client[c].ids), {client[c].path})
        /\ ClientGoesTo(c, NoRequest)
        /\ UNCHANGED <<disk, fresh, scan, born, writes>>
    BY <1>3 DEF DeleteFound, ClientFrame
  <2>2. ClientShape'
    BY <2>1, ClientEnds, NoRequestShape
  <2> QED
    BY <2>1, <2>2, ForgottenStep
<1>4. CASE Purge(c)
  <2>1. /\ songs' = Without(songs, DOMAIN client[c].rows)
        /\ tracked' = Without(Forget(tracked, DOMAIN client[c].rows), Range(client[c].rows))
        /\ ClientGoesTo(c, NoRequest)
        /\ UNCHANGED <<disk, fresh, scan, born, writes>>
    BY <1>4 DEF Purge, ClientFrame
  <2>2. ClientShape'
    BY <2>1, ClientEnds, NoRequestShape
  <2> QED
    BY <2>1, <2>2, ForgottenStep
<1>5. ASSUME NEW i \in SongId, CountOthers(c, i)
      PROVE  LibraryInv'
  <2> DEFINE r == [at |-> "unlink", rows |-> client[c].rows]
  <2>1. /\ r.at = "unlink" /\ (ClientGoesTo(c, r) \/ ClientGoesTo(c, NoRequest))
        /\ UNCHANGED <<disk, fresh, songs, tracked, born, scan, writes>>
    BY <1>5 DEF CountOthers, ClientFrame
  <2> HIDE DEF r
  <2>2. ClientShape'
    BY <2>1, ClientEnds, NoRequestShape
  <2> QED
    BY <2>1, <2>2, NothingMoves
<1>6. ASSUME NEW i \in SongId, Unlink(c, i)
      PROVE  LibraryInv'
  <2> DEFINE paths == {client[c].rows[i]}
  <2>1. /\ disk' = Without(disk, paths) /\ fresh' = fresh \ paths
        /\ tracked' = Without(tracked, paths)
        /\ ClientGoesTo(c, NoRequest)
        /\ UNCHANGED <<songs, born, scan, writes>>
    BY <1>6 DEF Unlink, ClientFrame
  <2> HIDE DEF paths
  <2>2. ClientShape'
    BY <2>1, ClientEnds, NoRequestShape
  <2> QED
    BY <2>1, <2>2, DropStep
<1> QED
  BY <1>1, <1>2, <1>3, <1>4, <1>5, <1>6
-----------------------------------------------------------------------------
LEMMA MoveFileStep ==
  ASSUME LibraryInv, Disturb, NEW c \in Client, MoveFile(c) \/ UndoMove(c)
  PROVE  LibraryInv'
<1> DEFINE p == client[c].path
           q == client[c].to
           r == [at |-> "moved", path |-> p, to |-> q,
                 rows |-> {i \in DOMAIN songs : songs[i].path = p},
                 known |-> DOMAIN tracked \cap {p, q}]
<1>0. ClientShape /\ TypeOK
  BY DEF LibraryInv
<1>1. client[c].at \in {"move", "moved"} /\ UNCHANGED <<songs, tracked, scan, born, writes>>
  BY DEF MoveFile, UndoMove, Moving, ClientFrame
<1>2. p \in Path /\ q \in Path
  BY <1>0, <1>1 DEF ClientShape, RequestShape
<1>3. r.at = "moved" /\ r.path = p /\ r.to = q
  OBVIOUS
<1>4. /\ ClientGoesTo(c, r) \/ ClientGoesTo(c, NoRequest)
      /\ \/ UNCHANGED <<disk, fresh>>
         \/ p \in DOMAIN disk /\ Rename(p, q)
         \/ q \in DOMAIN disk /\ Rename(q, p)
  BY DEF MoveFile, UndoMove
<1> HIDE DEF r, p, q
<1>5. ClientShape'
  <2>1. CASE ClientGoesTo(c, r)
    BY <1>0, <1>2, <1>3, <2>1, ClientKept
  <2>2. CASE ClientGoesTo(c, NoRequest)
    BY <1>0, <2>2, ClientKept, NoRequestShape
  <2> QED
    BY <1>4, <2>1, <2>2
<1>6. CASE UNCHANGED <<disk, fresh>>
  BY <1>1, <1>5, <1>6, NothingMoves
<1>7. CASE p \in DOMAIN disk /\ Rename(p, q)
  BY <1>1, <1>2, <1>5, <1>7, RenameStep
<1>8. CASE q \in DOMAIN disk /\ Rename(q, p)
  BY <1>1, <1>2, <1>5, <1>8, RenameStep
<1> QED
  BY <1>4, <1>6, <1>7, <1>8

(* The chosen rows follow the file, and what the scanner knew of the new   *)
(* path goes.  A song that is now remembered under another path than its   *)
(* own counts as copied.                                                   *)
LEMMA CommitMoveStep ==
  ASSUME LibraryInv, Interfere, NEW c \in Client, CommitMove(c)
  PROVE  LibraryInv'
<1> DEFINE p == client[c].path
           q == client[c].to
           R == client[c].rows
           K == DOMAIN tracked \cap client[c].known
<1>0. ClientShape /\ TypeOK /\ CountShape /\ ScansShape /\ CopyInv /\ RowInv /\ DiskInv
  BY DEF LibraryInv
<1>1. /\ client[c].at = "moved" /\ ClientGoesTo(c, NoRequest)
      /\ UNCHANGED <<disk, fresh, born, scan, writes>>
      /\ songs' = [i \in DOMAIN songs |->
                    IF i \in R THEN [songs[i] EXCEPT !.path = q] ELSE songs[i]]
      /\ tracked' = IF p \in K
                    THEN With(Without(tracked, {p}), q, tracked[p])
                    ELSE Without(tracked, K)
      /\ copied' = copied \cup {i \in DOMAIN songs :
                    \E u \in DOMAIN tracked' : tracked'[u].song = i /\ songs'[i].path # u}
  BY DEF CommitMove, Moving, ClientFrame
<1>2. p \in Path /\ q \in Path
  BY <1>0, <1>1 DEF ClientShape, RequestShape
<1>k. K \subseteq DOMAIN tracked
  OBVIOUS
<1> HIDE DEF p, q, R, K
<1>3. /\ overlap' \in BOOLEAN /\ settled' \in 0..2
      /\ ~ overlap' => ~ overlap
  BY <1>0 DEF CountShape, Interfere
<1>4. ClientShape' /\ ScansShape' /\ CountShape' /\ DiskInv'
  <2>1. ClientShape'
    BY <1>0, <1>1, ClientKept, NoRequestShape
  <2>2. ScansShape'
    BY <1>0, <1>1, ScansKept
  <2>3. CountShape' /\ DiskInv'
    BY <1>0, <1>1, <1>3 DEF CountShape, DiskInv, SameFile
  <2> QED
    BY <2>1, <2>2, <2>3
<1>5. /\ DOMAIN songs' = DOMAIN songs
      /\ \A i \in DOMAIN songs :
           /\ songs'[i] \in SongRow /\ songs'[i].hash = songs[i].hash
           /\ songs'[i].path = IF i \in R THEN q ELSE songs[i].path
  <2>1. ASSUME NEW i \in DOMAIN songs
        PROVE  /\ songs'[i] \in SongRow /\ songs'[i].hash = songs[i].hash
               /\ songs'[i].path = IF i \in R THEN q ELSE songs[i].path
    <3>1. songs[i] \in SongRow
      BY <1>0 DEF TypeOK, SongRow
    <3>2. CASE i \in R
      <4>1. songs'[i] = [songs[i] EXCEPT !.path = q]
        BY <1>1, <3>2
      <4> QED
        BY <1>2, <3>1, <3>2, <4>1 DEF SongRow
    <3>3. CASE i \notin R
      BY <1>1, <3>1, <3>3
    <3> QED
      BY <3>2, <3>3
  <2>2. DOMAIN songs' = DOMAIN songs
    BY <1>1
  <2> QED
    BY <2>1, <2>2
<1>7. \A u \in DOMAIN tracked' : \E v \in DOMAIN tracked : tracked'[u] = tracked[v]
  <2>1. CASE p \in K
    <3>1. /\ DOMAIN tracked' = (DOMAIN tracked \ {p}) \cup {q} /\ tracked'[q] = tracked[p]
          /\ \A u \in DOMAIN tracked \ {p, q} : tracked'[u] = tracked[u]
      BY <1>1, <2>1 DEF With, Without, Restrict
    <3> QED
      BY <1>k, <2>1, <3>1
  <2>2. CASE p \notin K
    <3>1. /\ DOMAIN tracked' = DOMAIN tracked \ K
          /\ \A u \in DOMAIN tracked \ K : tracked'[u] = tracked[u]
      BY <1>1, <2>2 DEF Without, Restrict
    <3> QED
      BY <2>2, <3>1
  <2> QED
    BY <2>1, <2>2
<1>8. DOMAIN tracked' \subseteq DOMAIN tracked \cup {q}
  BY <1>1 DEF With, Without, Restrict
<1>9. TypeOK'
  <2>1. ASSUME NEW u \in DOMAIN tracked'
        PROVE  tracked'[u] \in [song : DOMAIN songs \cup {NoSong}, hash : Audio, stamp : 0..writes]
    <3>1. PICK v \in DOMAIN tracked : tracked'[u] = tracked[v]
      BY <1>7
    <3> QED
      BY <1>0, <3>1 DEF TypeOK
  <2>2. \A i \in DOMAIN songs' : songs'[i] \in [path : Path, hash : Audio, missing : BOOLEAN]
    BY <1>5 DEF SongRow
  <2>3. DOMAIN tracked' \subseteq Path
    BY <1>0, <1>2, <1>8 DEF TypeOK
  <2> QED
    BY <1>0, <1>1, <1>5, <2>1, <2>2, <2>3 DEF TypeOK
<1>10. CopyInv' /\ copied \subseteq copied'
  BY <1>1, <1>5 DEF CopyInv
<1>11. RowInv'
  <2>1. ASSUME ~ overlap', NEW u \in DOMAIN tracked', NEW x \in DOMAIN disk',
               disk'[x].stamp = tracked'[u].stamp
        PROVE  disk'[x].hash = tracked'[u].hash
    <3>1. PICK v \in DOMAIN tracked : tracked'[u] = tracked[v]
      BY <1>7
    <3>2. SameFile(tracked[v])
      BY <1>0, <1>3, <2>1 DEF RowInv
    <3> QED
      BY <1>1, <2>1, <3>1, <3>2 DEF SameFile
  <2>2. ASSUME ~ overlap', NEW i \in DOMAIN songs, Own(i)', i \notin copied'
        PROVE  tracked'[songs'[i].path].hash = songs'[i].hash
    <3> DEFINE u == songs'[i].path
    <3>1. u \in DOMAIN tracked' /\ tracked'[u].song = i
      BY <2>2 DEF Own
    <3>2. songs'[i].hash = songs[i].hash /\ u = IF i \in R THEN q ELSE songs[i].path
      BY <1>5
    <3> HIDE DEF u
    <3>3. PICK v \in DOMAIN tracked : tracked'[u] = tracked[v]
      BY <1>7, <3>1
    <3>4. songs[i].path = v
      BY <1>0, <1>10, <2>2, <3>1, <3>3 DEF CopyInv
    <3>5. Own(i)
      BY <3>1, <3>3, <3>4 DEF Own
    <3> QED
      BY <1>0, <1>3, <1>10, <2>2, <3>2, <3>3, <3>4, <3>5 DEF RowInv, u
  <2> QED
    BY <1>3, <1>5, <2>1, <2>2 DEF RowInv, SameFile
<1> QED
  BY <1>1, <1>4, <1>9, <1>10, <1>11, Disturbed

LEMMA ClientStepKeeps ==
  ASSUME LibraryInv, NEW c \in Client, ClientStep(c)
  PROVE  LibraryInv'
<1>1. CASE Interfere /\ CommitMove(c)
  BY <1>1, CommitMoveStep
<1>2. CASE Disturb /\ ~ CommitMove(c)
  BY <1>2, AskRequestStep, StoreStep, UploadCheckStep, UploadInsertStep, DeletionStep, MoveFileStep
     DEF ClientStep
<1> QED
  BY <1>1, <1>2, CommitMoveStep DEF ClientStep, Disturb

LEMMA OutsideStep ==
  ASSUME LibraryInv, Outside
  PROVE  LibraryInv'
<1>0. ClientShape /\ TypeOK /\ CountShape /\ ScansShape
  BY DEF LibraryInv
<1>1. Disturb
  BY DEF Outside
<1>2. PICK p \in Path : WriteFile(p) \/ DropFile(p) \/ \E q \in Path : RenameFile(p, q)
  BY DEF Outside
<1>3. UNCHANGED <<songs, tracked, scan, client, born>>
  BY <1>2 DEF WriteFile, DropFile, RenameFile, OutsideFrame
<1>4. ClientShape'
  BY <1>0, <1>3 DEF ClientShape, RequestShape
<1>5. CASE WriteFile(p)
  <2>1. PICK a \in Audio : disk' = With(disk, p, [hash |-> a, stamp |-> writes + 1])
    BY <1>5 DEF WriteFile
  <2> QED
    BY <1>1, <1>3, <1>4, <1>5, <2>1, WriteStep DEF WriteFile
<1>6. CASE DropFile(p)
  <2>1. disk' = Without(disk, {p}) /\ fresh' = fresh \ {p} /\ writes' = writes
    BY <1>6 DEF DropFile
  <2>2. ScansShape'
    BY <1>0, <1>3, <2>1, ScansKept
  <2>3. DOMAIN disk' = DOMAIN disk \ {p} /\ \A u \in DOMAIN disk' : disk'[u] = disk[u]
    BY <2>1 DEF Without, Restrict
  <2>4. fresh' \subseteq DOMAIN disk'
    BY <1>0, <2>1, <2>3 DEF TypeOK
  <2>5. \A u \in DOMAIN tracked :
          tracked[u] \in [song : DOMAIN songs \cup {NoSong}, hash : Audio, stamp : 0..writes]
    BY <1>0 DEF TypeOK
  <2> QED
    BY <1>1, <1>3, <1>4, <2>1, <2>2, <2>3, <2>4, <2>5, RowsShrink
<1>7. ASSUME NEW q \in Path, RenameFile(p, q) PROVE LibraryInv'
  <2>1. p \in DOMAIN disk /\ Rename(p, q) /\ writes' = writes
    BY <1>7 DEF RenameFile
  <2> QED
    BY <1>1, <1>3, <1>4, <2>1, RenameStep
<1> QED
  BY <1>2, <1>5, <1>6, <1>7

LEMMA CrashStep ==
  ASSUME LibraryInv, Crash
  PROVE  LibraryInv'
<1>0. TypeOK /\ ScansShape
  BY DEF LibraryInv
<1>1. /\ Disturb /\ UNCHANGED <<disk, fresh, songs, tracked, born, writes>>
      /\ DOMAIN scan' = Scanner /\ DOMAIN client' = Client
      /\ \A s \in Scanner : scan'[s].at = "idle"
      /\ \A c \in Client : client'[c].at = "idle"
  BY DEF Crash, NoScan, NoRequest
<1>2. AllIdle
  BY <1>1 DEF AllIdle
<1>3. ScansShape'
  BY <1>1 DEF ScansShape, ScanShape, Running, Reading, OnFile
<1>4. ClientShape'
  BY <1>1 DEF ClientShape, RequestShape
<1>5. fresh \subseteq DOMAIN disk /\ \A u \in DOMAIN tracked :
        tracked[u] \in [song : DOMAIN songs \cup {NoSong}, hash : Audio, stamp : 0..writes]
  BY <1>0 DEF TypeOK
<1> QED
  BY <1>1, <1>2, <1>3, <1>4, <1>5, RowsShrink

LEMMA LibraryInitHolds == LibraryInit => LibraryInv
<1> SUFFICES ASSUME LibraryInit PROVE LibraryInv
  OBVIOUS
<1>1. PICK p \in Path, a \in Audio : disk = [q \in {p} |-> [hash |-> a, stamp |-> 0]]
  BY DEF LibraryInit
<1>2. /\ DOMAIN disk = {p} /\ disk[p] = [hash |-> a, stamp |-> 0]
      /\ disk[p] \in [hash : Audio, stamp : 0..0]
  BY <1>1
<1>3. /\ DOMAIN songs = {} /\ DOMAIN tracked = {} /\ born = 0 /\ fresh = {} /\ writes = 0
      /\ DOMAIN scan = Scanner /\ DOMAIN client = Client
      /\ \A s \in Scanner : scan[s].at = "idle"
      /\ \A c \in Client : client[c].at = "idle"
      /\ quiet = {} /\ settled = 0 /\ overlap = FALSE
  BY DEF LibraryInit, NoScan, NoRequest
<1>4. TypeOK
  BY <1>2, <1>3 DEF TypeOK
<1>5. CountShape /\ ScansShape /\ ClientShape
  <2>1. CountShape
    <3>1. overlap \in BOOLEAN
      BY <1>3
    <3>2. writes \in Nat /\ born \in Nat /\ settled \in 0..2
      BY <1>3
    <3> QED
      BY <1>3, <3>1, <3>2 DEF CountShape
  <2>2. ScansShape
    BY <1>3 DEF ScansShape, ScanShape, Running, Reading, OnFile
  <2>3. ClientShape
    BY <1>3 DEF ClientShape, RequestShape
  <2> QED
    BY <2>1, <2>2, <2>3
<1>6. QuietInv
  BY <1>3 DEF QuietInv, Calm
<1>7. ScansInv
  BY <1>3 DEF ScansInv, ListInv, WorkInv, FlagInv, IdleWork, KnownInv, Running, Reading, OnFile
<1>8. NothingEscapesTheScan /\ Flagged
  BY <1>3 DEF NothingEscapesTheScan, Flagged
<1>9. DiskInv /\ CopyInv /\ RowInv
  BY <1>2, <1>3 DEF DiskInv, CopyInv, RowInv, SameFile
<1> QED
  BY <1>4, <1>5, <1>6, <1>7, <1>8, <1>9 DEF LibraryInv

LEMMA LibraryNextKeeps == LibraryInv /\ [LibraryNext]_libraryVars => LibraryInv'
<1> SUFFICES ASSUME LibraryInv, [LibraryNext]_libraryVars PROVE LibraryInv'
  OBVIOUS
<1>1. CASE TimePasses
  BY <1>1, NothingChanges DEF TimePasses
<1>2. CASE UNCHANGED libraryVars
  BY <1>2, NothingChanges DEF libraryVars
<1> QED
  BY <1>1, <1>2, ScanStepKeeps, ClientStepKeeps, OutsideStep, CrashStep DEF LibraryNext

LEMMA LibraryInvariant == LibrarySpec => []LibraryInv
BY LibraryInitHolds, LibraryNextKeeps, PTL DEF LibrarySpec

(* Whatever scans, requests, outsiders and crashes did before, and however *)
(* many of them there are: after one undisturbed scan every file is        *)
(* remembered as it is and every gone song is flagged, after a second one  *)
(* only these are (scan_library).                                          *)
THEOREM OneScanSettles == LibrarySpec => []ScanIsComplete
<1>1. LibraryInv => ScanIsComplete
  <2> SUFFICES ASSUME LibraryInv PROVE TypeOK /\ NothingEscapesTheScan /\ MissingIsTrue
    BY DEF ScanIsComplete
  <2>1. TypeOK /\ NothingEscapesTheScan /\ Flagged
    BY DEF LibraryInv
  <2>2. MissingIsTrue
    BY <2>1 DEF MissingIsTrue, Flagged
  <2> QED
    BY <2>1, <2>2
<1> QED
  BY <1>1, LibraryInvariant, PTL

(* When nobody interferes with a scan, a song whose own path the scanner   *)
(* remembers is described by the file it plays (refresh_track).            *)
THEOREM SongsAreDescribed == LibrarySpec => []DescribedByOwnFile
<1>1. LibraryInv => DescribedByOwnFile
  <2> SUFFICES ASSUME LibraryInv, settled > 0, ~ overlap, NEW i \in DOMAIN songs, Own(i),
                      i \notin copied, songs[i].path \in DOMAIN disk
               PROVE  disk[songs[i].path].hash = songs[i].hash
    BY DEF DescribedByOwnFile, Described
  <2> DEFINE p == songs[i].path
  <2>1. NothingEscapesTheScan /\ RowInv
    BY DEF LibraryInv
  <2>2. p \in DOMAIN tracked /\ tracked[p].stamp = disk[p].stamp
    BY <2>1 DEF NothingEscapesTheScan
  <2>3. tracked[p].hash = songs[i].hash /\ SameFile(tracked[p])
    BY <2>1, <2>2 DEF RowInv
  <2> QED
    BY <2>2, <2>3 DEF SameFile
<1> QED
  BY <1>1, LibraryInvariant, PTL
=============================================================================
