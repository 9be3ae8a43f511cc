---------------------------- MODULE StationProofs ----------------------------
(***************************************************************************)
(* What holds of a station for any rows, commands, edits and faults and    *)
(* with every race open.                                                   *)
(***************************************************************************)
EXTENDS Station, SequenceTheorems, WellFoundedInduction, TLAPS

Replacing == {"start", "switch", "roll"}

Nexts == [song : Identities, anchor : SUBSET Items]
Skips ==
  [id : Nat, gen : Nat, song : Items, anchor : SUBSET Items, staged : Identities, play : Nat,
   badCur : BOOLEAN, badNext : BOOLEAN, toPlay : BOOLEAN]
Realigns ==
  [id : Nat, gen : Nat, cur : Identities, expected : Identities, desired : Identities,
   dirty : BOOLEAN, broken : BOOLEAN, retries : Nat]
Ends == [gen : Nat, track : Identities, retries : Nat]
Exclusions == [gen : Nat, cur : Identities, tracks : SUBSET Identities]

Controllers ==
  [state : {"Stopped", "Paused", "Playing"}, gen : Nat, epoch : Nat, q : Queues,
   planned : Nexts \cup {None}, idle : BOOLEAN, resume : Nat, play : Nat, playFailed : Nat,
   playDone : Nat, playBySkip : Nat, skip : Skips \cup {None}, realign : Realigns \cup {None},
   ended : Ends \cup {None}, broken : Exclusions \cup {None}, seq : Nat]

Databases ==
  [rows : Seq(Items), born : Nat, faults : 0 .. MaxFaults, owed : {"none", "append", "align"}]

Operations ==
  [type : Ops \cup {"none", "refused"}, gen : Nat, epoch : Nat, cur : Identities,
   next : Identities, old : Identities, id : Nat]

Events ==
  [type : {"CurrentEos", "DecodeFailed", "Handover", "FatalPipeline"}, gen : Nat, epoch : Nat,
   track : Identities]

Plans ==
  [gen : Nat, epoch : Nat, cur : Items, next : Identities, ended : BOOLEAN,
   dead : SUBSET Identities]

(* An attempt has a number that was handed out, and brings a track.        *)
Numbered(n, op) ==
  /\ op.type \in Replacing => op.id \in 1 .. n
  /\ op.type \in {"start", "switch"} => op.cur \in Items

Lanes(n) ==
  /\ urgent \in Seq(Operations) /\ regular \in Seq(Operations)
  /\ \A lane \in {urgent, regular} : \A i \in DOMAIN lane :
       lane[i].type \in Ops /\ Numbered(n, lane[i])

Channel ==
  /\ events \in Seq(Events)
  /\ \A i \in DOMAIN events : events[i].type = "Handover" => events[i].track # None

Physical ==
  /\ pipe = [state |-> pipe.state, plan |-> pipe.plan]
  /\ pipe.state \in {"Stopped", "Paused", "Playing", "Broken"}
  /\ OnAir => pipe.plan \in Plans
  /\ heard \subseteq Items

Surroundings ==
  /\ fetched \in [rows : Seq(Items), align : BOOLEAN] \cup {None}
  /\ commands \in Nat /\ edits \in Nat
  /\ wish \in {"none", "play", "pause"}

Shape ==
  /\ ctl \in Controllers
  /\ env \in Databases
  /\ Lanes(ctl.seq)
  /\ done \subseteq [type : Replacing, id : 1 .. ctl.seq, ok : BOOLEAN]
  /\ Channel
  /\ Physical
  /\ Surroundings

(* What a controller waits for is in a lane, or on its way back. *)
Queued(lane, type, id) == \E i \in DOMAIN lane : lane[i].type = type /\ lane[i].id = id
Awaited(type, id) ==
  \/ Queued(urgent, type, id) \/ Queued(regular, type, id)
  \/ \E d \in done : d.type = type /\ d.id = id

Covered(c) ==
  /\ c.play # 0 => Awaited("start", c.play)
  /\ c.resume # 0 => Awaited("start", c.resume)
  /\ c.skip # None => Awaited("switch", c.skip.id)
  /\ c.realign # None => Awaited("roll", c.realign.id)

IInv == Shape /\ Covered(ctl)

(* What a method of the controller leaves behind: what is waited for was   *)
(* waited for before, or is the operation to submit.                       *)
Result(c, o) ==
  /\ o = Out(o.c, o.e, o.op)
  /\ o.c \in Controllers /\ o.e \in Databases /\ o.op \in Operations
  /\ o.c.seq >= c.seq
  /\ Numbered(o.c.seq, o.op)
  /\ o.c.play \in {0, c.play} \/ (o.op.type = "start" /\ o.op.id = o.c.play)
  /\ o.c.resume \in {0, c.resume} \/ (o.op.type = "start" /\ o.op.id = o.c.resume)
  /\ \/ o.c.skip = None
     \/ c.skip # None /\ o.c.skip.id = c.skip.id
     \/ o.op.type = "switch" /\ o.op.id = o.c.skip.id
  /\ \/ o.c.realign = None
     \/ c.realign # None /\ o.c.realign.id = c.realign.id
     \/ o.op.type = "roll" /\ o.op.id = o.c.realign.id

(* A controller that waits for no more than another one.                   *)
Quieter(d, c) ==
  /\ d \in Controllers
  /\ d.seq >= c.seq
  /\ d.play \in {0, c.play} /\ d.resume \in {0, c.resume}
  /\ d.skip = None \/ (c.skip # None /\ d.skip.id = c.skip.id)
  /\ d.realign = None \/ (c.realign # None /\ d.realign.id = c.realign.id)

-----------------------------------------------------------------------------
(* The queue.                                                              *)

(* The first row outside skip is one. *)
LEMMA FirstIsRow ==
  ASSUME NEW s, s \in Seq(Items), NEW skip
  PROVE  FirstOutside(s, skip) \in Identities
<1> DEFINE fresh == {i \in DOMAIN s : s[i] \notin skip}
<1>1. CASE fresh = {} BY <1>1 DEF FirstOutside, Identities
<1>2. CASE fresh # {}
  <2>1. fresh \subseteq Nat OBVIOUS
  <2>2. \E i \in fresh : \A j \in fresh : ~ (<<j, i>> \in OpToRel(<, Nat))
    <3> HIDE DEF fresh
    <3> QED BY <1>2, <2>1, NatLessThanWellFounded, WFMin
  <2>3. \E i \in fresh : \A j \in fresh : i <= j
    <3> HIDE DEF fresh
    <3>1. PICK i \in fresh : \A j \in fresh : ~ (<<j, i>> \in OpToRel(<, Nat)) BY <2>2
    <3>2. ASSUME NEW j \in fresh PROVE i <= j
      <4>1. i \in Nat /\ j \in Nat BY <2>1
      <4>2. j < i => <<j, i>> \in OpToRel(<, Nat) BY <4>1 DEF OpToRel
      <4>3. ~ (<<j, i>> \in OpToRel(<, Nat)) BY <3>1
      <4>4. ~ (j < i) BY <4>2, <4>3
      <4> QED BY <4>1, <4>4
    <3> QED BY <3>2
  <2> DEFINE i == CHOOSE i \in fresh : \A j \in fresh : i <= j
  <2>4. i \in fresh
    <3> HIDE DEF fresh
    <3> QED BY <2>3
  <2>5. FirstOutside(s, skip) = s[i] BY <1>2 DEF FirstOutside
  <2>6. s[i] \in Items BY <2>4
  <2> QED BY <2>5, <2>6 DEF Identities
<1> QED BY <1>1, <1>2

LEMMA QueueTypes ==
  ASSUME NEW q \in Queues
  PROVE  /\ \A s \in Seq(Items), retain \in BOOLEAN : Replaced(q, s, retain) \in Queues
         /\ PeekNext(q) \in Identities
         /\ \A item : SuccessorAfter(q, item) \in Identities
         /\ AnchorAfterCurrent(q) \subseteq Items
         /\ \A item \in Identities, anchor \in SUBSET Items : Committed(q, item, anchor) \in Queues
         /\ Finished(q) \in Queues
<1>0. q.items \in Seq(Items) /\ q.cur \in Identities /\ q.used \subseteq Items
      /\ q = [items |-> q.items, cur |-> q.cur, used |-> q.used]
  BY DEF Queues, Identities
<1>1. ASSUME NEW s \in Seq(Items), NEW retain \in BOOLEAN
      PROVE  Replaced(q, s, retain) \in Queues
  <2> DEFINE kept == IF q.cur \in Rows(s) \/ retain THEN q.cur ELSE None
  <2>1. kept \in Identities BY <1>0 DEF Identities
  <2>2. FirstOutside(s, q.used) \in Identities BY FirstIsRow
  <2>3. Replaced(q, s, retain) =
          [items |-> s, cur |-> IF kept # None THEN kept ELSE FirstOutside(s, q.used),
           used |-> q.used \cap Rows(s)]
    BY DEF Replaced
  <2> HIDE DEF kept
  <2> QED BY <1>0, <2>1, <2>2, <2>3 DEF Queues, Identities
<1>2. PeekNext(q) \in Identities BY <1>0, FirstIsRow DEF PeekNext
<1>3. ASSUME NEW item PROVE SuccessorAfter(q, item) \in Identities
  <2> DEFINE at == {i \in DOMAIN q.items : q.items[i] = item}
             start == IF at = {} THEN 1 ELSE 1 + CHOOSE i \in at : \A j \in at : i <= j
  <2>1. start \in Nat \ {0}
    <3>1. CASE at = {} BY <3>1
    <3>2. CASE at # {}
      <4>1. at \subseteq Nat BY <1>0
      <4>2. \E i \in at : \A j \in at : i <= j
        <5> HIDE DEF at
        <5>1. PICK i \in at : \A j \in at : ~ (<<j, i>> \in OpToRel(<, Nat))
          BY <3>2, <4>1, NatLessThanWellFounded, WFMin
        <5>2. ASSUME NEW j \in at PROVE i <= j
          <6>1. i \in Nat /\ j \in Nat BY <4>1
          <6>2. j < i => <<j, i>> \in OpToRel(<, Nat) BY <6>1 DEF OpToRel
          <6>3. ~ (j < i) BY <5>1, <6>2
          <6> QED BY <6>1, <6>3
        <5> QED BY <5>2
      <4> DEFINE least == CHOOSE i \in at : \A j \in at : i <= j
      <4>3. least \in at
        <5> HIDE DEF at
        <5> QED BY <4>2
      <4>4. least \in Nat
        <5> HIDE DEF at, least
        <5> QED BY <4>1, <4>3
      <4>5. start = 1 + least BY <3>2
      <4> HIDE DEF at, least, start
      <4> QED BY <4>4, <4>5
    <3> QED BY <3>1, <3>2
  <2>2. SuccessorAfter(q, item) =
          FirstOutside(SubSeq(q.items, start, Len(q.items)), q.used \cup {q.cur})
    BY DEF SuccessorAfter
  <2> HIDE DEF start
  <2>3. SubSeq(q.items, start, Len(q.items)) \in Seq(Items)
    <3>1. \A i \in start .. Len(q.items) : q.items[i] \in Items BY <1>0, <2>1
    <3>2. start \in Int /\ Len(q.items) \in Int BY <1>0, <2>1
    <3> QED BY <3>1, <3>2, SubSeqProperties
  <2> QED BY <2>2, <2>3, FirstIsRow
<1>4. AnchorAfterCurrent(q) \subseteq Items BY <1>0 DEF AnchorAfterCurrent, Identities
<1>5. ASSUME NEW item \in Identities, NEW anchor \in SUBSET Items
      PROVE  Committed(q, item, anchor) \in Queues
  BY <1>0 DEF Committed, Queues, Identities
<1>6. Finished(q) \in Queues BY <1>0 DEF Finished, Queues, Identities
<1> QED BY <1>1, <1>2, <1>3, <1>4, <1>5, <1>6

-----------------------------------------------------------------------------
(* The building blocks of the controller.                                  *)

LEMMA SimpleOps ==
  /\ NoOp \in Operations /\ NoOp.type = "none"
  /\ Refused \in Operations /\ Refused.type = "refused"
  /\ StopOp \in Operations /\ StopOp.type = "stop"
  /\ \A on \in BOOLEAN : Toggle(on) \in Operations /\ Toggle(on).type \in {"resume", "pause"}
BY DEF NoOp, Refused, StopOp, Toggle, Operations, Ops, Identities

LEMMA QuieterThanItself ==
  ASSUME NEW c \in Controllers
  PROVE  Quieter(c, c)
<1>1. c.play \in Nat /\ c.resume \in Nat /\ c.seq \in Nat BY DEF Controllers
<1> QED BY <1>1 DEF Quieter

(* A controller changes field by field. *)
LEMMA FieldByField ==
  ASSUME NEW c \in Controllers
  PROVE  /\ \A x \in {"Stopped", "Paused", "Playing"} : [c EXCEPT !.state = x] \in Controllers
         /\ \A x \in Nat : /\ [c EXCEPT !.gen = x] \in Controllers
                           /\ [c EXCEPT !.epoch = x] \in Controllers
                           /\ [c EXCEPT !.resume = x] \in Controllers
                           /\ [c EXCEPT !.play = x] \in Controllers
                           /\ [c EXCEPT !.playFailed = x] \in Controllers
                           /\ [c EXCEPT !.playDone = x] \in Controllers
                           /\ [c EXCEPT !.playBySkip = x] \in Controllers
                           /\ [c EXCEPT !.seq = x] \in Controllers
         /\ \A x \in Queues : [c EXCEPT !.q = x] \in Controllers
         /\ \A x \in Nexts \cup {None} : [c EXCEPT !.planned = x] \in Controllers
         /\ [c EXCEPT !.planned = None] \in Controllers
         /\ \A x \in BOOLEAN : [c EXCEPT !.idle = x] \in Controllers
         /\ [c EXCEPT !.idle = TRUE] \in Controllers
         /\ [c EXCEPT !.idle = FALSE] \in Controllers
         /\ \A x \in Skips \cup {None} : [c EXCEPT !.skip = x] \in Controllers
         /\ \A x \in Skips : [c EXCEPT !.skip = x] \in Controllers
         /\ [c EXCEPT !.skip = None] \in Controllers
         /\ \A x \in Realigns : [c EXCEPT !.realign = x] \in Controllers
         /\ [c EXCEPT !.realign = None] \in Controllers
         /\ \A x \in Ends \cup {None} : [c EXCEPT !.ended = x] \in Controllers
         /\ [c EXCEPT !.ended = None] \in Controllers
         /\ \A x \in Exclusions : [c EXCEPT !.broken = x] \in Controllers
         /\ [c EXCEPT !.broken = None] \in Controllers
<1>1. \A x \in {"Stopped", "Paused", "Playing"} : [c EXCEPT !.state = x] \in Controllers
  BY DEF Controllers
<1>2. \A x \in Nat : /\ [c EXCEPT !.gen = x] \in Controllers
                     /\ [c EXCEPT !.epoch = x] \in Controllers
                     /\ [c EXCEPT !.resume = x] \in Controllers
                     /\ [c EXCEPT !.play = x] \in Controllers
                     /\ [c EXCEPT !.playFailed = x] \in Controllers
                     /\ [c EXCEPT !.playDone = x] \in Controllers
                     /\ [c EXCEPT !.playBySkip = x] \in Controllers
                     /\ [c EXCEPT !.seq = x] \in Controllers
  BY DEF Controllers
<1>3. \A x \in Queues : [c EXCEPT !.q = x] \in Controllers BY DEF Controllers
<1>4. \A x \in Nexts \cup {None} : [c EXCEPT !.planned = x] \in Controllers BY DEF Controllers
<1>5. [c EXCEPT !.planned = None] \in Controllers BY DEF Controllers
<1>6. \A x \in BOOLEAN : [c EXCEPT !.idle = x] \in Controllers BY DEF Controllers
<1>7. [c EXCEPT !.idle = TRUE] \in Controllers BY DEF Controllers
<1>8. [c EXCEPT !.idle = FALSE] \in Controllers BY DEF Controllers
<1>9. \A x \in Skips \cup {None} : [c EXCEPT !.skip = x] \in Controllers BY DEF Controllers
<1>10. \A x \in Skips : [c EXCEPT !.skip = x] \in Controllers BY DEF Controllers
<1>11. [c EXCEPT !.skip = None] \in Controllers BY DEF Controllers
<1>12. \A x \in Realigns : [c EXCEPT !.realign = x] \in Controllers BY DEF Controllers
<1>13. [c EXCEPT !.realign = None] \in Controllers BY DEF Controllers
<1>14. \A x \in Ends \cup {None} : [c EXCEPT !.ended = x] \in Controllers BY DEF Controllers
<1>15. [c EXCEPT !.ended = None] \in Controllers BY DEF Controllers
<1>16. \A x \in Exclusions : [c EXCEPT !.broken = x] \in Controllers BY DEF Controllers
<1>17. [c EXCEPT !.broken = None] \in Controllers BY DEF Controllers
<1> QED
  BY <1>1, <1>2, <1>3, <1>4, <1>5, <1>6, <1>7, <1>8, <1>9, <1>10, <1>11, <1>12, <1>13, <1>14,
     <1>15, <1>16, <1>17

(* An outcome without a replacement. *)
LEMMA SimpleResult ==
  ASSUME NEW c \in Controllers, NEW d, Quieter(d, c), NEW e \in Databases,
         NEW op \in Operations, op.type \notin Replacing
  PROVE  Result(c, Out(d, e, op))
<1>1. Out(d, e, op).c = d /\ Out(d, e, op).e = e /\ Out(d, e, op).op = op BY DEF Out
<1>2. Numbered(d.seq, op) BY DEF Numbered, Replacing
<1> DEFINE o == Out(d, e, op)
<1>3. o = Out(o.c, o.e, o.op) BY <1>1
<1> HIDE DEF o
<1>4. Result(c, o) BY <1>1, <1>2, <1>3 DEF Result, Quieter, o
<1> QED BY <1>4 DEF o

LEMMA QuietNoOp ==
  ASSUME NEW c \in Controllers, NEW d, Quieter(d, c), NEW e \in Databases
  PROVE  Result(c, Out(d, e, NoOp))
BY SimpleResult, SimpleOps DEF Replacing

(* What is quieter first, results in no more. *)
LEMMA QuieterFirst ==
  ASSUME NEW c \in Controllers, NEW d \in Controllers, Quieter(d, c), NEW o, Result(d, o)
  PROVE  Result(c, o)
<1>0. o.c.seq \in Nat /\ c.seq \in Nat /\ d.seq \in Nat BY DEF Result, Controllers
<1>1. o.c.seq >= c.seq BY <1>0 DEF Result, Quieter
<1>2. o.c.play \in {0, c.play} \/ (o.op.type = "start" /\ o.op.id = o.c.play)
  BY DEF Result, Quieter
<1>3. o.c.resume \in {0, c.resume} \/ (o.op.type = "start" /\ o.op.id = o.c.resume)
  BY DEF Result, Quieter
<1>4. \/ o.c.skip = None
      \/ c.skip # None /\ o.c.skip.id = c.skip.id
      \/ o.op.type = "switch" /\ o.op.id = o.c.skip.id
  BY DEF Result, Quieter
<1>5. \/ o.c.realign = None
      \/ c.realign # None /\ o.c.realign.id = c.realign.id
      \/ o.op.type = "roll" /\ o.op.id = o.c.realign.id
  BY DEF Result, Quieter
<1> QED BY <1>1, <1>2, <1>3, <1>4, <1>5 DEF Result

LEMMA QuieterTransitive ==
  ASSUME NEW c \in Controllers, NEW d \in Controllers, Quieter(d, c), NEW f, Quieter(f, d)
  PROVE  Quieter(f, c)
<1>1. f.seq \in Nat /\ c.seq \in Nat /\ d.seq \in Nat BY DEF Quieter, Controllers
<1> QED BY <1>1 DEF Quieter

(* Only the queue may differ. *)
Requeued(d, c) == d \in Controllers /\ d = [c EXCEPT !.q = d.q]

LEMMA RequeuedFields ==
  ASSUME NEW c \in Controllers, NEW d, Requeued(d, c)
  PROVE  /\ Quieter(d, c)
         /\ d.state = c.state /\ d.gen = c.gen /\ d.epoch = c.epoch /\ d.planned = c.planned
         /\ d.play = c.play /\ d.resume = c.resume /\ d.skip = c.skip
         /\ d.realign = c.realign /\ d.seq = c.seq /\ d.ended = c.ended /\ d.broken = c.broken
<1>1. d = [c EXCEPT !.q = d.q] BY DEF Requeued
<1>2. /\ d.state = c.state /\ d.gen = c.gen /\ d.epoch = c.epoch /\ d.planned = c.planned
      /\ d.play = c.play /\ d.resume = c.resume /\ d.skip = c.skip
      /\ d.realign = c.realign /\ d.seq = c.seq /\ d.ended = c.ended /\ d.broken = c.broken
  BY <1>1 DEF Controllers
<1>3. c.seq \in Nat BY DEF Controllers
<1>4. Quieter(d, c) BY <1>2, <1>3 DEF Quieter, Requeued
<1> QED BY <1>2, <1>4

LEMMA RequeuedTransitive ==
  ASSUME NEW c \in Controllers, NEW d \in Controllers, Requeued(d, c), NEW f, Requeued(f, d)
  PROVE  Requeued(f, c)
<1>1. d = [c EXCEPT !.q = d.q] /\ f = [d EXCEPT !.q = f.q] BY DEF Requeued
<1>2. f = [c EXCEPT !.q = f.q] BY <1>1 DEF Controllers
<1> QED BY <1>2 DEF Requeued

LEMMA FaultsAndRefills ==
  ASSUME NEW e \in Databases
  PROVE  /\ Fault(e) \subseteq Databases
         /\ Refill(e) \subseteq Databases
<1> USE StationAssumption
<1>1. Fault(e) \subseteq Databases
  <2>1. ASSUME e.faults # 0 PROVE [e EXCEPT !.faults = @ - 1] \in Databases
    <3>1. e.faults \in 0 .. MaxFaults /\ MaxFaults \in Nat BY DEF Databases
    <3>2. e.faults - 1 \in 0 .. MaxFaults BY <2>1, <3>1
    <3> QED BY <3>2 DEF Databases
  <2> QED BY <2>1 DEF Fault
<1>2. ASSUME NEW i \in {e.born + 1} \cap Items
      PROVE  [e EXCEPT !.rows = Append(@, i), !.born = i] \in Databases
  <2>1. e.rows \in Seq(Items) BY DEF Databases
  <2>2. Append(e.rows, i) \in Seq(Items) BY <2>1
  <2>3. i \in Nat OBVIOUS
  <2> QED BY <2>2, <2>3 DEF Databases
<1>3. Refill(e) \subseteq Databases BY <1>2 DEF Refill
<1> QED BY <1>1, <1>3

(* An outcome of a database call: only the queue may have changed. *)
Fetched(c, o) ==
  /\ o = Out(o.c, o.e, o.op)
  /\ o.op = NoOp /\ o.e \in Databases /\ Requeued(o.c, c)

LEMMA FetchedTransitive ==
  ASSUME NEW c \in Controllers, NEW d \in Controllers, Requeued(d, c), NEW o, Fetched(d, o)
  PROVE  Fetched(c, o)
BY RequeuedTransitive DEF Fetched

LEMMA SameIsFetched ==
  ASSUME NEW c \in Controllers, NEW e \in Databases
  PROVE  Fetched(c, Out(c, e, NoOp))
<1>1. c = [c EXCEPT !.q = c.q] BY DEF Controllers
<1> QED BY <1>1 DEF Fetched, Requeued, Out

LEMMA ReloadFetches ==
  ASSUME NEW c \in Controllers, NEW e \in Databases, NEW o \in ReloadFromDb(c, e)
  PROVE  Fetched(c, o)
<1> DEFINE d == [c EXCEPT !.q = Replaced(@, e.rows, TRUE)]
<1>1. c.q \in Queues /\ e.rows \in Seq(Items) BY DEF Controllers, Databases
<1>2. Replaced(c.q, e.rows, TRUE) \in Queues BY <1>1, QueueTypes
<1>3. d \in Controllers /\ d = [c EXCEPT !.q = d.q] BY <1>2 DEF Controllers
<1>4. CASE o = Out(d, e, NoOp) BY <1>3, <1>4 DEF Fetched, Requeued, Out
<1>5. CASE \E f \in Fault(e) : o = Out(c, f, NoOp)
  BY <1>5, FaultsAndRefills, SameIsFetched
<1> QED BY <1>4, <1>5 DEF ReloadFromDb

LEMMA TopUpFetches ==
  ASSUME NEW c \in Controllers, NEW e \in Databases, NEW o \in TopUp(c, e)
  PROVE  Fetched(c, o)
<1>1. PICK f \in Refill(e) \cup Fault(e) : o \in ReloadFromDb(c, f) BY DEF TopUp
<1>2. f \in Databases BY FaultsAndRefills
<1> QED BY <1>1, <1>2, ReloadFetches

LEMMA CommitFetches ==
  ASSUME NEW c \in Controllers, NEW e \in Databases, NEW song \in Identities,
         NEW anchor \in SUBSET Items, NEW o \in CommitCurrent(c, e, song, anchor)
  PROVE  Fetched(c, o)
<1> DEFINE d == [c EXCEPT !.q = Committed(@, song, anchor)]
<1>1. c.q \in Queues BY DEF Controllers
<1>2. Committed(c.q, song, anchor) \in Queues BY <1>1, QueueTypes
<1>3. d \in Controllers /\ d = [c EXCEPT !.q = d.q] BY <1>2 DEF Controllers
<1>4. Requeued(d, c) BY <1>3 DEF Requeued
<1>5. CASE \E f \in Refill(e) : o \in ReloadFromDb(d, f)
  <2>1. PICK f \in Refill(e) : o \in ReloadFromDb(d, f) BY <1>5
  <2>2. f \in Databases BY FaultsAndRefills
  <2> HIDE DEF d
  <2>3. Fetched(d, o) BY <1>3, <2>1, <2>2, ReloadFetches
  <2> QED BY <1>3, <1>4, <2>3, FetchedTransitive
<1>6. CASE \E f \in Fault(e) : o = Out(d, f, NoOp)
  <2>1. PICK f \in Fault(e) : o = Out(d, f, NoOp) BY <1>6
  <2>2. f \in Databases BY FaultsAndRefills
  <2> HIDE DEF d
  <2>3. Fetched(d, o) BY <1>3, <2>1, <2>2, SameIsFetched
  <2> QED BY <1>3, <1>4, <2>3, FetchedTransitive
<1> QED BY <1>5, <1>6 DEF CommitCurrent

LEMMA FetchedResult ==
  ASSUME NEW c \in Controllers, NEW o, Fetched(c, o)
  PROVE  /\ o.c \in Controllers /\ o.e \in Databases
         /\ Quieter(o.c, c)
         /\ o.op.type = "none" /\ o.op \in Operations
         /\ Result(c, o)
<1>1. /\ o.c \in Controllers /\ o.e \in Databases /\ o.op = NoOp
      /\ o = Out(o.c, o.e, o.op)
  BY DEF Fetched, Requeued
<1>2. Quieter(o.c, c) BY RequeuedFields DEF Fetched
<1>3. Numbered(o.c.seq, o.op) BY <1>1, SimpleOps DEF Numbered, Replacing
<1> QED BY <1>1, <1>2, <1>3, SimpleOps DEF Result, Quieter

-----------------------------------------------------------------------------
(* The staged branch.                                                      *)

LEMMA SuccessorTypes ==
  ASSUME NEW c \in Controllers
  PROVE  /\ EffectiveSuccessor(c) \in Identities
         /\ Excluded(c) \subseteq Identities
         /\ AnchorAfterCurrent(c.q) \subseteq Items
         /\ \A item : SuccessorAfter(c.q, item) \in Identities
         /\ c.q.cur \in Identities
         /\ Key(c.planned) \in Identities
<1>1. c.q \in Queues BY DEF Controllers
<1>2. c.q.items \in Seq(Items) /\ c.q.cur \in Identities BY <1>1 DEF Queues, Identities
<1>3. EffectiveSuccessor(c) \in Identities
  BY <1>2, FirstIsRow DEF EffectiveSuccessor, Identities
<1>4. Excluded(c) \subseteq Identities BY DEF Excluded, Controllers, Exclusions
<1>5. Key(c.planned) \in Identities BY DEF Key, Controllers, Nexts, Identities
<1> QED BY <1>1, <1>2, <1>3, <1>4, <1>5, QueueTypes

LEMMA PlannedTypes ==
  ASSUME NEW song \in Identities, NEW anchor \in SUBSET Items
  PROVE  Planned(song, anchor) \in Nexts \cup {None} /\ Key(Planned(song, anchor)) \in Identities
BY DEF Planned, Nexts, Key, Identities

LEMMA ExcludeKeeps ==
  ASSUME NEW c \in Controllers, NEW track \in Identities
  PROVE  /\ Exclude(c, track) \in Controllers
         /\ Quieter(Exclude(c, track), c)
         /\ Exclude(c, track).q = c.q /\ Exclude(c, track).state = c.state
         /\ Exclude(c, track).skip = c.skip
<1>1. CASE c.q.cur = None BY <1>1, QuieterThanItself DEF Exclude
<1>2. CASE c.q.cur # None
  <2> DEFINE x == [gen |-> c.gen, cur |-> c.q.cur, tracks |-> Excluded(c) \cup {track}]
  <2>1. x \in Exclusions BY SuccessorTypes DEF Exclusions, Controllers
  <2>2. Exclude(c, track) = [c EXCEPT !.broken = x] BY <1>2 DEF Exclude
  <2> HIDE DEF x
  <2>3. Exclude(c, track) \in Controllers
    <3>1. [c EXCEPT !.broken = x] \in Controllers BY <2>1, FieldByField
    <3> QED BY <2>2, <3>1
  <2>4. c.seq \in Nat BY DEF Controllers
  <2> QED BY <2>2, <2>3, <2>4 DEF Quieter, Controllers
<1> QED BY <1>1, <1>2

LEMMA RealignResult ==
  ASSUME NEW c \in Controllers, NEW e \in Databases, NEW cur \in Identities,
         NEW expected \in Identities, NEW desired \in Identities, NEW broken \in BOOLEAN,
         NEW retries \in Nat
  PROVE  Result(c, PrepareRealign(c, e, cur, expected, desired, broken, retries))
<1> DEFINE o == PrepareRealign(c, e, cur, expected, desired, broken, retries)
           r == c.realign
           same == r # None /\ r.gen = c.gen /\ r.cur = cur /\ r.expected = expected
           id == c.seq + 1
           new == [id |-> id, gen |-> c.gen, cur |-> cur, expected |-> expected,
                   desired |-> desired, dirty |-> FALSE, broken |-> broken, retries |-> retries]
           op == [NoOp EXCEPT !.type = "roll", !.gen = c.gen, !.cur = cur,
                              !.old = expected, !.next = desired, !.id = id]
           d == [c EXCEPT !.seq = id, !.realign = new]
<1>0. c.seq \in Nat /\ c.gen \in Nat /\ id \in Nat BY DEF Controllers
<1>1. CASE ~ same
  <2>1. o = Out(d, e, op) BY <1>1 DEF PrepareRealign
  <2>2. new \in Realigns BY <1>0 DEF Realigns
  <2>4. op \in Operations /\ op.type = "roll" /\ op.id = id
    <3> HIDE DEF id
    <3> QED BY <1>0 DEF NoOp, Operations, Ops
  <2>5. new.id = id OBVIOUS
  <2> HIDE DEF new, op, id
  <2>6. /\ d \in Controllers /\ d.seq = id /\ d.realign = new /\ d.play = c.play
        /\ d.resume = c.resume /\ d.skip = c.skip
    BY <1>0, <2>2 DEF Controllers
  <2>7. id \in Nat /\ id > c.seq /\ id \in 1 .. id BY <1>0 DEF id
  <2>8. Numbered(d.seq, op) BY <2>4, <2>6, <2>7 DEF Numbered
  <2>9. o.c = d /\ o.e = e /\ o.op = op BY <2>1 DEF Out
  <2> HIDE DEF d, o
  <2>10. o = Out(o.c, o.e, o.op) BY <2>1, <2>9
  <2>11. o.c.seq >= c.seq BY <1>0, <2>6, <2>7, <2>9
  <2> HIDE DEF id
  <2>12. Result(c, o)
    BY <2>4, <2>5, <2>6, <2>8, <2>9, <2>10, <2>11, QuieterThanItself DEF Result, Quieter
  <2> QED BY <2>12 DEF o
<1>2. CASE same /\ broken
  <2> DEFINE m == IF r.retries > 1 THEN r.retries ELSE 1
             f == [c EXCEPT !.realign.broken = TRUE, !.realign.retries = m]
             n == [r EXCEPT !.broken = TRUE, !.retries = m]
  <2>1. o = Out(f, e, NoOp) BY <1>2 DEF PrepareRealign
  <2>2. r \in Realigns BY <1>2 DEF Controllers
  <2>3. m \in Nat BY <2>2 DEF Realigns
  <2> HIDE DEF m
  <2>4. n \in Realigns /\ n.id = r.id BY <2>2, <2>3 DEF Realigns
  <2>5. f = [c EXCEPT !.realign = n] BY DEF Controllers
  <2> HIDE DEF n
  <2>6. f \in Controllers BY <2>4, <2>5, FieldByField
  <2>7. f.seq = c.seq /\ f.play = c.play /\ f.resume = c.resume /\ f.skip = c.skip
        /\ f.realign = n
    BY <2>5 DEF Controllers
  <2> HIDE DEF f
  <2>8. Quieter(f, c) BY <1>0, <1>2, <2>4, <2>6, <2>7 DEF Quieter
  <2> QED BY <2>1, <2>8, QuietNoOp
<1>3. CASE same /\ ~ broken
  <2>1. o = Out(c, e, NoOp) BY <1>3 DEF PrepareRealign
  <2> QED BY <2>1, QuieterThanItself, QuietNoOp
<1> QED BY <1>1, <1>2, <1>3

LEMMA RealignResults ==
  ASSUME NEW c \in Controllers, NEW e \in Databases, NEW cur \in Identities,
         NEW expected \in Identities, NEW desired \in Identities, NEW retries \in Nat
  PROVE  /\ Result(c, PrepareRealign(c, e, cur, expected, desired, TRUE, retries))
         /\ Result(c, PrepareRealign(c, e, cur, expected, desired, FALSE, retries))
<1> DEFINE yes == TRUE
           no == FALSE
<1>1. yes \in BOOLEAN /\ no \in BOOLEAN OBVIOUS
<1>2. /\ Result(c, PrepareRealign(c, e, cur, expected, desired, yes, retries))
      /\ Result(c, PrepareRealign(c, e, cur, expected, desired, no, retries))
  <2> HIDE DEF yes, no
  <2> QED BY <1>1, RealignResult
<1> QED BY <1>2

-----------------------------------------------------------------------------
(* Starting, stopping, skipping.                                           *)

LEMMA ForgetPlaysKeeps ==
  ASSUME NEW c \in Controllers
  PROVE  /\ ForgetPlays(c) \in Controllers
         /\ Quieter(ForgetPlays(c), c)
         /\ \A x \in {"q", "skip", "play", "seq", "resume", "state"} : ForgetPlays(c)[x] = c[x]
<1>1. ForgetPlays(c) \in Controllers BY DEF ForgetPlays, Controllers
<1>2. \A x \in {"q", "skip", "play", "seq", "resume", "state", "realign"} :
        ForgetPlays(c)[x] = c[x]
  BY DEF ForgetPlays, Controllers
<1>3. c.seq \in Nat BY DEF Controllers
<1> QED BY <1>1, <1>2, <1>3 DEF Quieter

LEMMA ReplaceResult ==
  ASSUME NEW c \in Controllers, NEW e \in Databases, c.q.cur # None
  PROVE  LET o == ReplaceCurrent(c, e, c.seq + 1)
         IN  /\ Result(c, o)
             /\ o.op.type = "start" /\ o.op.id = c.seq + 1
             /\ o.c.play = c.play /\ o.c.resume = c.resume
<1> DEFINE id == c.seq + 1
           p == Planned(PeekNext(c.q), AnchorAfterCurrent(c.q))
           gen == c.gen + 1
           epoch == c.epoch + 1
           d == [c EXCEPT !.planned = p, !.gen = gen, !.epoch = epoch,
                          !.broken = None, !.realign = None, !.seq = id]
           op == [NoOp EXCEPT !.type = "start", !.gen = d.gen, !.epoch = d.epoch,
                              !.cur = c.q.cur, !.next = Key(d.planned), !.id = id]
           o == ReplaceCurrent(c, e, id)
<1>0. c.seq \in Nat /\ c.gen \in Nat /\ c.epoch \in Nat /\ id \in Nat /\ c.q \in Queues
      /\ gen \in Nat /\ epoch \in Nat
      /\ c.q.cur \in Items
  BY DEF Controllers, Queues
<1>1. o = Out(d, e, op) BY DEF ReplaceCurrent
<1>2. PeekNext(c.q) \in Identities /\ AnchorAfterCurrent(c.q) \subseteq Items
  BY <1>0, QueueTypes
<1>3. p \in Nexts \cup {None} /\ Key(p) \in Identities BY <1>2, PlannedTypes
<1> HIDE DEF p, id, gen, epoch
<1>4. /\ d \in Controllers /\ d.seq = id /\ d.realign = None /\ d.play = c.play
      /\ d.resume = c.resume /\ d.skip = c.skip /\ d.planned = p
  BY <1>0, <1>3 DEF Controllers
<1>5. d.gen \in Nat /\ d.epoch \in Nat BY <1>4 DEF Controllers
<1> HIDE DEF d
<1>6. c.q.cur \in Identities /\ Key(d.planned) \in Identities BY <1>0, <1>3, <1>4 DEF Identities
<1>7. op \in Operations /\ op.type = "start" /\ op.id = id /\ op.cur = c.q.cur
  BY <1>0, <1>5, <1>6 DEF NoOp, Operations, Ops, Identities
<1> HIDE DEF op
<1>8. id > c.seq /\ id \in 1 .. id BY <1>0 DEF id
<1>9. Numbered(d.seq, op) BY <1>0, <1>4, <1>7, <1>8 DEF Numbered
<1>10. o.c = d /\ o.e = e /\ o.op = op BY <1>1 DEF Out
<1>11. o = Out(o.c, o.e, o.op) BY <1>1, <1>10
<1> HIDE DEF o
<1>12. Result(c, o) BY <1>0, <1>4, <1>7, <1>8, <1>9, <1>10, <1>11 DEF Result
<1> QED BY <1>4, <1>7, <1>10, <1>12 DEF o, id

LEMMA StopAfterResult ==
  ASSUME NEW c \in Controllers, NEW e \in Databases
  PROVE  Result(c, StopAfterCurrent(c, e))
<1> DEFINE f == ForgetPlays(c)
           q == Finished(f.q)
           gen == f.gen + 1
           d == [f EXCEPT !.q = q, !.gen = gen, !.resume = 0, !.play = 0,
                          !.idle = TRUE, !.state = "Stopped"]
<1>1. f \in Controllers /\ Quieter(f, c) BY ForgetPlaysKeeps
<1>2. StopAfterCurrent(c, e) = Out(d, e, StopOp) BY DEF StopAfterCurrent
<1> HIDE DEF f
<1>3. f.q \in Queues /\ f.gen \in Nat /\ f.seq \in Nat BY <1>1 DEF Controllers
<1>4. q \in Queues /\ gen \in Nat BY <1>3, QueueTypes
<1> HIDE DEF q, gen
<1>5. d \in Controllers BY <1>1, <1>4, FieldByField
<1>6. d.seq = f.seq /\ d.skip = f.skip /\ d.realign = f.realign /\ d.play = 0 /\ d.resume = 0
  BY <1>1 DEF Controllers
<1> HIDE DEF d
<1>7. Quieter(d, f) BY <1>3, <1>5, <1>6 DEF Quieter
<1>8. Quieter(d, c) BY <1>1, <1>7, QuieterTransitive
<1> QED BY <1>2, <1>8, SimpleResult, SimpleOps DEF Replacing

(* What a pause and a fatal error leave of a skip in flight. *)
LEMMA SilencedSkip ==
  ASSUME NEW s \in Skips \cup {None}
  PROVE  LET t == IF s = None THEN None ELSE [s EXCEPT !.play = 0, !.toPlay = FALSE]
         IN  t \in Skips \cup {None} /\ (t = None \/ (s # None /\ t.id = s.id))
BY DEF Skips

LEMMA StopNowQuieter ==
  ASSUME NEW c \in Controllers
  PROVE  Quieter(StopNow(c), c)
<1> DEFINE f == ForgetPlays(c)
           t == IF f.skip = None THEN None ELSE [f.skip EXCEPT !.play = 0, !.toPlay = FALSE]
           d == [f EXCEPT !.idle = FALSE, !.resume = 0, !.play = 0, !.broken = None,
                          !.ended = None, !.realign = None, !.planned = None,
                          !.state = "Stopped", !.skip = t]
<1>1. f \in Controllers /\ f.skip = c.skip /\ f.seq = c.seq BY ForgetPlaysKeeps
<1>2. StopNow(c) = d BY DEF StopNow
<1>3. c.skip \in Skips \cup {None} /\ c.seq \in Nat BY DEF Controllers
<1>4. t \in Skips \cup {None} /\ (t = None \/ (c.skip # None /\ t.id = c.skip.id))
  BY <1>1, <1>3, SilencedSkip
<1> HIDE DEF f, t
<1>5. d \in Controllers
  <2> DEFINE h == [f EXCEPT !.idle = FALSE, !.resume = 0, !.play = 0, !.broken = None,
                            !.ended = None]
             i == [h EXCEPT !.realign = None, !.planned = None, !.state = "Stopped",
                            !.skip = t]
  <2>1. h \in Controllers BY <1>1, FieldByField
  <2>2. d = i OBVIOUS
  <2> HIDE DEF h, d
  <2>3. i \in Controllers BY <1>4, <2>1, FieldByField
  <2> QED BY <2>2, <2>3
<1>6. d.seq = f.seq /\ d.skip = t /\ d.realign = None /\ d.play = 0 /\ d.resume = 0
  BY <1>1 DEF Controllers
<1> HIDE DEF d
<1> QED BY <1>1, <1>2, <1>3, <1>4, <1>5, <1>6 DEF Quieter

LEMMA PauseNowQuieter ==
  ASSUME NEW c \in Controllers
  PROVE  Quieter(PauseNow(c), c)
<1> DEFINE f == ForgetPlays(c)
           t == IF f.skip = None THEN None ELSE [f.skip EXCEPT !.play = 0, !.toPlay = FALSE]
           d == [f EXCEPT !.idle = FALSE, !.resume = 0, !.play = 0, !.state = "Paused",
                          !.skip = t]
<1>1. f \in Controllers /\ f.skip = c.skip /\ f.seq = c.seq /\ Quieter(f, c)
  BY ForgetPlaysKeeps
<1>2. PauseNow(c) = d BY DEF PauseNow
<1>3. c.skip \in Skips \cup {None} /\ c.seq \in Nat BY DEF Controllers
<1>4. t \in Skips \cup {None} /\ (t = None \/ (c.skip # None /\ t.id = c.skip.id))
  BY <1>1, <1>3, SilencedSkip
<1> HIDE DEF f, t
<1>5. d \in Controllers BY <1>1, <1>4, FieldByField
<1>6. d.seq = f.seq /\ d.skip = t /\ d.realign = f.realign /\ d.play = 0 /\ d.resume = 0
  BY <1>1 DEF Controllers
<1> HIDE DEF d
<1> QED BY <1>1, <1>2, <1>3, <1>4, <1>5, <1>6 DEF Quieter

LEMMA PrepareSkipResult ==
  ASSUME NEW c \in Controllers, NEW e \in Databases, NEW next \in Items
  PROVE  Result(c, PrepareSkip(c, e, next))
<1> DEFINE id == c.seq + 1
           staged == SuccessorAfter(c.q, next)
           s == [id |-> id, gen |-> c.gen + 1, song |-> next, anchor |-> AnchorAfterCurrent(c.q),
                 staged |-> staged, play |-> c.play, badCur |-> FALSE, badNext |-> FALSE,
                 toPlay |-> FALSE]
           d == [c EXCEPT !.seq = id, !.skip = s]
           op == [NoOp EXCEPT !.type = "switch", !.gen = c.gen + 1, !.epoch = c.epoch,
                              !.old = c.q.cur, !.cur = next, !.next = staged, !.id = id]
           o == PrepareSkip(c, e, next)
<1>0. c.seq \in Nat /\ c.gen \in Nat /\ c.epoch \in Nat /\ c.play \in Nat /\ id \in Nat
  BY DEF Controllers
<1>1. o = Out(d, e, op) BY DEF PrepareSkip
<1>2. /\ staged \in Identities /\ AnchorAfterCurrent(c.q) \subseteq Items
      /\ c.q.cur \in Identities
  BY SuccessorTypes
<1> HIDE DEF staged, id
<1>3. s \in Skips /\ s.id = id BY <1>0, <1>2 DEF Skips
<1>4. c.gen + 1 \in Nat /\ next \in Identities BY <1>0 DEF Identities
<1>5. op \in Operations /\ op.type = "switch" /\ op.id = id /\ op.cur = next
  BY <1>0, <1>2, <1>4 DEF NoOp, Operations, Ops
<1> HIDE DEF s, op
<1>6. /\ d \in Controllers /\ d.seq = id /\ d.skip = s /\ d.play = c.play
      /\ d.resume = c.resume /\ d.realign = c.realign
  BY <1>0, <1>3 DEF Controllers
<1>7. id >= c.seq /\ id \in 1 .. id BY <1>0 DEF id
<1>8. Numbered(d.seq, op) BY <1>5, <1>6, <1>7 DEF Numbered
<1>9. o.c = d /\ o.e = e /\ o.op = op BY <1>1 DEF Out
<1>10. o = Out(o.c, o.e, o.op) BY <1>1, <1>9
<1> HIDE DEF d, o
<1>11. Result(c, o)
  BY <1>0, <1>3, <1>5, <1>6, <1>7, <1>8, <1>9, <1>10, QuieterThanItself DEF Result, Quieter
<1> QED BY <1>11 DEF o

(* A skip that did not find another one in flight. *)
LEMMA SkipResult ==
  ASSUME NEW c0 \in Controllers, NEW e \in Databases, NEW o \in Skip(c0, e)
  PROVE  Result(c0, o)
<1> DEFINE c == [c0 EXCEPT !.resume = 0]
           Choose(f) == IF EffectiveSuccessor(f.c) # None THEN {f} ELSE TopUp(f.c, f.e)
           found == UNION {Choose(f) : f \in ReloadFromDb(c, e)}
           Decide(f) == IF EffectiveSuccessor(f.c) = None THEN StopAfterCurrent(f.c, f.e)
                        ELSE PrepareSkip(f.c, f.e, EffectiveSuccessor(f.c))
<1>1. /\ c \in Controllers /\ c.play = c0.play /\ c.resume = 0 /\ c.skip = c0.skip
      /\ c.realign = c0.realign /\ c.seq = c0.seq
  BY DEF Controllers
<1>2. c0.seq \in Nat BY DEF Controllers
<1>3. \/ o = Out(c, e, Refused)
      \/ o = StopAfterCurrent(c, e)
      \/ o = Decide(Out(c, e, NoOp))
      \/ \E f \in found : o = Decide(f)
  BY DEF Skip
<1> HIDE DEF c
<1>4. Quieter(c, c0) BY <1>1, <1>2 DEF Quieter
<1>5. ASSUME NEW f, Fetched(c, f) PROVE Result(c, Decide(f))
  <2>1. f.c \in Controllers /\ f.e \in Databases /\ Quieter(f.c, c)
    BY <1>1, <1>5, FetchedResult
  <2>2. Result(f.c, Decide(f))
    <3>1. CASE EffectiveSuccessor(f.c) = None BY <2>1, <3>1, StopAfterResult
    <3>2. CASE EffectiveSuccessor(f.c) # None
      <4>1. EffectiveSuccessor(f.c) \in Items BY <2>1, <3>2, SuccessorTypes DEF Identities
      <4> QED BY <2>1, <3>2, <4>1, PrepareSkipResult
    <3> QED BY <3>1, <3>2
  <2> HIDE DEF Decide
  <2> QED BY <1>1, <2>1, <2>2, QuieterFirst
<1>6. ASSUME NEW f \in found PROVE Fetched(c, f)
  <2>1. PICK g \in ReloadFromDb(c, e) : f \in Choose(g) OBVIOUS
  <2>2. Fetched(c, g) BY <1>1, <2>1, ReloadFetches
  <2>3. g.c \in Controllers /\ g.e \in Databases /\ Requeued(g.c, c)
    BY <2>2 DEF Fetched, Requeued
  <2>4. f = g \/ f \in TopUp(g.c, g.e) BY <2>1
  <2>5. ASSUME f \in TopUp(g.c, g.e) PROVE Fetched(c, f)
    BY <1>1, <2>3, <2>5, TopUpFetches, FetchedTransitive
  <2> QED BY <2>2, <2>4, <2>5
<1>7. Result(c, o)
  <2>1. CASE o = Out(c, e, Refused)
    BY <1>1, <2>1, QuieterThanItself, SimpleResult, SimpleOps DEF Replacing
  <2>2. CASE o = StopAfterCurrent(c, e) BY <1>1, <2>2, StopAfterResult
  <2>3. CASE o = Decide(Out(c, e, NoOp))
    <3>1. Fetched(c, Out(c, e, NoOp)) BY <1>1, SameIsFetched
    <3> HIDE DEF Decide
    <3> QED BY <1>5, <2>3, <3>1
  <2>4. CASE \E f \in found : o = Decide(f)
    <3> HIDE DEF Decide, found
    <3> QED BY <1>5, <1>6, <2>4
  <2> QED BY <1>3, <2>1, <2>2, <2>3, <2>4
<1> QED BY <1>1, <1>4, <1>7, QuieterFirst

(* An end that is remembered and tried once more. *)
LEMMA EndedKeeps ==
  ASSUME NEW c \in Controllers, NEW x \in Ends \cup {None}
  PROVE  /\ [c EXCEPT !.ended = x] \in Controllers
         /\ Quieter([c EXCEPT !.ended = x], c)
<1> DEFINE d == [c EXCEPT !.ended = x]
<1>1. d \in Controllers BY FieldByField
<1>2. d.play = c.play /\ d.resume = c.resume /\ d.skip = c.skip /\ d.realign = c.realign
      /\ d.seq = c.seq /\ c.seq \in Nat
  BY DEF Controllers
<1> HIDE DEF d
<1>3. Quieter(d, c) BY <1>1, <1>2 DEF Quieter
<1> QED BY <1>1, <1>3 DEF d

LEMMA RetryResult ==
  ASSUME NEW c \in Controllers, NEW e \in Databases, NEW o \in RetryEnded(c, e)
  PROVE  Result(c, o)
<1> DEFINE x == [c.ended EXCEPT !.retries = @ - 1]
           d == [c EXCEPT !.ended.retries = @ - 1]
<1>1. \/ o = Out(c, e, NoOp)
      \/ o = Out([c EXCEPT !.ended = None], e, NoOp)
      \/ o = Out(c, e, Refused)
      \/ c.ended # None /\ c.ended.retries # 0 /\ o \in Skip(d, e)
  BY DEF RetryEnded
<1>2. CASE o = Out(c, e, NoOp) BY <1>2, QuieterThanItself, QuietNoOp
<1>3. CASE o = Out([c EXCEPT !.ended = None], e, NoOp) BY <1>3, EndedKeeps, QuietNoOp
<1>4. CASE o = Out(c, e, Refused)
  BY <1>4, QuieterThanItself, SimpleResult, SimpleOps DEF Replacing
<1>5. CASE c.ended # None /\ c.ended.retries # 0 /\ o \in Skip(d, e)
  <2>1. c.ended \in Ends BY <1>5 DEF Controllers
  <2>2. c.ended.retries - 1 \in Nat BY <1>5, <2>1 DEF Ends
  <2>3. x \in Ends BY <2>1, <2>2 DEF Ends
  <2>4. d = [c EXCEPT !.ended = x] BY DEF Controllers
  <2>5. d \in Controllers /\ Quieter(d, c) BY <2>3, <2>4, EndedKeeps
  <2> HIDE DEF d
  <2>6. Result(d, o) BY <1>5, <2>5, SkipResult
  <2> QED BY <2>5, <2>6, QuieterFirst
<1> QED BY <1>1, <1>2, <1>3, <1>4, <1>5

LEMMA PlayFromStoppedResult ==
  ASSUME NEW c \in Controllers, NEW e \in Databases, NEW o \in PlayFromStopped(c, e)
  PROVE  Result(c, o)
<1> DEFINE d == ForgetPlays(c)
           filled == IF d.q.cur = None THEN TopUp(d, e)
                     ELSE (UNION {ReloadFromDb(d, f) : f \in Refill(e)})
                            \cup {Out(d, f, NoOp) : f \in Fault(e)}
           Start(f) == ReplaceCurrent(f.c, f.e, f.c.seq + 1)
           Begin(f) == IF f.c.q.cur = None THEN Out([f.c EXCEPT !.idle = TRUE], f.e, StopOp)
                       ELSE [Start(f) EXCEPT !.c = [@ EXCEPT !.idle = FALSE,
                                                             !.play = Start(f).op.id]]
<1>1. d \in Controllers /\ Quieter(d, c) BY ForgetPlaysKeeps
<1>2. o = Out(c, e, Refused) \/ \E f \in filled : o = Begin(f) BY DEF PlayFromStopped
<1>3. CASE o = Out(c, e, Refused)
  BY <1>3, QuieterThanItself, SimpleResult, SimpleOps DEF Replacing
<1>4. ASSUME NEW f \in filled PROVE Fetched(d, f)
  <2> HIDE DEF d
  <2>1. CASE f \in TopUp(d, e) BY <1>1, <2>1, TopUpFetches
  <2>2. CASE \E g \in Refill(e) : f \in ReloadFromDb(d, g)
    BY <1>1, <2>2, FaultsAndRefills, ReloadFetches
  <2>3. CASE \E g \in Fault(e) : f = Out(d, g, NoOp)
    BY <1>1, <2>3, FaultsAndRefills, SameIsFetched
  <2> QED BY <2>1, <2>2, <2>3
<1>5. ASSUME NEW f, Fetched(d, f) PROVE Result(d, Begin(f))
  <2> HIDE DEF d
  <2>1. f.c \in Controllers /\ f.e \in Databases /\ Quieter(f.c, d)
    BY <1>1, <1>5, FetchedResult
  <2>2. Result(f.c, Begin(f))
    <3>1. CASE f.c.q.cur = None
      <4> DEFINE i == [f.c EXCEPT !.idle = TRUE]
      <4>1. i \in Controllers BY <2>1, FieldByField
      <4>2. /\ i.play = f.c.play /\ i.resume = f.c.resume /\ i.skip = f.c.skip
            /\ i.realign = f.c.realign /\ i.seq = f.c.seq /\ f.c.seq \in Nat
        BY <2>1 DEF Controllers
      <4>3. Begin(f) = Out(i, f.e, StopOp) BY <3>1
      <4> HIDE DEF i, Begin
      <4>4. Quieter(i, f.c) BY <4>1, <4>2 DEF Quieter
      <4> QED BY <2>1, <4>3, <4>4, SimpleResult, SimpleOps DEF Replacing
    <3>2. CASE f.c.q.cur # None
      <4> DEFINE p == Start(f)
                 h == p.c
                 id == p.op.id
                 i == [h EXCEPT !.idle = FALSE, !.play = id]
      <4>1. /\ Result(f.c, p) /\ p.op.type = "start" /\ p.op.id = f.c.seq + 1
            /\ p.c.play = f.c.play /\ p.c.resume = f.c.resume
        BY <2>1, <3>2, ReplaceResult
      <4>2. Begin(f) = [p EXCEPT !.c = i] BY <3>2
      <4> HIDE DEF p, Begin, Start
      <4>3. p = Out(p.c, p.e, p.op) /\ p.c \in Controllers /\ p.op.id \in Nat
        BY <2>1, <4>1 DEF Result, Operations
      <4>4. i \in Controllers
        <5>1. h \in Controllers /\ id \in Nat BY <4>3
        <5> HIDE DEF h, id
        <5> QED BY <5>1, FieldByField
      <4>5. /\ i.play = p.op.id /\ i.resume = p.c.resume /\ i.skip = p.c.skip
            /\ i.realign = p.c.realign /\ i.seq = p.c.seq
        BY <4>3 DEF Controllers
      <4> HIDE DEF i
      <4>6. Begin(f) = Out(i, p.e, p.op) BY <4>2, <4>3 DEF Out
      <4>7. Numbered(i.seq, p.op) BY <4>1, <4>5 DEF Result, Numbered
      <4>8. Result(f.c, Out(i, p.e, p.op))
        <5>1. Out(i, p.e, p.op).c = i /\ Out(i, p.e, p.op).e = p.e /\ Out(i, p.e, p.op).op = p.op
          BY DEF Out
        <5> QED BY <4>1, <4>4, <4>5, <4>7, <5>1 DEF Result
      <4> QED BY <4>6, <4>8
    <3> QED BY <3>1, <3>2
  <2> HIDE DEF Begin
  <2> QED BY <1>1, <2>1, <2>2, QuieterFirst
<1>6. CASE \E f \in filled : o = Begin(f)
  <2> HIDE DEF d, filled, Begin
  <2>1. Result(d, o) BY <1>4, <1>5, <1>6
  <2> QED BY <1>1, <2>1, QuieterFirst
<1> QED BY <1>2, <1>3, <1>6

LEMMA PlayFromActiveResult ==
  ASSUME NEW c \in Controllers, NEW e \in Databases, NEW o \in PlayFromActive(c, e)
  PROVE  Result(c, o)
<1> DEFINE d == [c EXCEPT !.idle = FALSE]
           Playing(f) == [f.c EXCEPT !.state = "Playing"]
           ThenPlay(f) == [f EXCEPT !.c = [@ EXCEPT !.skip.toPlay = TRUE]]
<1>1. d \in Controllers BY FieldByField
<1>2. /\ d.play = c.play /\ d.resume = c.resume /\ d.skip = c.skip
      /\ d.realign = c.realign /\ d.seq = c.seq /\ c.seq \in Nat
  BY DEF Controllers
<1> HIDE DEF d
<1>4. Quieter(d, c) BY <1>1, <1>2 DEF Quieter
<1>5. PICK f \in RetryEnded(d, e) :
        \/ o = f
        \/ f.op.type = "none" /\ o = Out(Playing(f), f.e, Toggle(TRUE))
        \/ f.c.skip # None /\ o = ThenPlay(f)
  BY DEF PlayFromActive, d
<1>6. Result(d, f) BY <1>1, RetryResult
<1>7. f = Out(f.c, f.e, f.op) /\ f.c \in Controllers /\ f.e \in Databases /\ f.op \in Operations
  BY <1>6 DEF Result
<1>8. CASE o = f BY <1>1, <1>4, <1>6, <1>8, QuieterFirst
<1>9. CASE f.op.type = "none" /\ o = Out(Playing(f), f.e, Toggle(TRUE))
  <2>1. Playing(f) \in Controllers BY <1>7, FieldByField
  <2>2. /\ Playing(f).play = f.c.play /\ Playing(f).resume = f.c.resume
        /\ Playing(f).skip = f.c.skip /\ Playing(f).realign = f.c.realign
        /\ Playing(f).seq = f.c.seq
    BY <1>7 DEF Controllers
  <2> HIDE DEF Playing
  <2>3. Quieter(Playing(f), d) BY <1>6, <1>9, <2>1, <2>2 DEF Quieter, Result
  <2>4. Quieter(Playing(f), c) BY <1>1, <1>4, <2>3, QuieterTransitive
  <2> QED BY <1>7, <1>9, <2>4, SimpleResult, SimpleOps DEF Replacing
<1>10. CASE f.c.skip # None /\ o = ThenPlay(f)
  <2> DEFINE s == [f.c.skip EXCEPT !.toPlay = TRUE]
             i == [f.c EXCEPT !.skip = s]
  <2>1. f.c.skip \in Skips BY <1>7, <1>10 DEF Controllers
  <2>2. s \in Skips /\ s.id = f.c.skip.id BY <2>1 DEF Skips
  <2>3. ThenPlay(f) = [f EXCEPT !.c = i] BY <1>7 DEF Controllers, Out
  <2> HIDE DEF s, ThenPlay
  <2>4. i \in Controllers BY <1>7, <2>2, FieldByField
  <2>5. /\ i.play = f.c.play /\ i.resume = f.c.resume /\ i.skip = s
        /\ i.realign = f.c.realign /\ i.seq = f.c.seq
    BY <1>7 DEF Controllers
  <2> HIDE DEF i
  <2>6. o = Out(i, f.e, f.op) BY <1>7, <1>10, <2>3 DEF Out
  <2>7. o.c = i /\ o.e = f.e /\ o.op = f.op BY <2>6 DEF Out
  <2>8. Numbered(i.seq, f.op) BY <1>6, <2>5 DEF Result, Numbered
  <2>9. Result(d, o) BY <1>6, <1>7, <1>10, <2>2, <2>4, <2>5, <2>6, <2>7, <2>8 DEF Result
  <2> QED BY <1>1, <1>4, <2>9, QuieterFirst
<1> QED BY <1>5, <1>8, <1>9, <1>10

(* A controller that gives up its resume. *)
LEMMA ResumeForgotten ==
  ASSUME NEW c \in Controllers
  PROVE  /\ [c EXCEPT !.resume = 0] \in Controllers
         /\ Quieter([c EXCEPT !.resume = 0], c)
<1> DEFINE d == [c EXCEPT !.resume = 0]
<1>1. d \in Controllers BY FieldByField
<1>2. /\ d.play = c.play /\ d.resume = 0 /\ d.skip = c.skip
      /\ d.realign = c.realign /\ d.seq = c.seq /\ c.seq \in Nat
  BY DEF Controllers
<1> HIDE DEF d
<1>3. Quieter(d, c) BY <1>1, <1>2 DEF Quieter
<1> QED BY <1>1, <1>3 DEF d

LEMMA PlayResult ==
  ASSUME NEW c \in Controllers, NEW e \in Databases, NEW o \in PlayOutcomes(c, e)
  PROVE  Result(c, o)
<1> DEFINE d == [c EXCEPT !.resume = 0]
<1>1. d \in Controllers /\ Quieter(d, c) BY ResumeForgotten
<1>2. o \in PlayFromStopped(d, e) \/ o \in PlayFromActive(d, e) BY DEF PlayOutcomes
<1> HIDE DEF d
<1>3. Result(d, o) BY <1>1, <1>2, PlayFromStoppedResult, PlayFromActiveResult
<1> QED BY <1>1, <1>3, QuieterFirst

LEMMA ResumeResult ==
  ASSUME NEW c \in Controllers, NEW e \in Databases, NEW o \in ResumeFromIdle(c, e)
  PROVE  Result(c, o)
<1> DEFINE d == [c EXCEPT !.play = 0]
           Start(f) == ReplaceCurrent(f.c, f.e, f.c.seq + 1)
           Begin(f) == IF f.c.q.cur = None THEN f
                       ELSE [Start(f) EXCEPT !.c = [@ EXCEPT !.resume = Start(f).op.id]]
<1>1. d \in Controllers BY FieldByField
<1>2. /\ d.play = 0 /\ d.resume = c.resume /\ d.skip = c.skip
      /\ d.realign = c.realign /\ d.seq = c.seq /\ c.seq \in Nat
  BY DEF Controllers
<1>3. PICK f \in TopUp(d, e) : o = Begin(f) BY DEF ResumeFromIdle
<1> HIDE DEF d
<1>4. Quieter(d, c) BY <1>1, <1>2 DEF Quieter
<1>5. Fetched(d, f) BY <1>1, TopUpFetches
<1>6. f.c \in Controllers /\ f.e \in Databases /\ Quieter(f.c, d) /\ Result(d, f)
  BY <1>1, <1>5, FetchedResult
<1>7. CASE f.c.q.cur = None BY <1>1, <1>3, <1>4, <1>6, <1>7, QuieterFirst
<1>8. CASE f.c.q.cur # None
  <2> DEFINE p == Start(f)
             h == p.c
             id == p.op.id
             i == [h EXCEPT !.resume = id]
  <2>1. /\ Result(f.c, p) /\ p.op.type = "start" /\ p.op.id = f.c.seq + 1
        /\ p.c.play = f.c.play /\ p.c.resume = f.c.resume
    BY <1>6, <1>8, ReplaceResult
  <2>2. o = [p EXCEPT !.c = i] BY <1>3, <1>8
  <2> HIDE DEF p, Begin, Start
  <2>3. p = Out(p.c, p.e, p.op) /\ p.c \in Controllers /\ p.op.id \in Nat
    BY <1>6, <2>1 DEF Result, Operations
  <2>4. i \in Controllers
    <3>1. h \in Controllers /\ id \in Nat BY <2>3
    <3> HIDE DEF h, id
    <3> QED BY <3>1, FieldByField
  <2>5. /\ i.resume = p.op.id /\ i.play = p.c.play /\ i.skip = p.c.skip
        /\ i.realign = p.c.realign /\ i.seq = p.c.seq
    BY <2>3 DEF Controllers
  <2> HIDE DEF i
  <2>6. o = Out(i, p.e, p.op) BY <2>2, <2>3 DEF Out
  <2>7. Numbered(i.seq, p.op) BY <2>1, <2>5 DEF Result, Numbered
  <2>8. o.c = i /\ o.e = p.e /\ o.op = p.op BY <2>6 DEF Out
  <2>9. Result(f.c, o) BY <2>1, <2>4, <2>5, <2>6, <2>7, <2>8 DEF Result
  <2>10. Result(d, o) BY <1>1, <1>6, <2>9, QuieterFirst
  <2> QED BY <1>1, <1>4, <2>10, QuieterFirst
<1> QED BY <1>7, <1>8

-----------------------------------------------------------------------------
(* Completions.                                                            *)

Completions == [type : Replacing, id : Nat \ {0}, ok : BOOLEAN]

(* The answered attempt is not waited for any more. *)
Answered(c, d) ==
  /\ d.type = "start" => c.play # d.id /\ c.resume # d.id
  /\ d.type = "switch" => c.skip = None \/ c.skip.id # d.id
  /\ d.type = "roll" => c.realign = None \/ c.realign.id # d.id

LEMMA StartCompleted ==
  ASSUME NEW c \in Controllers, NEW id \in Nat \ {0}, NEW ok \in BOOLEAN
  PROVE  LET d == CommitPlay(OnResumeResult(c, id, ok), id, ok)
         IN  Quieter(d, c) /\ d.play # id /\ d.resume # id
<1> DEFINE b == OnResumeResult(c, id, ok)
           state == IF ok THEN "Playing" ELSE "Stopped"
           idle == IF ok THEN FALSE ELSE TRUE
           skipped == b.playBySkip = id
           failed == IF ok \/ skipped THEN 0 ELSE id
           played == IF ok /\ ~ skipped THEN id ELSE 0
<1>0. c.seq \in Nat BY DEF Controllers
<1>1. Quieter(b, c) /\ b.resume # id
  <2>1. CASE c.resume # id BY <2>1, QuieterThanItself DEF OnResumeResult
  <2>2. CASE c.resume = id
    <3> DEFINE f == [c EXCEPT !.resume = 0, !.idle = idle, !.state = state]
    <3>1. b = f BY <2>2 DEF OnResumeResult
    <3>2. idle \in BOOLEAN /\ state \in {"Stopped", "Paused", "Playing"} OBVIOUS
    <3> HIDE DEF idle, state
    <3>3. f \in Controllers BY <3>2, FieldByField
    <3>4. /\ f.play = c.play /\ f.resume = 0 /\ f.skip = c.skip
          /\ f.realign = c.realign /\ f.seq = c.seq
      BY DEF Controllers
    <3> HIDE DEF f, b
    <3> QED BY <1>0, <3>1, <3>3, <3>4 DEF Quieter
  <2> QED BY <2>1, <2>2
<1>2. b \in Controllers BY <1>1 DEF Quieter
<1>3. Quieter(CommitPlay(b, id, ok), b) /\ CommitPlay(b, id, ok).play # id
      /\ CommitPlay(b, id, ok).resume = b.resume
  <2>1. CASE b.play # id BY <1>2, <2>1, QuieterThanItself DEF CommitPlay
  <2>2. CASE b.play = id
    <3> DEFINE f == [b EXCEPT !.play = 0, !.playBySkip = 0, !.idle = FALSE,
                              !.playFailed = failed, !.playDone = played, !.state = state]
    <3>1. CommitPlay(b, id, ok) = f BY <2>2 DEF CommitPlay
    <3>2. /\ failed \in Nat /\ played \in Nat /\ state \in {"Stopped", "Paused", "Playing"}
          /\ b.seq \in Nat
      BY <1>2 DEF Controllers
    <3> HIDE DEF failed, played, state, b
    <3>3. f \in Controllers BY <1>2, <3>2, FieldByField
    <3>4. /\ f.play = 0 /\ f.resume = b.resume /\ f.skip = b.skip
          /\ f.realign = b.realign /\ f.seq = b.seq
      BY <1>2 DEF Controllers
    <3> HIDE DEF f
    <3> QED BY <3>1, <3>2, <3>3, <3>4 DEF Quieter
  <2> QED BY <2>1, <2>2
<1> HIDE DEF b
<1>4. Quieter(CommitPlay(b, id, ok), c) BY <1>1, <1>2, <1>3, QuieterTransitive
<1> QED BY <1>1, <1>3, <1>4 DEF b

LEMMA ResolveKeeps ==
  ASSUME NEW c \in Controllers, NEW play \in Nat
  PROVE  Quieter(ResolvePlay(c, play), c)
<1> DEFINE s == [c EXCEPT !.playDone = 0, !.playBySkip = 0, !.state = "Playing"]
           f == [c EXCEPT !.playFailed = 0, !.playBySkip = 0]
           b == [c EXCEPT !.playBySkip = play]
<1>0. c.seq \in Nat BY DEF Controllers
<1>1. ResolvePlay(c, play) \in {ForgetPlays(c), s, f, b, c} BY DEF ResolvePlay
<1>2. Quieter(ForgetPlays(c), c) BY ForgetPlaysKeeps
<1>3. Quieter(s, c)
  <2>1. s \in Controllers BY FieldByField
  <2>2. /\ s.play = c.play /\ s.resume = c.resume /\ s.skip = c.skip
        /\ s.realign = c.realign /\ s.seq = c.seq
    BY DEF Controllers
  <2> QED BY <1>0, <2>1, <2>2 DEF Quieter
<1>4. Quieter(f, c)
  <2>1. f \in Controllers BY FieldByField
  <2>2. /\ f.play = c.play /\ f.resume = c.resume /\ f.skip = c.skip
        /\ f.realign = c.realign /\ f.seq = c.seq
    BY DEF Controllers
  <2> QED BY <1>0, <2>1, <2>2 DEF Quieter
<1>5. Quieter(b, c)
  <2>1. b \in Controllers BY FieldByField
  <2>2. /\ b.play = c.play /\ b.resume = c.resume /\ b.skip = c.skip
        /\ b.realign = c.realign /\ b.seq = c.seq
    BY DEF Controllers
  <2> QED BY <1>0, <2>1, <2>2 DEF Quieter
<1> HIDE DEF s, f, b
<1> QED BY <1>1, <1>2, <1>3, <1>4, <1>5, QuieterThanItself

LEMMA AlignResult ==
  ASSUME NEW c \in Controllers, NEW e \in Databases, NEW p \in Skips, NEW desired \in Identities
  PROVE  Result(c, AlignAfterSkip(c, e, p, desired))
<1> DEFINE anchor == AnchorAfterCurrent(c.q)
           retries == IF p.badNext THEN 1 ELSE 0
           r == PrepareRealign(c, e, c.q.cur, p.staged, desired, p.badNext, retries)
           kept == Planned(p.staged, anchor)
           ahead == IF c.state = "Stopped" THEN None ELSE Planned(desired, anchor)
           d == [c EXCEPT !.planned = ahead]
           o == AlignAfterSkip(c, e, p, desired)
<1>0. c.seq \in Nat BY DEF Controllers
<1>1. p.staged \in Identities /\ p.badNext \in BOOLEAN BY DEF Skips
<1>2. anchor \in SUBSET Items /\ c.q.cur \in Identities BY SuccessorTypes
<1>3. kept \in Nexts \cup {None} /\ ahead \in Nexts \cup {None} BY <1>1, <1>2, PlannedTypes
<1>4. retries \in Nat OBVIOUS
<1>5. o = [r EXCEPT !.c = [@ EXCEPT !.planned = kept]] \/ o = Out(d, e, NoOp)
  BY DEF AlignAfterSkip
<1>6. Result(c, r)
  <2> HIDE DEF retries
  <2> QED BY <1>1, <1>2, <1>4, RealignResult
<1> HIDE DEF anchor, retries, r, kept, ahead
<1>7. CASE o = [r EXCEPT !.c = [@ EXCEPT !.planned = kept]]
  <2> DEFINE h == r.c
             i == [h EXCEPT !.planned = kept]
  <2>1. r = Out(r.c, r.e, r.op) /\ h \in Controllers BY <1>6 DEF Result
  <2>2. o = [r EXCEPT !.c = i] BY <1>7
  <2>3. i \in Controllers
    <3> HIDE DEF h
    <3> QED BY <1>3, <2>1, FieldByField
  <2>4. /\ i.play = r.c.play /\ i.resume = r.c.resume /\ i.skip = r.c.skip
        /\ i.realign = r.c.realign /\ i.seq = r.c.seq
    BY <2>1 DEF Controllers
  <2> HIDE DEF h, i, o
  <2>5. o = Out(i, r.e, r.op) BY <2>1, <2>2 DEF Out
  <2>6. o.c = i /\ o.e = r.e /\ o.op = r.op BY <2>5 DEF Out
  <2>7. Numbered(i.seq, r.op) BY <1>6, <2>4 DEF Result, Numbered
  <2>8. Result(c, o) BY <1>6, <2>3, <2>4, <2>5, <2>6, <2>7 DEF Result
  <2> QED BY <2>8 DEF o
<1>8. CASE o = Out(d, e, NoOp)
  <2>1. d \in Controllers BY <1>3, FieldByField
  <2>2. /\ d.play = c.play /\ d.resume = c.resume /\ d.skip = c.skip
        /\ d.realign = c.realign /\ d.seq = c.seq
    BY DEF Controllers
  <2> HIDE DEF d
  <2>3. Quieter(d, c) BY <1>0, <2>1, <2>2 DEF Quieter
  <2> QED BY <1>8, <2>3, QuietNoOp
<1> QED BY <1>5, <1>7, <1>8

(* A skip that succeeded waits for nothing it waited for before: neither   *)
(* for itself nor for a roll.                                              *)
LEMMA CommitSkippedResult ==
  ASSUME NEW c0 \in Controllers, NEW e \in Databases, c0.skip \in Skips,
         NEW o \in CommitSkipped(c0, e, c0.skip)
  PROVE  Result([c0 EXCEPT !.skip = None], o)
<1> DEFINE p == c0.skip
           b0 == [c0 EXCEPT !.skip = None]
           stopped == c0.state = "Stopped"
           a(f) == [f.c EXCEPT !.gen = @ + 1, !.broken = None, !.realign = None,
                               !.idle = FALSE, !.ended = None]
           b(f) == IF ~ stopped /\ p.badNext THEN Exclude(a(f), p.staged) ELSE a(f)
           g(f) == IF p.toPlay /\ ~ stopped THEN [b(f) EXCEPT !.state = "Playing"] ELSE b(f)
           c(f) == ResolvePlay(g(f), p.play)
           d(f) == IF p.badCur /\ ~ stopped
                   THEN [c(f) EXCEPT !.ended = [gen |-> c(f).gen, track |-> p.song,
                                                retries |-> 1]]
                   ELSE c(f)
           desired(f) == IF ~ stopped /\ p.badNext THEN EffectiveSuccessor(d(f))
                         ELSE SuccessorAfter(d(f).q, p.song)
           Adopt(f) == IF p.badCur /\ ~ stopped /\ d(f).state = "Playing" THEN Skip(d(f), f.e)
                       ELSE {AlignAfterSkip(d(f), f.e, p, desired(f))}
<1>1. /\ p.staged \in Identities /\ p.song \in Items /\ p.anchor \in SUBSET Items
      /\ p.play \in Nat
  BY DEF Skips
<1>2. b0 \in Controllers BY DEF Controllers
<1>3. PICK f \in CommitCurrent(b0, e, p.song, p.anchor) : o \in Adopt(f)
  <2>1. o \in UNION {Adopt(f) : f \in CommitCurrent(b0, e, p.song, p.anchor)}
    BY Zenon DEF CommitSkipped
  <2> HIDE DEF Adopt
  <2> QED BY <2>1
<1>4. Fetched(b0, f)
  <2> HIDE DEF p, b0
  <2> QED BY <1>1, <1>2, CommitFetches DEF Identities
<1> HIDE DEF b0
<1>5. f.c \in Controllers /\ f.e \in Databases /\ Quieter(f.c, b0)
  BY <1>2, <1>4, FetchedResult
<1>6. a(f) \in Controllers /\ Quieter(a(f), f.c)
  <2> DEFINE h == f.c
             gen == h.gen + 1
             i == [h EXCEPT !.gen = gen, !.broken = None, !.realign = None,
                            !.idle = FALSE, !.ended = None]
  <2>1. a(f) = i OBVIOUS
  <2>2. h \in Controllers /\ gen \in Nat /\ h.seq \in Nat BY <1>5 DEF Controllers
  <2> HIDE DEF h, gen
  <2>3. i \in Controllers BY <2>2, FieldByField
  <2>4. /\ i.play = h.play /\ i.resume = h.resume /\ i.skip = h.skip
        /\ i.realign = None /\ i.seq = h.seq
    BY <2>2 DEF Controllers
  <2> HIDE DEF i, a
  <2>5. Quieter(i, h) BY <2>2, <2>3, <2>4 DEF Quieter
  <2> QED BY <2>1, <2>3, <2>5 DEF h
<1> HIDE DEF a
<1>7. b(f) \in Controllers /\ Quieter(b(f), a(f))
  BY <1>1, <1>6, ExcludeKeeps, QuieterThanItself
<1> HIDE DEF b
<1>8. g(f) \in Controllers /\ Quieter(g(f), b(f))
  <2> DEFINE h == b(f)
             i == [h EXCEPT !.state = "Playing"]
  <2>1. h \in Controllers /\ h.seq \in Nat BY <1>7 DEF Controllers
  <2> HIDE DEF h
  <2>2. i \in Controllers BY <2>1, FieldByField
  <2>3. /\ i.play = h.play /\ i.resume = h.resume /\ i.skip = h.skip
        /\ i.realign = h.realign /\ i.seq = h.seq
    BY <2>1 DEF Controllers
  <2>4. g(f) = i \/ g(f) = h BY DEF h
  <2> HIDE DEF i, g
  <2>5. Quieter(i, h) BY <2>1, <2>2, <2>3 DEF Quieter
  <2> QED BY <2>1, <2>2, <2>4, <2>5, QuieterThanItself DEF h
<1> HIDE DEF g
<1>9. c(f) \in Controllers /\ Quieter(c(f), g(f)) BY <1>1, <1>8, ResolveKeeps DEF Quieter
<1> HIDE DEF c
<1>10. d(f) \in Controllers /\ Quieter(d(f), c(f))
  <2> DEFINE x == [gen |-> c(f).gen, track |-> p.song, retries |-> 1]
  <2>1. x \in Ends BY <1>1, <1>9 DEF Ends, Controllers, Identities
  <2>2. d(f) = [c(f) EXCEPT !.ended = x] \/ d(f) = c(f) OBVIOUS
  <2> HIDE DEF x, d
  <2> QED BY <1>9, <2>1, <2>2, EndedKeeps, QuieterThanItself
<1> HIDE DEF d
<1>11. Quieter(d(f), b0)
  <2>1. Quieter(d(f), g(f)) BY <1>8, <1>9, <1>10, QuieterTransitive
  <2>2. Quieter(d(f), b(f)) BY <1>7, <1>8, <2>1, QuieterTransitive
  <2>3. Quieter(d(f), a(f)) BY <1>6, <1>7, <2>2, QuieterTransitive
  <2>4. Quieter(d(f), f.c) BY <1>5, <1>6, <2>3, QuieterTransitive
  <2> QED BY <1>2, <1>5, <2>4, QuieterTransitive
<1>12. desired(f) \in Identities BY <1>10, SuccessorTypes
<1> HIDE DEF desired
<1>15. o \in Skip(d(f), f.e) \/ o = AlignAfterSkip(d(f), f.e, p, desired(f)) BY <1>3
<1>13. Result(d(f), o) BY <1>15, <1>5, <1>10, <1>12, SkipResult, AlignResult
<1>14. Result(b0, o) BY <1>2, <1>10, <1>11, <1>13, QuieterFirst
<1> QED BY <1>14 DEF b0

LEMMA SwitchCompleted ==
  ASSUME NEW c \in Controllers, NEW e \in Databases, NEW id \in Nat \ {0}, NEW ok \in BOOLEAN,
         NEW o \in CommitSkip(c, e, id, ok)
  PROVE  \E b \in Controllers :
           Quieter(b, c) /\ (b.skip = None \/ b.skip.id # id) /\ Result(b, o)
<1> DEFINE b == [c EXCEPT !.skip = None]
<1>0. c.seq \in Nat BY DEF Controllers
<1>1. b \in Controllers BY FieldByField
<1>2. /\ b.play = c.play /\ b.resume = c.resume /\ b.skip = None
      /\ b.realign = c.realign /\ b.seq = c.seq
  BY DEF Controllers
<1>3. CASE c.skip = None \/ c.skip.id # id
  <2>1. o = Out(c, e, NoOp) BY <1>3 DEF CommitSkip
  <2> QED BY <1>3, <2>1, QuieterThanItself, QuietNoOp
<1>4. CASE c.skip # None /\ c.skip.id = id
  <2>1. Quieter(b, c)
    <3> HIDE DEF b
    <3> QED BY <1>0, <1>1, <1>2 DEF Quieter
  <2>2. c.skip \in Skips BY <1>4 DEF Controllers
  <2>3. CASE o \in CommitSkipped(c, e, c.skip)
    BY <1>1, <1>2, <2>1, <2>2, <2>3, CommitSkippedResult
  <2>4. CASE o \in SkipFailed(c, e, c.skip)
    <3> DEFINE failed == IF c.skip.play \in {0, c.playFailed} THEN 0 ELSE c.playFailed
               played == IF c.skip.play = 0 THEN 0 ELSE c.playDone
               f == [c EXCEPT !.skip = None, !.playFailed = failed, !.playDone = played]
    <3>1. o \in RetryEnded(f, e) \/ o = Out(f, e, NoOp) BY <2>4 DEF SkipFailed
    <3>2. failed \in Nat /\ played \in Nat BY DEF Controllers
    <3> HIDE DEF failed, played
    <3>3. f \in Controllers BY <3>2, FieldByField
    <3>4. /\ f.play = c.play /\ f.resume = c.resume /\ f.skip = None
          /\ f.realign = c.realign /\ f.seq = c.seq
      BY DEF Controllers
    <3> HIDE DEF f
    <3>5. Quieter(f, c) BY <1>0, <3>3, <3>4 DEF Quieter
    <3>6. Result(f, o) BY <3>1, <3>3, RetryResult, QuieterThanItself, QuietNoOp
    <3> QED BY <3>3, <3>4, <3>5, <3>6
  <2>5. o \in CommitSkipped(c, e, c.skip) \/ o \in SkipFailed(c, e, c.skip)
    BY <1>4 DEF CommitSkip
  <2> QED BY <2>3, <2>4, <2>5
<1> QED BY <1>3, <1>4

LEMMA RollCompleted ==
  ASSUME NEW c0 \in Controllers, NEW e \in Databases, NEW id \in Nat \ {0}, NEW ok \in BOOLEAN
  PROVE  \E b \in Controllers :
           /\ Quieter(b, c0) /\ (b.realign = None \/ b.realign.id # id)
           /\ Result(b, CommitRealign(c0, e, id, ok))
<1> DEFINE r == c0.realign
           planned == IF ok THEN Planned(r.desired, AnchorAfterCurrent(c0.q)) ELSE c0.planned
           c == [c0 EXCEPT !.realign = None, !.planned = planned]
           b == [c0 EXCEPT !.realign = None]
           physical == IF ok THEN r.desired ELSE r.expected
           next == EffectiveSuccessor(c)
           o == CommitRealign(c0, e, id, ok)
<1>0. c0.seq \in Nat BY DEF Controllers
<1>1. CASE r = None \/ r.id # id
  <2>1. o = Out(c0, e, NoOp) BY <1>1 DEF CommitRealign
  <2> QED BY <1>1, <2>1, QuieterThanItself, QuietNoOp
<1>2. CASE r # None /\ r.id = id
  <2>1. r \in Realigns BY <1>2 DEF Controllers
  <2>2. /\ r.cur \in Identities /\ r.desired \in Identities /\ r.expected \in Identities
        /\ r.retries \in Nat
    BY <2>1 DEF Realigns
  <2>3. b \in Controllers BY FieldByField
  <2>4. /\ b.play = c0.play /\ b.resume = c0.resume /\ b.skip = c0.skip
        /\ b.realign = None /\ b.seq = c0.seq
    BY DEF Controllers
  <2>5. planned \in Nexts \cup {None}
    <3>1. AnchorAfterCurrent(c0.q) \in SUBSET Items BY SuccessorTypes
    <3>2. c0.planned \in Nexts \cup {None} BY DEF Controllers
    <3>3. Planned(r.desired, AnchorAfterCurrent(c0.q)) \in Nexts \cup {None}
      BY <2>2, <3>1, PlannedTypes
    <3> QED BY <3>2, <3>3
  <2>6. \/ o = Out(b, e, NoOp)
        \/ o = Out(c, e, NoOp)
        \/ r.retries > 0
           /\ o = PrepareRealign(c, e, r.cur, r.expected, next, TRUE, r.retries - 1)
        \/ o = PrepareRealign(c, e, r.cur, physical, next, FALSE, 0)
    BY <1>2 DEF CommitRealign
  <2> HIDE DEF planned
  <2>7. c \in Controllers BY <2>5, FieldByField
  <2>8. /\ c.play = c0.play /\ c.resume = c0.resume /\ c.skip = c0.skip
        /\ c.realign = None /\ c.seq = c0.seq
    BY DEF Controllers
  <2> HIDE DEF b, c
  <2>9. Quieter(b, c0) BY <1>0, <2>3, <2>4 DEF Quieter
  <2>10. Quieter(c, c0) BY <1>0, <2>7, <2>8 DEF Quieter
  <2>11. next \in Identities /\ physical \in Identities BY <2>2, <2>7, SuccessorTypes
  <2> HIDE DEF next, physical
  <2>12. CASE o = Out(b, e, NoOp) BY <2>3, <2>4, <2>9, <2>12, QuieterThanItself, QuietNoOp
  <2>13. CASE o = Out(c, e, NoOp) BY <2>7, <2>8, <2>10, <2>13, QuieterThanItself, QuietNoOp
  <2>14. CASE r.retries > 0
              /\ o = PrepareRealign(c, e, r.cur, r.expected, next, TRUE, r.retries - 1)
    <3>1. r.retries - 1 \in Nat BY <2>2, <2>14
    <3> DEFINE again == PrepareRealign(c, e, r.cur, r.expected, next, TRUE, r.retries - 1)
    <3>2. Result(c, again) BY Zenon, <2>2, <2>7, <2>11, <3>1, RealignResults
    <3> HIDE DEF again
    <3>3. o = again BY <2>14 DEF again
    <3> HIDE DEF o
    <3>4. Result(c, o) BY <3>2, <3>3
    <3> QED BY <2>7, <2>8, <2>10, <3>4 DEF o
  <2>15. CASE o = PrepareRealign(c, e, r.cur, physical, next, FALSE, 0)
    <3> DEFINE again == PrepareRealign(c, e, r.cur, physical, next, FALSE, 0)
    <3>1. 0 \in Nat OBVIOUS
    <3>2. Result(c, again) BY Zenon, <2>2, <2>7, <2>11, <3>1, RealignResults
    <3>3. o = again BY <2>15 DEF again
    <3> HIDE DEF o, again
    <3>4. Result(c, o) BY <3>2, <3>3
    <3> QED BY <2>7, <2>8, <2>10, <3>4 DEF o
  <2> QED BY <2>6, <2>12, <2>13, <2>14, <2>15
<1> QED BY <1>1, <1>2

(* A completion leaves nothing behind that waits for its own number,       *)
(* unless it submits an operation with it.                                 *)
LEMMA CompletedResult ==
  ASSUME NEW c \in Controllers, NEW e \in Databases, NEW d \in Completions,
         NEW o \in Completed(c, e, d)
  PROVE  \E b \in Controllers : Quieter(b, c) /\ Answered(b, d) /\ Result(b, o)
<1>1. d.type \in Replacing /\ d.id \in Nat \ {0} /\ d.ok \in BOOLEAN BY DEF Completions
<1>2. CASE d.type = "start"
  <2> DEFINE b == CommitPlay(OnResumeResult(c, d.id, d.ok), d.id, d.ok)
  <2>1. o = Out(b, e, NoOp) BY <1>2 DEF Completed
  <2>2. Quieter(b, c) /\ b.play # d.id /\ b.resume # d.id BY <1>1, StartCompleted
  <2> HIDE DEF b
  <2>3. b \in Controllers BY <2>2 DEF Quieter
  <2>4. Result(b, o) BY <2>1, <2>3, QuieterThanItself, QuietNoOp
  <2>5. Answered(b, d) BY <1>2, <2>2 DEF Answered
  <2> QED BY <2>2, <2>3, <2>4, <2>5
<1>3. CASE d.type = "switch"
  <2>1. o \in CommitSkip(c, e, d.id, d.ok) BY <1>3 DEF Completed
  <2> QED BY <1>1, <1>3, <2>1, SwitchCompleted DEF Answered
<1>4. CASE d.type = "roll"
  <2>1. o = CommitRealign(c, e, d.id, d.ok) BY <1>4 DEF Completed
  <2> QED BY <1>1, <1>4, <2>1, RollCompleted DEF Answered
<1> QED BY <1>1, <1>2, <1>3, <1>4 DEF Replacing

-----------------------------------------------------------------------------
(* Events and edits.                                                       *)

LEMMA RememberKeeps ==
  ASSUME NEW c \in Controllers, NEW gen \in Nat, NEW track \in Identities
  PROVE  Remember(c, gen, track) \in Controllers /\ Quieter(Remember(c, gen, track), c)
<1> DEFINE x == [gen |-> gen, track |-> track, retries |-> 1]
<1>1. x \in Ends BY DEF Ends
<1>2. Remember(c, gen, track) = [c EXCEPT !.ended = x] BY DEF Remember
<1> HIDE DEF x
<1> QED BY <1>1, <1>2, EndedKeeps

LEMMA EosResult ==
  ASSUME NEW c \in Controllers, NEW e \in Databases, NEW ev \in Events,
         NEW o \in CurrentEos(c, e, ev)
  PROVE  Result(c, o)
<1> DEFINE d == Remember(c, ev.gen, ev.track)
<1>1. ev.gen \in Nat /\ ev.track \in Identities BY DEF Events
<1>2. d \in Controllers /\ Quieter(d, c) BY <1>1, RememberKeeps
<1>3. o = Out(c, e, NoOp) \/ o = Out(d, e, NoOp) \/ o \in Skip(d, e) BY DEF CurrentEos
<1> HIDE DEF d
<1>4. CASE o = Out(c, e, NoOp) BY <1>4, QuieterThanItself, QuietNoOp
<1>5. CASE o = Out(d, e, NoOp) BY <1>2, <1>5, QuietNoOp
<1>6. CASE o \in Skip(d, e)
  <2>1. Result(d, o) BY <1>2, <1>6, SkipResult
  <2> QED BY <1>2, <2>1, QuieterFirst
<1> QED BY <1>3, <1>4, <1>5, <1>6

LEMMA DecodeResult ==
  ASSUME NEW c0 \in Controllers, NEW e \in Databases, NEW ev \in Events,
         NEW o \in DecodeFailed(c0, e, ev)
  PROVE  Result(c0, o)
<1> DEFINE c == IF Terminal(c0, ev.gen, ev.track) THEN Remember(c0, ev.gen, ev.track) ELSE c0
           x == Exclude(c, ev.track)
           bad == [c.skip EXCEPT !.badCur = TRUE]
           badNext == [c.skip EXCEPT !.badNext = TRUE]
           roll == PrepareRealign(x, e, x.q.cur, ev.track, EffectiveSuccessor(x), TRUE, 1)
           marked == Out([c EXCEPT !.skip.badCur = TRUE], e, NoOp)
           markedNext == Out([c EXCEPT !.skip.badNext = TRUE], e, NoOp)
<1>1. ev.gen \in Nat /\ ev.track \in Identities BY DEF Events
<1>2. c \in Controllers /\ Quieter(c, c0) BY <1>1, RememberKeeps, QuieterThanItself
<1>3. \/ o \in Skip(c, e)
      \/ o = roll
      \/ c.skip # None /\ (o = marked \/ o = markedNext)
      \/ o = Out(c, e, NoOp)
  BY DEF DecodeFailed
<1> HIDE DEF c
<1>4. ASSUME c.skip # None, NEW s \in Skips, s.id = c.skip.id
      PROVE  Result(c, Out([c EXCEPT !.skip = s], e, NoOp))
  <2> DEFINE d == [c EXCEPT !.skip = s]
  <2>1. d \in Controllers BY <1>2, FieldByField
  <2>2. /\ d.play = c.play /\ d.resume = c.resume /\ d.skip = s /\ d.realign = c.realign
        /\ d.seq = c.seq /\ c.seq \in Nat
    BY <1>2 DEF Controllers
  <2> HIDE DEF d
  <2>3. Quieter(d, c) BY <1>4, <2>1, <2>2 DEF Quieter
  <2>4. Result(c, Out(d, e, NoOp)) BY <1>2, <2>3, QuietNoOp
  <2> QED BY <2>4 DEF d
<1>5. Result(c, o)
  <2>1. CASE o \in Skip(c, e) BY <1>2, <2>1, SkipResult
  <2>2. CASE o = roll
    <3>1. x \in Controllers /\ Quieter(x, c) BY <1>1, <1>2, ExcludeKeeps
    <3> HIDE DEF x
    <3>2. x.q.cur \in Identities /\ EffectiveSuccessor(x) \in Identities BY <3>1, SuccessorTypes
    <3>3. 1 \in Nat OBVIOUS
    <3>4. Result(x, roll) BY Zenon, <1>1, <3>1, <3>2, <3>3, RealignResults
    <3> HIDE DEF roll
    <3> QED BY <1>2, <2>2, <3>1, <3>4, QuieterFirst
  <2>3. CASE c.skip # None /\ (o = marked \/ o = markedNext)
    <3>1. c.skip \in Skips BY <1>2, <2>3 DEF Controllers
    <3>2. bad \in Skips /\ bad.id = c.skip.id BY <3>1 DEF Skips
    <3>3. badNext \in Skips /\ badNext.id = c.skip.id BY <3>1 DEF Skips
    <3>4. marked = Out([c EXCEPT !.skip = bad], e, NoOp)
          /\ markedNext = Out([c EXCEPT !.skip = badNext], e, NoOp)
      OBVIOUS
    <3> HIDE DEF bad, badNext, marked, markedNext
    <3> QED BY <1>4, <2>3, <3>2, <3>3, <3>4
  <2>4. CASE o = Out(c, e, NoOp) BY <1>2, <2>4, QuieterThanItself, QuietNoOp
  <2> HIDE DEF roll, marked, markedNext
  <2> QED BY <1>3, <2>1, <2>2, <2>3, <2>4
<1> QED BY <1>2, <1>5, QuieterFirst

LEMMA HandoverResult ==
  ASSUME NEW c \in Controllers, NEW e \in Databases, NEW ev \in Events, ev.track # None,
         NEW o \in Handover(c, e, ev)
  PROVE  Result(c, o)
<1> DEFINE anchors == HandoverAnchor(c, ev.track)
           d == [c EXCEPT !.planned = None, !.realign = None, !.broken = None]
           roll(f) == PrepareRealign(f.c, f.e, f.c.q.cur, None, EffectiveSuccessor(f.c), FALSE, 0)
           Attach(f) == IF EffectiveSuccessor(f.c) = None THEN f ELSE roll(f)
           handed == UNION {CommitCurrent(d, e, ev.track, a) : a \in anchors}
<1>1. ev.track \in Identities BY DEF Events
<1>2. anchors \subseteq SUBSET Items
  <2>1. AnchorAfterCurrent(c.q) \in SUBSET Items BY SuccessorTypes
  <2>2. c.planned # None => c.planned.anchor \in SUBSET Items BY DEF Controllers, Nexts
  <2>3. Key(c.planned) = ev.track /\ c.planned # None => anchors = {c.planned.anchor}
    BY DEF HandoverAnchor
  <2>4. CASE c.planned = None
    <3>1. Key(c.planned) = None BY <2>4 DEF Key
    <3> QED BY <2>1, <2>4, <3>1 DEF HandoverAnchor
  <2>5. CASE c.planned # None BY <2>1, <2>2, <2>5 DEF HandoverAnchor
  <2> QED BY <2>4, <2>5
<1>3. o = Out(c, e, NoOp) \/ \E f \in handed : o = Attach(f) BY DEF Handover
<1> HIDE DEF anchors
<1>4. CASE o = Out(c, e, NoOp) BY <1>4, QuieterThanItself, QuietNoOp
<1>5. CASE \E f \in handed : o = Attach(f)
  <2>1. PICK f \in handed : o = Attach(f)
    <3> HIDE DEF handed, Attach
    <3> QED BY <1>5
  <2>2. PICK a \in anchors : f \in CommitCurrent(d, e, ev.track, a)
    <3> HIDE DEF d
    <3> QED BY <2>1
  <2>3. d \in Controllers BY FieldByField
  <2>4. /\ d.play = c.play /\ d.resume = c.resume /\ d.skip = c.skip /\ d.realign = None
        /\ d.seq = c.seq /\ c.seq \in Nat
    BY DEF Controllers
  <2> HIDE DEF d
  <2>5. Quieter(d, c) BY <2>3, <2>4 DEF Quieter
  <2>6. Fetched(d, f) BY <1>1, <1>2, <2>2, <2>3, CommitFetches
  <2>7. f.c \in Controllers /\ f.e \in Databases /\ Quieter(f.c, d) /\ Result(d, f)
    BY <2>3, <2>6, FetchedResult
  <2>8. Result(d, o)
    <3>1. CASE o = f BY <2>7, <3>1
    <3>2. CASE o = roll(f)
      <4>1. f.c.q.cur \in Identities /\ EffectiveSuccessor(f.c) \in Identities
        BY <2>7, SuccessorTypes
      <4>2. 0 \in Nat /\ None \in Identities BY DEF Identities
      <4>3. Result(f.c, roll(f)) BY Zenon, <2>7, <4>1, <4>2, RealignResults
      <4> HIDE DEF roll
      <4> QED BY <2>3, <2>7, <3>2, <4>3, QuieterFirst
    <3> HIDE DEF roll
    <3> QED BY <2>1, <3>1, <3>2
  <2> QED BY <2>3, <2>5, <2>8, QuieterFirst
<1> QED BY <1>3, <1>4, <1>5

LEMMA FatalResult ==
  ASSUME NEW c \in Controllers, NEW e \in Databases, NEW ev, NEW o \in FatalPipeline(c, e, ev)
  PROVE  Result(c, o)
<1>1. o = Out(StopNow(c), e, StopOp) \/ o = Out(c, e, NoOp) BY DEF FatalPipeline
<1>2. CASE o = Out(StopNow(c), e, StopOp)
  BY <1>2, StopNowQuieter, SimpleResult, SimpleOps DEF Replacing
<1>3. CASE o = Out(c, e, NoOp) BY <1>3, QuieterThanItself, QuietNoOp
<1> QED BY <1>1, <1>2, <1>3

LEMMA HandledResult ==
  ASSUME NEW c \in Controllers, NEW e \in Databases, NEW ev \in Events,
         ev.type = "Handover" => ev.track # None, NEW o \in Handled(c, e, ev)
  PROVE  Result(c, o)
<1>1. ev.type \in {"CurrentEos", "DecodeFailed", "Handover", "FatalPipeline"} BY DEF Events
<1>2. CASE ev.type = "CurrentEos" BY <1>2, EosResult DEF Handled
<1>3. CASE ev.type = "DecodeFailed" BY <1>3, DecodeResult DEF Handled
<1>4. CASE ev.type = "Handover" BY <1>4, HandoverResult DEF Handled
<1>5. CASE ev.type = "FatalPipeline" BY <1>5, FatalResult DEF Handled
<1> QED BY <1>1, <1>2, <1>3, <1>4, <1>5

LEMMA ReloadResult ==
  ASSUME NEW c0 \in Controllers, NEW e \in Databases, NEW songs \in Seq(Items),
         NEW align \in BOOLEAN
  PROVE  Result(c0, Reload(c0, e, songs, align))
<1> DEFINE retain == c0.state # "Stopped" \/ c0.play # 0 \/ c0.resume # 0 \/ c0.skip # None
           q == Replaced(c0.q, songs, retain)
           c == [c0 EXCEPT !.q = q]
           next == EffectiveSuccessor(c)
           dirty == c.realign.dirty \/ next # c.realign.desired
           r == [c.realign EXCEPT !.dirty = dirty]
           d == [c EXCEPT !.realign = r]
           roll == PrepareRealign(c, e, c.q.cur, Key(c.planned), next, FALSE, 0)
           o == Reload(c0, e, songs, align)
<1>1. q \in Queues
  <2>1. c0.q \in Queues BY DEF Controllers
  <2>2. retain \in BOOLEAN OBVIOUS
  <2> HIDE DEF retain
  <2> QED BY <2>1, <2>2, QueueTypes
<1>2. o = Out(c, e, NoOp) \/ (c.realign # None /\ o = Out(d, e, NoOp)) \/ o = roll
  BY DEF Reload
<1> HIDE DEF q
<1>3. c \in Controllers /\ c = [c0 EXCEPT !.q = c.q] BY <1>1 DEF Controllers
<1>4. Quieter(c, c0) BY <1>3, RequeuedFields DEF Requeued
<1> HIDE DEF c
<1>5. c.seq \in Nat BY <1>3 DEF Controllers
<1>6. next \in Identities /\ c.q.cur \in Identities /\ Key(c.planned) \in Identities
  BY <1>3, SuccessorTypes
<1>7. Result(c, o)
  <2>1. CASE o = Out(c, e, NoOp) BY <1>3, <2>1, QuieterThanItself, QuietNoOp
  <2>2. CASE c.realign # None /\ o = Out(d, e, NoOp)
    <3>1. c.realign \in Realigns BY <1>3, <2>2 DEF Controllers
    <3>2. dirty \in BOOLEAN BY <3>1 DEF Realigns
    <3> HIDE DEF dirty
    <3>3. r \in Realigns /\ r.id = c.realign.id BY <3>1, <3>2 DEF Realigns
    <3> HIDE DEF r
    <3>4. d \in Controllers BY <1>3, <3>3, FieldByField
    <3>5. /\ d.play = c.play /\ d.resume = c.resume /\ d.skip = c.skip /\ d.realign = r
          /\ d.seq = c.seq
      BY <1>3 DEF Controllers
    <3> HIDE DEF d
    <3>6. Quieter(d, c) BY <1>5, <2>2, <3>3, <3>4, <3>5 DEF Quieter
    <3> QED BY <1>3, <2>2, <3>6, QuietNoOp
  <2>3. CASE o = roll
    <3>1. 0 \in Nat OBVIOUS
    <3>2. Result(c, roll) BY Zenon, <1>3, <1>6, <3>1, RealignResults
    <3> HIDE DEF roll
    <3> QED BY <2>3, <3>2
  <2> QED BY <1>2, <2>1, <2>2, <2>3
<1> QED BY <1>3, <1>4, <1>7, QuieterFirst

-----------------------------------------------------------------------------
(* Steps of the loop.                                                      *)

LEMMA SubmitKeeps ==
  ASSUME NEW lane \in Seq(Operations), NEW op \in Operations
  PROVE  /\ Submit(lane, op) \in Seq(Operations)
         /\ \A i \in DOMAIN Submit(lane, op) :
              \/ i \in DOMAIN lane /\ Submit(lane, op)[i] = lane[i]
              \/ Submit(lane, op)[i] = op /\ op.type \in Ops
         /\ \A type, id : Queued(lane, type, id) => Queued(Submit(lane, op), type, id)
         /\ op.type \in Replacing => Queued(Submit(lane, op), op.type, op.id)
<1>1. CASE op.type \in {"none", "refused"}
  <2>1. Submit(lane, op) = lane BY <1>1 DEF Submit
  <2> QED BY <1>1, <2>1 DEF Replacing
<1>2. CASE op.type \notin {"none", "refused"}
  <2> DEFINE s == Append(lane, op)
  <2>1. Submit(lane, op) = s BY <1>2 DEF Submit
  <2>2. op.type \in Ops BY <1>2 DEF Operations
  <2>3. s \in Seq(Operations) /\ DOMAIN s = 1 .. (Len(lane) + 1) /\ s[Len(lane) + 1] = op
        /\ \A i \in 1 .. Len(lane) : s[i] = lane[i]
    OBVIOUS
  <2>4. DOMAIN lane = 1 .. Len(lane) /\ Len(lane) \in Nat OBVIOUS
  <2> HIDE DEF s
  <2>5. \A i \in DOMAIN s : (i \in DOMAIN lane /\ s[i] = lane[i]) \/ s[i] = op
    <3> TAKE i \in DOMAIN s
    <3>1. i \in 1 .. Len(lane) \/ i = Len(lane) + 1 BY <2>3, <2>4
    <3> QED BY <2>3, <2>4, <3>1
  <2>6. DOMAIN lane \subseteq DOMAIN s /\ Len(lane) + 1 \in DOMAIN s BY <2>3, <2>4
  <2>7. \A type, id : Queued(lane, type, id) => Queued(s, type, id)
    BY <2>3, <2>4, <2>6 DEF Queued
  <2>8. Queued(s, op.type, op.id) BY <2>3, <2>6 DEF Queued
  <2> QED BY <2>1, <2>2, <2>3, <2>5, <2>7, <2>8
<1> QED BY <1>1, <1>2

LEMMA AwaitedNext ==
  ASSUME NEW type, NEW id
  PROVE  /\ Queued(urgent', type, id) => Awaited(type, id)'
         /\ Queued(regular', type, id) => Awaited(type, id)'
         /\ (\E d \in done' : d.type = type /\ d.id = id) => Awaited(type, id)'
BY DEF Awaited, Queued

(* Waiting for no more needs no more. *)
LEMMA QuieterCovered ==
  ASSUME NEW c, NEW d, Covered(c), Quieter(d, c)
  PROVE  Covered(d)
BY DEF Covered, Quieter

(* The loop took a completion, or none, and the controller changed to what *)
(* a method of it left of b, in which the answered attempt is forgotten.   *)
LEMMA LoopStep ==
  ASSUME IInv, NEW b \in Controllers, Quieter(b, ctl), NEW o, Result(b, o),
         FromCommand(o) \/ FromEvent(o),
         done' \subseteq done, \A d \in done : d \in done' \/ Answered(b, d),
         Channel', UNCHANGED pipe, UNCHANGED heard, Surroundings'
  PROVE  IInv'
<1> USE DEF IInv
<1>1. /\ ctl' = o.c /\ env' = o.e /\ o.c \in Controllers /\ o.e \in Databases
      /\ o.op \in Operations
  BY DEF FromCommand, FromEvent, Result
<1>2. urgent \in Seq(Operations) /\ regular \in Seq(Operations) BY DEF Shape, Lanes
<1>3. /\ ctl.seq \in Nat /\ b.seq \in Nat /\ o.c.seq \in Nat
      /\ b.seq >= ctl.seq /\ o.c.seq >= b.seq
  BY <1>1 DEF Shape, Controllers, Quieter, Result
<1>4. o.c.seq >= ctl.seq BY <1>3
<1>5. \/ urgent' = Submit(urgent, o.op) /\ regular' = regular
      \/ regular' = Submit(regular, o.op) /\ urgent' = urgent
  BY DEF FromCommand, FromEvent
<1>6. Lanes(ctl.seq)'
  <2>1. urgent' \in Seq(Operations) /\ regular' \in Seq(Operations)
    BY <1>1, <1>2, <1>5, SubmitKeeps
  <2>2. ASSUME NEW op, op.type \in Ops, Numbered(ctl.seq, op) PROVE Numbered(o.c.seq, op)
    BY <1>3, <1>4, <2>2 DEF Numbered
  <2>3. o.op.type \in Ops => Numbered(o.c.seq, o.op) BY DEF Result
  <2>4. \A i \in DOMAIN urgent : urgent[i].type \in Ops /\ Numbered(ctl.seq, urgent[i])
    BY DEF Shape, Lanes
  <2>5. \A i \in DOMAIN regular : regular[i].type \in Ops /\ Numbered(ctl.seq, regular[i])
    BY DEF Shape, Lanes
  <2>6. \A i \in DOMAIN urgent' : urgent'[i].type \in Ops /\ Numbered(o.c.seq, urgent'[i])
    <3>1. CASE urgent' = urgent BY <2>2, <2>4, <3>1
    <3>2. CASE urgent' = Submit(urgent, o.op)
      BY <1>1, <1>2, <2>2, <2>3, <2>4, <3>2, SubmitKeeps
    <3> QED BY <1>5, <3>1, <3>2
  <2>7. \A i \in DOMAIN regular' : regular'[i].type \in Ops /\ Numbered(o.c.seq, regular'[i])
    <3>1. CASE regular' = regular BY <2>2, <2>5, <3>1
    <3>2. CASE regular' = Submit(regular, o.op)
      BY <1>1, <1>2, <2>2, <2>3, <2>5, <3>2, SubmitKeeps
    <3> QED BY <1>5, <3>1, <3>2
  <2> QED BY <1>1, <2>1, <2>6, <2>7 DEF Lanes
<1>7. done' \subseteq [type : Replacing, id : 1 .. o.c.seq, ok : BOOLEAN]
  <2>1. 1 .. ctl.seq \subseteq 1 .. o.c.seq BY <1>3, <1>4
  <2> QED BY <2>1 DEF Shape
<1>8. Physical' BY DEF Shape, Physical, OnAir
<1>9. Shape' BY <1>1, <1>6, <1>7, <1>8 DEF Shape
<1>10. ASSUME NEW type, NEW id, Awaited(type, id),
              ~ \E d \in done : d.type = type /\ d.id = id /\ d \notin done'
       PROVE  Awaited(type, id)'
  <2>1. Queued(urgent, type, id) => Queued(urgent', type, id)
    BY <1>1, <1>2, <1>5, SubmitKeeps
  <2>2. Queued(regular, type, id) => Queued(regular', type, id)
    BY <1>1, <1>2, <1>5, SubmitKeeps
  <2>3. \/ Queued(urgent, type, id) \/ Queued(regular, type, id)
        \/ \E d \in done' : d.type = type /\ d.id = id
    BY <1>10 DEF Awaited
  <2> QED BY <2>1, <2>2, <2>3, AwaitedNext
<1>11. Covered(b) BY QuieterCovered
<1>12. /\ b.play # 0 => Awaited("start", b.play)'
       /\ b.resume # 0 => Awaited("start", b.resume)'
       /\ b.skip # None => Awaited("switch", b.skip.id)'
       /\ b.realign # None => Awaited("roll", b.realign.id)'
  BY <1>10, <1>11 DEF Covered, Answered
<1>13. o.op.type \in Replacing => Awaited(o.op.type, o.op.id)'
  BY <1>1, <1>2, <1>5, SubmitKeeps, AwaitedNext
<1>14. Covered(o.c)'
  <2>1. o.c.play # 0 => Awaited("start", o.c.play)' BY <1>12, <1>13 DEF Result, Replacing
  <2>2. o.c.resume # 0 => Awaited("start", o.c.resume)' BY <1>12, <1>13 DEF Result, Replacing
  <2>3. o.c.skip # None => Awaited("switch", o.c.skip.id)' BY <1>12, <1>13 DEF Result, Replacing
  <2>4. o.c.realign # None => Awaited("roll", o.c.realign.id)'
    BY <1>12, <1>13 DEF Result, Replacing
  <2> QED BY <2>1, <2>2, <2>3, <2>4 DEF Covered
<1> QED BY <1>1, <1>9, <1>14 DEF Covered

(* The usual case: no completion is taken. *)
LEMMA MethodStep ==
  ASSUME IInv, NEW o, Result(ctl, o), FromCommand(o) \/ FromEvent(o),
         UNCHANGED done, Channel', UNCHANGED pipe, UNCHANGED heard, Surroundings'
  PROVE  IInv'
<1>1. ctl \in Controllers /\ Quieter(ctl, ctl) BY QuieterThanItself DEF IInv, Shape
<1> QED BY <1>1, LoopStep

-----------------------------------------------------------------------------
(* Steps of the executor.                                                  *)

(* The head of a lane is executed.  A replacement is answered. *)
LEMMA ExecutorStep ==
  ASSUME IInv, Take, env' \in Databases, Channel', Physical',
         \/ NextOp.type \notin Replacing /\ done' = done
         \/ NextOp.type \in Replacing /\ \E ok \in BOOLEAN : Answer(NextOp, ok)
  PROVE  IInv'
<1> USE DEF IInv
<1> DEFINE op == NextOp
<1>1. urgent \in Seq(Operations) /\ regular \in Seq(Operations) BY DEF Shape, Lanes
<1>2. \/ urgent # <<>> /\ op = Head(urgent) /\ urgent' = Tail(urgent) /\ regular' = regular
      \/ urgent = <<>> /\ regular # <<>> /\ op = Head(regular) /\ regular' = Tail(regular)
         /\ urgent' = urgent
  BY DEF Take, NextOp
<1>3. ASSUME NEW lane \in Seq(Operations), lane # <<>>
      PROVE  /\ Tail(lane) \in Seq(Operations)
             /\ \A i \in DOMAIN Tail(lane) : i + 1 \in DOMAIN lane /\ Tail(lane)[i] = lane[i + 1]
             /\ 1 \in DOMAIN lane /\ Head(lane) = lane[1]
             /\ \A i \in DOMAIN lane : i = 1 \/ (i - 1 \in DOMAIN Tail(lane)
                                                 /\ Tail(lane)[i - 1] = lane[i])
  <2>1. Tail(lane) \in Seq(Operations) /\ Len(Tail(lane)) = Len(lane) - 1
        /\ \A i \in 1 .. Len(Tail(lane)) : Tail(lane)[i] = lane[i + 1]
    BY <1>3
  <2>2. Len(lane) \in Nat /\ Len(lane) > 0 /\ Head(lane) = lane[1] BY <1>3
  <2>3. DOMAIN lane = 1 .. Len(lane) /\ DOMAIN Tail(lane) = 1 .. (Len(lane) - 1)
    BY <1>3, <2>1
  <2> QED BY <2>1, <2>2, <2>3
<1>4. op.type \in Ops /\ Numbered(ctl.seq, op) /\ op \in Operations
  BY <1>1, <1>2, <1>3 DEF Shape, Lanes
<1>5. UNCHANGED ctl /\ Surroundings' BY DEF Take, Shape, Surroundings
<1>6. Lanes(ctl.seq)'
  <2>1. urgent' \in Seq(Operations) /\ regular' \in Seq(Operations) BY <1>1, <1>2, <1>3
  <2>2. ASSUME NEW lane \in Seq(Operations), lane # <<>>,
               \A i \in DOMAIN lane : lane[i].type \in Ops /\ Numbered(ctl.seq, lane[i]),
               NEW i \in DOMAIN Tail(lane)
        PROVE  Tail(lane)[i].type \in Ops /\ Numbered(ctl.seq, Tail(lane)[i])
    BY <1>3, <2>2
  <2>3. /\ \A i \in DOMAIN urgent : urgent[i].type \in Ops /\ Numbered(ctl.seq, urgent[i])
        /\ \A i \in DOMAIN regular : regular[i].type \in Ops /\ Numbered(ctl.seq, regular[i])
    BY DEF Shape, Lanes
  <2>4. \A i \in DOMAIN urgent' : urgent'[i].type \in Ops /\ Numbered(ctl.seq, urgent'[i])
    BY <1>1, <1>2, <2>2, <2>3
  <2>5. \A i \in DOMAIN regular' : regular'[i].type \in Ops /\ Numbered(ctl.seq, regular'[i])
    BY <1>1, <1>2, <2>2, <2>3
  <2> QED BY <1>5, <2>1, <2>4, <2>5 DEF Lanes
<1>7. ASSUME NEW ok \in BOOLEAN, op.type \in Replacing
      PROVE  [type |-> op.type, id |-> op.id, ok |-> ok]
               \in [type : Replacing, id : 1 .. ctl.seq, ok : BOOLEAN]
  BY <1>4, <1>7 DEF Numbered
<1> HIDE DEF op
<1>8. \/ op.type \notin Replacing /\ done' = done
      \/ op.type \in Replacing
         /\ \E ok \in BOOLEAN : done' = done \cup {[type |-> op.type, id |-> op.id, ok |-> ok]}
  BY DEF Answer, op
<1>9. done' \subseteq [type : Replacing, id : 1 .. ctl.seq, ok : BOOLEAN]
  BY <1>7, <1>8 DEF Shape
<1>10. Shape' BY <1>5, <1>6, <1>9 DEF Shape
<1>11. ASSUME NEW type \in Replacing, NEW id, Awaited(type, id)
       PROVE  Awaited(type, id)'
  <2>1. done \subseteq done' BY <1>8
  <2>2. ASSUME op.type = type, op.id = id PROVE \E d \in done' : d.type = type /\ d.id = id
    <3>1. PICK ok \in BOOLEAN : done' = done \cup {[type |-> op.type, id |-> op.id, ok |-> ok]}
      BY <1>8, <2>2
    <3>2. [type |-> op.type, id |-> op.id, ok |-> ok] \in done' BY <3>1
    <3> QED BY <2>2, <3>2
  <2>3. ASSUME NEW lane \in Seq(Operations), lane # <<>>, Queued(lane, type, id)
        PROVE  Queued(Tail(lane), type, id) \/ (Head(lane).type = type /\ Head(lane).id = id)
    <3>1. PICK i \in DOMAIN lane : lane[i].type = type /\ lane[i].id = id BY <2>3 DEF Queued
    <3>2. CASE i = 1 BY <1>3, <2>3, <3>1, <3>2
    <3>3. CASE i # 1
      <4>1. i - 1 \in DOMAIN Tail(lane) /\ Tail(lane)[i - 1] = lane[i] BY <1>3, <2>3, <3>3
      <4> QED BY <3>1, <4>1 DEF Queued
    <3> QED BY <3>2, <3>3
  <2>4. Queued(urgent, type, id) => Awaited(type, id)'
    <3>1. CASE urgent # <<>> BY <1>1, <1>2, <2>2, <2>3, <3>1, AwaitedNext
    <3>2. CASE urgent = <<>> BY <3>2 DEF Queued
    <3> QED BY <3>1, <3>2
  <2>5. Queued(regular, type, id) => Awaited(type, id)'
    <3>1. CASE regular' = regular BY <3>1, AwaitedNext
    <3>2. CASE regular # <<>> /\ op = Head(regular) /\ regular' = Tail(regular)
      BY <1>1, <2>2, <2>3, <3>2, AwaitedNext
    <3> QED BY <1>2, <3>1, <3>2
  <2>6. (\E d \in done : d.type = type /\ d.id = id) => Awaited(type, id)'
    BY <2>1, AwaitedNext
  <2> QED BY <1>11, <2>4, <2>5, <2>6 DEF Awaited
<1>12. ASSUME NEW c, Covered(c) PROVE Covered(c)'
  <2>1. /\ c.play # 0 => Awaited("start", c.play)'
        /\ c.resume # 0 => Awaited("start", c.resume)'
        /\ c.skip # None => Awaited("switch", c.skip.id)'
        /\ c.realign # None => Awaited("roll", c.realign.id)'
    BY <1>11, <1>12 DEF Covered, Replacing
  <2> QED BY <2>1 DEF Covered
<1>13. PICK c : c = ctl OBVIOUS
<1>14. Covered(c)' BY <1>12, <1>13
<1>15. Covered(ctl)' BY <1>5, <1>13, <1>14 DEF Covered
<1> QED BY <1>10, <1>15

-----------------------------------------------------------------------------
(* The actions.                                                            *)

LEMMA Kept ==
  ASSUME IInv
  PROVE  /\ UNCHANGED events => Channel'
         /\ UNCHANGED <<pipe, heard>> => Physical'
         /\ UNCHANGED <<fetched, commands, edits, wish>> => Surroundings'
<1>1. UNCHANGED events => Channel' BY DEF IInv, Shape, Channel
<1>2. UNCHANGED <<pipe, heard>> => Physical' BY DEF IInv, Shape, Physical, OnAir
<1>3. UNCHANGED <<fetched, commands, edits, wish>> => Surroundings'
  BY DEF IInv, Shape, Surroundings
<1> QED BY <1>1, <1>2, <1>3

(* A step that leaves the loop and the executor alone. *)
LEMMA OutsideStep ==
  ASSUME IInv, UNCHANGED <<ctl, urgent, regular, done>>, env' \in Databases,
         Channel', Physical', Surroundings'
  PROVE  IInv'
<1>1. Lanes(ctl.seq)' BY DEF IInv, Shape, Lanes
<1>2. Shape' BY <1>1 DEF IInv, Shape
<1>3. Covered(ctl)' BY DEF IInv, Covered, Awaited, Queued
<1> QED BY <1>2, <1>3 DEF IInv

LEMMA PlayStep ==
  ASSUME IInv, Play
  PROVE  IInv'
<1>1. ctl \in Controllers /\ env \in Databases /\ Channel BY DEF IInv, Shape
<1>2. commands' \in Nat BY DEF IInv, Shape, Surroundings, Play, Request
<1>3. UNCHANGED <<fetched, done, events, pipe, edits, heard>> BY DEF Play
<1>4. wish' \in {"none", "play", "pause"} BY DEF Play, IInv, Shape, Surroundings
<1>5. Surroundings' BY <1>2, <1>3, <1>4 DEF IInv, Shape, Surroundings
<1>6. Channel' /\ Physical' BY <1>3, Kept
<1>7. CASE UNCHANGED <<ctl, env, regular, urgent>> BY <1>1, <1>3, <1>5, <1>6, <1>7, OutsideStep
<1>8. ASSUME NEW o \in PlayOutcomes(ctl, env), FromCommand(o) PROVE IInv'
  <2>1. Result(ctl, o) BY <1>1, PlayResult
  <2> QED BY <1>3, <1>5, <1>6, <1>8, <2>1, MethodStep
<1> QED BY <1>7, <1>8 DEF Play

LEMMA PauseStep ==
  ASSUME IInv, Pause
  PROVE  IInv'
<1> DEFINE o == Out(PauseNow(ctl), env, Toggle(FALSE))
<1>1. ctl \in Controllers /\ env \in Databases BY DEF IInv, Shape
<1>2. FromCommand(o) /\ UNCHANGED <<fetched, done, events, pipe, edits, heard>> BY DEF Pause
<1>3. commands' \in Nat /\ wish' = "pause" BY DEF IInv, Shape, Surroundings, Pause, Request
<1>4. Surroundings' BY <1>2, <1>3 DEF IInv, Shape, Surroundings
<1>5. Channel' BY <1>2, Kept
<1>6. Result(ctl, o) BY <1>1, PauseNowQuieter, SimpleResult, SimpleOps DEF Replacing
<1> HIDE DEF o
<1> QED BY <1>2, <1>4, <1>5, <1>6, MethodStep

LEMMA SkipStep ==
  ASSUME IInv, SkipCommand
  PROVE  IInv'
<1>1. ctl \in Controllers /\ env \in Databases BY DEF IInv, Shape
<1>2. PICK o \in Skip(ctl, env) : FromCommand(o) BY DEF SkipCommand
<1>3. UNCHANGED <<fetched, done, events, pipe, edits, heard>> /\ wish' = "none"
  BY DEF SkipCommand
<1>4. commands' \in Nat BY DEF IInv, Shape, Surroundings, SkipCommand, Request
<1>5. Surroundings' BY <1>3, <1>4 DEF IInv, Shape, Surroundings
<1>6. Channel' BY <1>3, Kept
<1>7. Result(ctl, o) BY <1>1, SkipResult
<1> QED BY <1>2, <1>3, <1>5, <1>6, <1>7, MethodStep

LEMMA IdleStep ==
  ASSUME IInv, IdleTick
  PROVE  IInv'
<1>1. ctl \in Controllers /\ env \in Databases BY DEF IInv, Shape
<1>2. PICK o \in ResumeFromIdle(ctl, env) : FromCommand(o) BY DEF IdleTick
<1>3. UNCHANGED <<fetched, done, events, pipe, commands, edits, wish, heard>> BY DEF IdleTick
<1>4. Surroundings' /\ Channel' BY <1>3, Kept
<1>5. Result(ctl, o) BY <1>1, ResumeResult
<1> QED BY <1>2, <1>3, <1>4, <1>5, MethodStep

(* The rows a client leaves behind. *)
LEMMA PartOfRows ==
  ASSUME NEW rows \in Seq(Items), NEW m \in Nat \ {0}, NEW n \in Int, n <= Len(rows)
  PROVE  /\ SubSeq(rows, m, n) \in Seq(Items)
         /\ Len(SubSeq(rows, m, n)) = IF m <= n THEN n - m + 1 ELSE 0
<1>1. Len(rows) \in Nat /\ DOMAIN rows = 1 .. Len(rows) /\ \A k \in DOMAIN rows : rows[k] \in Items
  OBVIOUS
<1>2. \A k \in m .. n : rows[k] \in Items BY <1>1
<1> QED BY <1>2, SubSeqProperties

LEMMA DeletedRows ==
  ASSUME NEW rows \in Seq(Items), NEW i \in DOMAIN rows
  PROVE  Deleted(rows, i) \in Seq(Items) /\ Len(Deleted(rows, i)) = Len(rows) - 1
<1> DEFINE front == SubSeq(rows, 1, i - 1)
           back == SubSeq(rows, i + 1, Len(rows))
<1>1. i \in 1 .. Len(rows) /\ Len(rows) \in Nat OBVIOUS
<1>2. front \in Seq(Items) /\ Len(front) = i - 1 BY <1>1, PartOfRows
<1>3. back \in Seq(Items) /\ Len(back) = Len(rows) - i BY <1>1, PartOfRows
<1>4. Deleted(rows, i) = front \o back BY DEF Deleted
<1> HIDE DEF front, back
<1> QED BY <1>1, <1>2, <1>3, <1>4, ConcatProperties

LEMMA InsertedRows ==
  ASSUME NEW rows \in Seq(Items), NEW i \in 1 .. Len(rows) + 1, NEW item \in Items
  PROVE  Inserted(rows, i, item) \in Seq(Items)
<1> DEFINE front == SubSeq(rows, 1, i - 1)
           back == SubSeq(rows, i, Len(rows))
<1>1. Len(rows) \in Nat OBVIOUS
<1>2. front \in Seq(Items) BY <1>1, PartOfRows
<1>3. back \in Seq(Items) BY <1>1, PartOfRows
<1>4. Inserted(rows, i, item) = front \o <<item>> \o back BY DEF Inserted
<1> HIDE DEF front, back
<1> QED BY <1>2, <1>3, <1>4

LEMMA EditStep ==
  ASSUME IInv, Edit
  PROVE  IInv'
<1> USE StationAssumption
<1> DEFINE rows == env.rows
           n == Len(rows)
<1>1. env \in Databases /\ rows \in Seq(Items) BY DEF IInv, Shape, Databases
<1>2. n \in Nat /\ DOMAIN rows = 1 .. n BY <1>1
<1>3. ASSUME NEW s \in Seq(Items), NEW born \in Nat, NEW owed \in {"append", "align"}
      PROVE  [env EXCEPT !.rows = s, !.born = born, !.owed = owed] \in Databases
  BY <1>1 DEF Databases
<1>4. ASSUME NEW s \in Seq(Items)
      PROVE  [env EXCEPT !.rows = s, !.owed = "align"] \in Databases
  BY <1>1 DEF Databases
<1>5. env' \in Databases
  <2>1. ASSUME NEW item \in {env.born + 1} \cap Items,
               env' = [env EXCEPT !.rows = Append(@, item), !.born = item,
                                  !.owed = IF @ = "align" THEN @ ELSE "append"]
        PROVE  env' \in Databases
    <3> DEFINE s == Append(rows, item)
               owed == IF env.owed = "align" THEN env.owed ELSE "append"
    <3>1. s \in Seq(Items) /\ item \in Nat /\ owed \in {"append", "align"} BY <1>1
    <3>2. env' = [env EXCEPT !.rows = s, !.born = item, !.owed = owed] BY <2>1
    <3> HIDE DEF s, owed
    <3> QED BY <1>3, <3>1, <3>2
  <2>2. ASSUME NEW i \in DOMAIN env.rows,
               env' = [env EXCEPT !.rows = Deleted(@, i), !.owed = "align"]
        PROVE  env' \in Databases
    <3>1. Deleted(rows, i) \in Seq(Items) BY <1>1, DeletedRows
    <3> QED BY <1>4, <2>2, <3>1
  <2>3. ASSUME NEW i \in DOMAIN env.rows, NEW item \in {env.born + 1} \cap Items,
               env' = [env EXCEPT !.rows = Inserted(@, i, item), !.born = item,
                                  !.owed = "align"]
        PROVE  env' \in Databases
    <3>1. i \in 1 .. n + 1 /\ item \in Nat BY <1>2
    <3>2. Inserted(rows, i, item) \in Seq(Items) BY <1>1, <3>1, InsertedRows
    <3> QED BY <1>3, <2>3, <3>1, <3>2
  <2>4. ASSUME NEW i \in DOMAIN env.rows, NEW j \in DOMAIN env.rows,
               env' = [env EXCEPT !.rows = Inserted(Deleted(@, i), j, @[i]), !.owed = "align"]
        PROVE  env' \in Databases
    <3> DEFINE d == Deleted(rows, i)
               s == Inserted(d, j, rows[i])
    <3>1. d \in Seq(Items) /\ Len(d) = n - 1 BY <1>1, DeletedRows
    <3>2. rows[i] \in Items /\ j \in 1 .. Len(d) + 1 BY <1>1, <1>2, <3>1
    <3> HIDE DEF d
    <3>3. s \in Seq(Items) BY <3>1, <3>2, InsertedRows
    <3>4. env' = [env EXCEPT !.rows = s, !.owed = "align"] BY <2>4 DEF d
    <3> HIDE DEF s
    <3> QED BY <1>4, <3>3, <3>4
  <2> QED BY <2>1, <2>2, <2>3, <2>4 DEF Edit
<1>6. UNCHANGED <<ctl, fetched, urgent, regular, done, events, pipe, commands, wish, heard>>
  BY DEF Edit
<1>7. edits' \in Nat
  <2>1. edits' = edits + 1 BY DEF Edit
  <2>2. edits \in Nat BY DEF IInv, Shape, Surroundings
  <2> QED BY <2>1, <2>2
<1>8. Surroundings' BY <1>6, <1>7 DEF IInv, Shape, Surroundings
<1>9. Channel' /\ Physical' BY <1>6, Kept
<1> HIDE DEF rows, n
<1> QED BY <1>5, <1>6, <1>8, <1>9, OutsideStep

LEMMA SynchronizeStep ==
  ASSUME IInv, Synchronize
  PROVE  IInv'
<1> DEFINE e == [env EXCEPT !.owed = "none"]
           align == env.owed = "align"
           o == Reload(ctl, e, env.rows, align)
<1>1. ctl \in Controllers /\ env \in Databases BY DEF IInv, Shape
<1>2. e \in Databases /\ env.rows \in Seq(Items) BY <1>1 DEF Databases
<1>3. FromCommand(o) /\ UNCHANGED <<fetched, done, events, pipe, commands, edits, wish, heard>>
  BY DEF Synchronize
<1>4. Surroundings' /\ Channel' BY <1>3, Kept
<1>5. align \in BOOLEAN OBVIOUS
<1> HIDE DEF e, align
<1>6. Result(ctl, o) BY <1>1, <1>2, <1>5, ReloadResult
<1> HIDE DEF o
<1> QED BY <1>3, <1>4, <1>6, MethodStep

LEMMA FetchStep ==
  ASSUME IInv, FetchRows
  PROVE  IInv'
<1> DEFINE align == env.owed = "align"
<1>1. env \in Databases BY DEF IInv, Shape
<1>2. env.rows \in Seq(Items) /\ [env EXCEPT !.owed = "none"] \in Databases
  BY <1>1 DEF Databases
<1>3. /\ fetched' = [rows |-> env.rows, align |-> align]
      /\ env' = [env EXCEPT !.owed = "none"]
      /\ UNCHANGED <<ctl, urgent, regular, done, events, pipe, commands, edits, wish, heard>>
  BY DEF FetchRows
<1>4. align \in BOOLEAN OBVIOUS
<1> HIDE DEF align
<1>5. Surroundings' BY <1>2, <1>3, <1>4 DEF IInv, Shape, Surroundings
<1>6. Channel' /\ Physical' BY <1>3, Kept
<1> QED BY <1>2, <1>3, <1>5, <1>6, OutsideStep

LEMMA DeliverStep ==
  ASSUME IInv, DeliverRows
  PROVE  IInv'
<1> DEFINE o == Reload(ctl, env, fetched.rows, fetched.align)
<1>1. ctl \in Controllers /\ env \in Databases BY DEF IInv, Shape
<1>2. fetched.rows \in Seq(Items) /\ fetched.align \in BOOLEAN
  BY DEF IInv, Shape, Surroundings, DeliverRows
<1>3. FromCommand(o) /\ UNCHANGED <<done, events, pipe, commands, edits, wish, heard>>
      /\ fetched' = None
  BY DEF DeliverRows
<1>4. Surroundings' BY <1>3 DEF IInv, Shape, Surroundings
<1>5. Channel' BY <1>3, Kept
<1>6. Result(ctl, o) BY <1>1, <1>2, ReloadResult
<1> HIDE DEF o
<1> QED BY <1>3, <1>4, <1>5, <1>6, MethodStep

LEMMA ResyncStep ==
  ASSUME IInv, Resync
  PROVE  IInv'
<1> DEFINE no == FALSE
           o == Reload(ctl, env, env.rows, no)
<1>1. ctl \in Controllers /\ env \in Databases BY DEF IInv, Shape
<1>2. env.rows \in Seq(Items) /\ no \in BOOLEAN BY <1>1 DEF Databases
<1>3. FromCommand(o) /\ UNCHANGED <<fetched, done, events, pipe, commands, edits, wish, heard>>
  BY DEF Resync
<1>4. Surroundings' /\ Channel' BY <1>3, Kept
<1> HIDE DEF no
<1>5. Result(ctl, o) BY <1>1, <1>2, ReloadResult
<1> HIDE DEF o
<1> QED BY <1>3, <1>4, <1>5, MethodStep

LEMMA CompletionStep ==
  ASSUME IInv, NEW d \in done, HandleCompletion(d)
  PROVE  IInv'
<1>1. ctl \in Controllers /\ env \in Databases BY DEF IInv, Shape
<1>2. d \in Completions BY DEF IInv, Shape, Completions
<1>3. PICK o \in Completed(ctl, env, d) : FromCommand(o) BY DEF HandleCompletion
<1>4. done' = done \ {d} /\ UNCHANGED <<fetched, events, pipe, commands, edits, wish, heard>>
  BY DEF HandleCompletion
<1>5. Surroundings' /\ Channel' BY <1>4, Kept
<1>6. PICK b \in Controllers : Quieter(b, ctl) /\ Answered(b, d) /\ Result(b, o)
  BY <1>1, <1>2, CompletedResult
<1>7. done' \subseteq done /\ \A x \in done : x \in done' \/ Answered(b, x) BY <1>4, <1>6
<1> QED BY <1>3, <1>4, <1>5, <1>6, <1>7, LoopStep

LEMMA EventStep ==
  ASSUME IInv, HandleEvent
  PROVE  IInv'
<1>1. ctl \in Controllers /\ env \in Databases BY DEF IInv, Shape
<1>2. events \in Seq(Events) /\ events # <<>> BY DEF IInv, Shape, Channel, HandleEvent
<1>3. Head(events) = events[1] /\ 1 \in DOMAIN events /\ Head(events) \in Events BY <1>2
<1>4. Head(events).type = "Handover" => Head(events).track # None
  BY <1>3 DEF IInv, Shape, Channel
<1>5. PICK o \in Handled(ctl, env, Head(events)) : FromEvent(o) BY DEF HandleEvent
<1>6. events' = Tail(events) /\ UNCHANGED <<fetched, done, pipe, commands, edits, wish, heard>>
  BY DEF HandleEvent
<1>7. Channel'
  <2>1. Tail(events) \in Seq(Events) /\ Len(Tail(events)) = Len(events) - 1
        /\ \A i \in 1 .. Len(Tail(events)) : Tail(events)[i] = events[i + 1]
    BY <1>2
  <2>2. \A i \in DOMAIN Tail(events) : i + 1 \in DOMAIN events /\ Tail(events)[i] = events[i + 1]
    BY <1>2, <2>1
  <2>3. \A i \in DOMAIN events : events[i].type = "Handover" => events[i].track # None
    BY DEF IInv, Shape, Channel
  <2> QED BY <1>6, <2>1, <2>2, <2>3 DEF Channel
<1>8. Surroundings' BY <1>6, Kept
<1>9. Result(ctl, o) BY <1>1, <1>3, <1>4, HandledResult
<1> QED BY <1>5, <1>6, <1>7, <1>8, <1>9, MethodStep

LEMMA TakenOp ==
  ASSUME IInv, Take
  PROVE  NextOp \in Operations /\ NextOp.type \in Ops /\ Numbered(ctl.seq, NextOp)
<1>1. urgent \in Seq(Operations) /\ regular \in Seq(Operations) BY DEF IInv, Shape, Lanes
<1>2. ASSUME NEW lane \in Seq(Operations), lane # <<>>
      PROVE  Head(lane) \in Operations /\ 1 \in DOMAIN lane /\ Head(lane) = lane[1]
  BY <1>2
<1>3. \/ urgent # <<>> /\ NextOp = Head(urgent)
      \/ regular # <<>> /\ NextOp = Head(regular)
  BY DEF Take, NextOp
<1> QED BY <1>1, <1>2, <1>3 DEF IInv, Shape, Lanes

LEMMA EventAppended ==
  ASSUME IInv, NEW ev \in Events, ev.type = "Handover" => ev.track # None,
         events' = Append(events, ev)
  PROVE  Channel'
<1>1. events \in Seq(Events)
      /\ \A i \in DOMAIN events : events[i].type = "Handover" => events[i].track # None
  BY DEF IInv, Shape, Channel
<1> DEFINE s == Append(events, ev)
<1>2. s \in Seq(Events) /\ DOMAIN s = 1 .. (Len(events) + 1) /\ s[Len(events) + 1] = ev
      /\ \A i \in 1 .. Len(events) : s[i] = events[i]
  BY <1>1
<1>3. DOMAIN events = 1 .. Len(events) /\ Len(events) \in Nat BY <1>1
<1> HIDE DEF s
<1>4. \A i \in DOMAIN s : s[i].type = "Handover" => s[i].track # None
  <2> TAKE i \in DOMAIN s
  <2>1. i \in 1 .. Len(events) \/ i = Len(events) + 1 BY <1>2, <1>3
  <2> QED BY <1>1, <1>2, <1>3, <2>1
<1>5. events' = s BY DEF s
<1> QED BY <1>2, <1>4, <1>5 DEF Channel

(* What the pipeline reports about its tracks. *)
LEMMA Reports ==
  ASSUME NEW gen \in Nat, NEW track \in Identities,
         NEW type \in {"CurrentEos", "DecodeFailed", "Handover"}
  PROVE  /\ Event(type, gen, track) \in Events
         /\ Event(type, gen, track).type = type /\ Event(type, gen, track).track = track
BY DEF Event, Events

LEMMA ReplaceStep ==
  ASSUME IInv, Replace
  PROVE  IInv'
<1> DEFINE op == NextOp
<1>1. Take /\ op.type \in {"start", "switch"} /\ Answer(op, TRUE) /\ UNCHANGED <<env, events>>
  BY DEF Replace
<1>2. op \in Operations /\ op.type \in Ops /\ Numbered(ctl.seq, op) BY <1>1, TakenOp
<1>3. PICK next \in Staged(op) :
        pipe' = [state |-> IF OnAir THEN pipe.state ELSE "Playing", plan |-> Adopted(op, next)]
  BY DEF Replace
<1>4. heard' = IF OnAir THEN heard \cup {pipe.plan.cur} ELSE heard BY DEF Replace
<1>5. op.cur \in Items /\ op.gen \in Nat /\ op.epoch \in Nat /\ op.next \in Identities
  BY <1>1, <1>2 DEF Numbered, Operations
<1> HIDE DEF op
<1>6. next \in Identities BY <1>3, <1>5 DEF Staged, Identities
<1>7. Adopted(op, next) \in Plans BY <1>5, <1>6 DEF Adopted, Plans
<1>8. Physical BY DEF IInv, Shape
<1>9. heard' \subseteq Items BY <1>4, <1>8 DEF Physical, Plans
<1>10. pipe.state \in {"Stopped", "Paused", "Playing", "Broken"} BY <1>8 DEF Physical
<1> DEFINE state == IF OnAir THEN pipe.state ELSE "Playing"
<1>11. state \in {"Stopped", "Paused", "Playing", "Broken"} BY <1>10
<1>12. pipe' = [state |-> state, plan |-> Adopted(op, next)] BY <1>3
<1> HIDE DEF state
<1>13. Physical' BY <1>7, <1>9, <1>11, <1>12 DEF Physical, OnAir
<1>14. env' \in Databases /\ Channel' BY <1>1, Kept DEF IInv, Shape
<1>15. NextOp.type \in Replacing /\ \E ok \in BOOLEAN : Answer(NextOp, ok)
  BY <1>1 DEF Replacing, op
<1> QED BY <1>1, <1>13, <1>14, <1>15, ExecutorStep

LEMMA RollStep ==
  ASSUME IInv, Roll
  PROVE  IInv'
<1> DEFINE op == NextOp
<1>1. /\ Take /\ op.type = "roll" /\ Answer(op, TRUE) /\ UNCHANGED <<env, events, heard>>
      /\ pipe' = [pipe EXCEPT !.plan.next = op.next] /\ OnAir
  BY DEF Roll, Accepts
<1>2. op \in Operations BY <1>1, TakenOp
<1>3. op.next \in Identities BY <1>2 DEF Operations
<1>4. NextOp.type \in Replacing /\ \E ok \in BOOLEAN : Answer(NextOp, ok) BY <1>1 DEF Replacing
<1> DEFINE next == op.next
           plan == [pipe.plan EXCEPT !.next = next]
<1> HIDE DEF op
<1>5. Physical /\ next \in Identities BY <1>3 DEF IInv, Shape
<1>6. pipe' = [state |-> pipe.state, plan |-> plan] BY <1>1, <1>5 DEF Physical
<1> HIDE DEF next
<1>7. plan \in Plans BY <1>1, <1>5 DEF Physical, Plans
<1> HIDE DEF plan
<1>8. Physical' BY <1>1, <1>5, <1>6, <1>7 DEF Physical, OnAir
<1>9. env' \in Databases /\ Channel' BY <1>1, Kept DEF IInv, Shape
<1> QED BY <1>1, <1>4, <1>8, <1>9, ExecutorStep

LEMMA StaleStep ==
  ASSUME IInv, StalePlan
  PROVE  IInv'
<1>1. /\ Take /\ NextOp.type \in {"start", "switch", "roll"} /\ Answer(NextOp, FALSE)
      /\ UNCHANGED <<env, events, pipe, heard>>
  BY DEF StalePlan
<1>2. env' \in Databases /\ Channel' /\ Physical' BY <1>1, Kept DEF IInv, Shape
<1>3. NextOp.type \in Replacing /\ \E ok \in BOOLEAN : Answer(NextOp, ok)
  BY <1>1 DEF Replacing
<1> QED BY <1>1, <1>2, <1>3, ExecutorStep

LEMMA FaultUsed ==
  ASSUME IInv, CanFail, env' = [env EXCEPT !.faults = @ - 1]
  PROVE  env' \in Databases
<1>1. env \in Databases /\ env.faults > 0 BY DEF IInv, Shape, CanFail
<1>2. env.faults \in 0 .. MaxFaults /\ MaxFaults \in Nat
  BY <1>1, StationAssumption DEF Databases
<1>3. env.faults - 1 \in 0 .. MaxFaults BY <1>1, <1>2
<1> QED BY <1>1, <1>3 DEF Databases

LEMMA OffIsPhysical ==
  ASSUME IInv, pipe' = pipe \/ pipe' = Off, UNCHANGED heard
  PROVE  Physical'
<1>1. CASE pipe' = pipe BY <1>1, Kept
<1>2. CASE pipe' = Off BY <1>2 DEF IInv, Shape, Physical, OnAir, Off
<1> QED BY <1>1, <1>2

LEMMA FailStep ==
  ASSUME IInv, OperationFails
  PROVE  IInv'
<1> DEFINE op == NextOp
<1>1. /\ Take /\ op.type \in {"start", "switch", "roll"} /\ Answer(op, FALSE)
      /\ CanFail /\ env' = [env EXCEPT !.faults = @ - 1]
      /\ pipe' = pipe \/ pipe' = Off
      /\ UNCHANGED heard
  BY DEF OperationFails
<1>2. \/ UNCHANGED events
      \/ \E track \in Undecodable(op) :
           events' = Append(events, Event("DecodeFailed", op.gen, track))
  BY DEF OperationFails
<1>3. op \in Operations BY <1>1, TakenOp
<1>4. op.gen \in Nat /\ op.cur \in Identities /\ op.next \in Identities BY <1>3 DEF Operations
<1>5. NextOp.type \in Replacing /\ \E ok \in BOOLEAN : Answer(NextOp, ok) BY <1>1 DEF Replacing
<1>6. env' \in Databases /\ Physical' BY <1>1, FaultUsed, OffIsPhysical
<1> HIDE DEF op
<1>7. Channel'
  <2>1. CASE UNCHANGED events BY <2>1, Kept
  <2>2. ASSUME NEW track \in Undecodable(op),
               events' = Append(events, Event("DecodeFailed", op.gen, track))
        PROVE  Channel'
    <3>1. track \in Identities BY <1>1, <1>4 DEF Undecodable
    <3>2. Event("DecodeFailed", op.gen, track) \in Events
          /\ Event("DecodeFailed", op.gen, track).type = "DecodeFailed"
      BY <1>4, <3>1, Reports
    <3> QED BY <2>2, <3>2, EventAppended
  <2> QED BY <1>2, <2>1, <2>2
<1> QED BY <1>1, <1>5, <1>6, <1>7, ExecutorStep

(* The pipeline with another plan in the state it was in. *)
LEMMA PlanReplaced ==
  ASSUME Physical, NEW plan \in Plans, heard' \subseteq Items,
         pipe' = [state |-> pipe.state, plan |-> plan]
  PROVE  Physical'
<1>1. pipe.state \in {"Stopped", "Paused", "Playing", "Broken"} BY DEF Physical
<1> DEFINE state == pipe.state
<1>2. pipe' = [state |-> state, plan |-> plan] OBVIOUS
<1>3. state \in {"Stopped", "Paused", "Playing", "Broken"} BY <1>1
<1> HIDE DEF state
<1>4. pipe'.state = state /\ pipe'.plan = plan BY <1>2
<1>5. pipe' = [state |-> pipe'.state, plan |-> pipe'.plan] BY <1>2, <1>4
<1> QED BY <1>3, <1>4, <1>5 DEF Physical

LEMMA CancelStep ==
  ASSUME IInv, SwitchCancelled
  PROVE  IInv'
<1> DEFINE plan == [pipe.plan EXCEPT !.ended = TRUE]
           ev == Event("CurrentEos", pipe.plan.gen, pipe.plan.cur)
<1>1. /\ Take /\ NextOp.type = "switch" /\ Answer(NextOp, FALSE) /\ OnAir
      /\ pipe' = [pipe EXCEPT !.plan.ended = TRUE]
      /\ events' = Append(events, ev)
      /\ UNCHANGED <<env, heard>>
  BY DEF SwitchCancelled, Audible
<1>2. Physical BY DEF IInv, Shape
<1>3. pipe' = [state |-> pipe.state, plan |-> plan] BY <1>1, <1>2 DEF Physical
<1>4. plan \in Plans BY <1>1, <1>2 DEF Physical, Plans
<1>5. pipe.plan.gen \in Nat /\ pipe.plan.cur \in Identities
  BY <1>1, <1>2 DEF Physical, Plans, Identities
<1> HIDE DEF plan
<1>6a. heard' \subseteq Items BY <1>1, <1>2 DEF Physical
<1>6. Physical' BY <1>2, <1>3, <1>4, <1>6a, PlanReplaced
<1>7. ev \in Events /\ ev.type = "CurrentEos" BY <1>5, Reports
<1> HIDE DEF ev
<1>8. Channel' BY <1>1, <1>7, EventAppended
<1>9. NextOp.type \in Replacing /\ \E ok \in BOOLEAN : Answer(NextOp, ok) BY <1>1 DEF Replacing
<1>10. env' \in Databases BY <1>1 DEF IInv, Shape
<1> QED BY <1>1, <1>6, <1>8, <1>9, <1>10, ExecutorStep

LEMMA ToggleStep ==
  ASSUME IInv, TogglePipeline
  PROVE  IInv'
<1>1. /\ Take /\ NextOp.type \in {"resume", "pause"} /\ UNCHANGED <<env, done, events, heard>>
  BY DEF TogglePipeline
<1> DEFINE target == IF NextOp.type = "resume" THEN "Playing" ELSE "Paused"
<1>2. PICK state \in Reached(target) : pipe' = [pipe EXCEPT !.state = state]
  BY DEF TogglePipeline
<1>3. Physical BY DEF IInv, Shape
<1>4. target \in {"Playing", "Paused"} OBVIOUS
<1> HIDE DEF target
<1>5. state \in {"Stopped", "Paused", "Playing", "Broken"} BY <1>2, <1>3, <1>4 DEF Reached, Physical
<1>6. pipe' = [state |-> state, plan |-> pipe.plan] BY <1>2, <1>3 DEF Physical
<1>7. Physical' BY <1>1, <1>3, <1>5, <1>6 DEF Physical, OnAir
<1>8. env' \in Databases /\ Channel' BY <1>1, Kept DEF IInv, Shape
<1>9. NextOp.type \notin Replacing BY <1>1 DEF Replacing
<1> QED BY <1>1, <1>7, <1>8, <1>9, ExecutorStep

LEMMA ToggleFailsStep ==
  ASSUME IInv, ToggleFails
  PROVE  IInv'
<1>1. /\ Take /\ CanFail /\ env' = [env EXCEPT !.faults = @ - 1] /\ UNCHANGED <<events, heard>>
      /\ \/ NextOp.type \in {"resume", "pause"} /\ UNCHANGED <<done, pipe>>
         \/ NextOp.type = "switch" /\ Answer(NextOp, FALSE) /\ pipe' = Off
  BY DEF ToggleFails
<1>2. env' \in Databases /\ Channel' /\ Physical' BY <1>1, FaultUsed, Kept, OffIsPhysical
<1>3. CASE NextOp.type \in {"resume", "pause"} /\ UNCHANGED <<done, pipe>>
  <2>1. NextOp.type \notin Replacing BY <1>3 DEF Replacing
  <2> QED BY <1>1, <1>2, <1>3, <2>1, ExecutorStep
<1>4. CASE NextOp.type = "switch" /\ Answer(NextOp, FALSE)
  <2>1. NextOp.type \in Replacing /\ \E ok \in BOOLEAN : Answer(NextOp, ok)
    BY <1>4 DEF Replacing
  <2> QED BY <1>1, <1>2, <2>1, ExecutorStep
<1> QED BY <1>1, <1>3, <1>4

LEMMA StopStep ==
  ASSUME IInv, StopPipeline
  PROVE  IInv'
<1>1. Take /\ NextOp.type = "stop" /\ pipe' = Off /\ UNCHANGED <<env, done, events, heard>>
  BY DEF StopPipeline
<1>2. env' \in Databases /\ Channel' /\ Physical' BY <1>1, Kept, OffIsPhysical DEF IInv, Shape
<1>3. NextOp.type \notin Replacing BY <1>1 DEF Replacing
<1> QED BY <1>1, <1>2, <1>3, ExecutorStep

-----------------------------------------------------------------------------
(* What the pipeline does by itself, and the theorems.                     *)

LEMMA EmitStep ==
  ASSUME IInv, NEW ev \in Events, ev.type = "Handover" => ev.track # None, Emit(ev),
         env' \in Databases, Physical'
  PROVE  IInv'
<1>1. events' = Append(events, ev)
      /\ UNCHANGED <<ctl, fetched, urgent, regular, done, commands, edits, wish>>
  BY DEF Emit
<1>2. Channel' BY <1>1, EventAppended
<1>3. Surroundings' BY <1>1, Kept
<1> QED BY <1>1, <1>2, <1>3, OutsideStep

LEMMA HandOverStep ==
  ASSUME IInv, HandOver
  PROVE  IInv'
<1> DEFINE next == pipe.plan.next
           plan == [pipe.plan EXCEPT !.cur = next, !.next = None]
           ev == Event("Handover", pipe.plan.gen, next)
<1>1. /\ OnAir /\ next # None /\ Emit(ev) /\ UNCHANGED env
      /\ pipe' = [pipe EXCEPT !.plan.cur = next, !.plan.next = None]
      /\ heard' = heard \cup {pipe.plan.cur}
  BY DEF HandOver, Audible
<1>2. Physical /\ pipe.plan \in Plans BY <1>1 DEF IInv, Shape, Physical
<1>3. pipe' = [state |-> pipe.state, plan |-> plan] BY <1>1, <1>2 DEF Physical
<1>4. next \in Items /\ pipe.plan.gen \in Nat /\ pipe.plan.cur \in Items
  BY <1>1, <1>2 DEF Plans, Identities
<1> HIDE DEF next
<1>5. plan \in Plans BY <1>2, <1>4 DEF Plans, Identities
<1> HIDE DEF plan
<1>6a. heard' \subseteq Items BY <1>1, <1>2, <1>4 DEF Physical, Plans
<1>6. Physical' BY <1>2, <1>3, <1>5, <1>6a, PlanReplaced
<1>7. ev \in Events /\ ev.track # None BY <1>1, <1>4, Reports DEF Identities
<1>8. env' \in Databases BY <1>1 DEF IInv, Shape
<1> HIDE DEF ev
<1> QED BY <1>1, <1>6, <1>7, <1>8, EmitStep

LEMMA TrackEndsStep ==
  ASSUME IInv, TrackEnds
  PROVE  IInv'
<1> DEFINE plan == [pipe.plan EXCEPT !.ended = TRUE]
           ev == Event("CurrentEos", pipe.plan.gen, pipe.plan.cur)
<1>1. /\ OnAir /\ Emit(ev) /\ UNCHANGED <<env, heard>>
      /\ pipe' = [pipe EXCEPT !.plan.ended = TRUE]
  BY DEF TrackEnds, Audible
<1>2. Physical /\ pipe.plan \in Plans BY <1>1 DEF IInv, Shape, Physical
<1>3. pipe' = [state |-> pipe.state, plan |-> plan] BY <1>1, <1>2 DEF Physical
<1>4. plan \in Plans /\ pipe.plan.gen \in Nat /\ pipe.plan.cur \in Identities
  BY <1>2 DEF Plans, Identities
<1> HIDE DEF plan
<1>5a. heard' \subseteq Items BY <1>1, <1>2 DEF Physical
<1>5. Physical' BY <1>2, <1>3, <1>4, <1>5a, PlanReplaced
<1>6. ev \in Events /\ ev.type = "CurrentEos" BY <1>4, Reports
<1>7. env' \in Databases BY <1>1 DEF IInv, Shape
<1> HIDE DEF ev
<1> QED BY <1>1, <1>5, <1>6, <1>7, EmitStep

LEMMA BreaksStep ==
  ASSUME IInv, BranchBreaks
  PROVE  IInv'
<1>1. /\ OnAir /\ UNCHANGED heard /\ CanFail /\ env' = [env EXCEPT !.faults = @ - 1]
  BY DEF BranchBreaks, Audible
<1>2. PICK track \in {pipe.plan.cur, pipe.plan.next} \ ({None} \cup pipe.plan.dead) :
        /\ pipe' = [pipe EXCEPT !.plan.dead = @ \cup {track}]
        /\ Emit(Event("DecodeFailed", pipe.plan.gen, track))
  BY DEF BranchBreaks
<1> DEFINE dead == pipe.plan.dead \cup {track}
           plan == [pipe.plan EXCEPT !.dead = dead]
           ev == Event("DecodeFailed", pipe.plan.gen, track)
<1>3. Physical /\ pipe.plan \in Plans BY <1>1 DEF IInv, Shape, Physical
<1>4. pipe' = [state |-> pipe.state, plan |-> plan] BY <1>2, <1>3 DEF Physical
<1>5. track \in Identities /\ pipe.plan.gen \in Nat /\ dead \subseteq Identities
  BY <1>2, <1>3 DEF Plans, Identities
<1> HIDE DEF dead
<1>6. plan \in Plans BY <1>3, <1>5 DEF Plans
<1> HIDE DEF plan
<1>7. Physical' BY <1>1, <1>3, <1>4, <1>6 DEF Physical, OnAir
<1>8. ev \in Events /\ ev.type = "DecodeFailed" BY <1>5, Reports
<1>9. env' \in Databases BY <1>1, FaultUsed
<1> HIDE DEF ev
<1>10. Emit(ev) BY <1>2 DEF ev
<1> QED BY <1>7, <1>8, <1>9, <1>10, EmitStep

LEMMA PipelineBreaksStep ==
  ASSUME IInv, PipelineBreaks
  PROVE  IInv'
<1> DEFINE ev == [type |-> "FatalPipeline", gen |-> 0, epoch |-> pipe.plan.epoch, track |-> None]
<1>1. /\ OnAir /\ UNCHANGED heard /\ CanFail /\ env' = [env EXCEPT !.faults = @ - 1]
      /\ pipe' = [pipe EXCEPT !.state = "Broken"] /\ Emit(ev)
  BY DEF PipelineBreaks, Audible
<1>2. Physical /\ pipe.plan \in Plans BY <1>1 DEF IInv, Shape, Physical
<1>3. pipe' = [state |-> "Broken", plan |-> pipe.plan] BY <1>1, <1>2 DEF Physical
<1>4. Physical' BY <1>1, <1>2, <1>3 DEF Physical, OnAir
<1>5. ev \in Events /\ ev.type = "FatalPipeline" BY <1>2 DEF Plans, Events, Identities
<1>6. env' \in Databases BY <1>1, FaultUsed
<1> HIDE DEF ev
<1> QED BY <1>1, <1>4, <1>5, <1>6, EmitStep

LEMMA InitHolds ==
  ASSUME Init
  PROVE  IInv
<1> USE StationAssumption
<1> DEFINE q == [items |-> InitialRows, cur |-> FirstOutside(InitialRows, {}), used |-> {}]
<1>1. InitialRows \in Seq(Items) OBVIOUS
<1>2. FirstOutside(InitialRows, {}) \in Identities BY <1>1, FirstIsRow
<1>3. q \in Queues BY <1>1, <1>2 DEF Queues, Identities
<1>4. ctl = [state |-> "Stopped", gen |-> 0, epoch |-> 0, q |-> q,
             planned |-> None, idle |-> FALSE, resume |-> 0, play |-> 0, playFailed |-> 0,
             playDone |-> 0, playBySkip |-> 0, skip |-> None, realign |-> None,
             ended |-> None, broken |-> None, seq |-> 0]
  BY DEF Init
<1> HIDE DEF q
<1>5. ctl \in Controllers BY <1>3, <1>4 DEF Controllers
<1>6. env \in Databases
  <2>1. env = [rows |-> InitialRows, born |-> Len(InitialRows), faults |-> MaxFaults,
               owed |-> "none"]
    BY DEF Init
  <2>2. Len(InitialRows) \in Nat /\ MaxFaults \in 0 .. MaxFaults BY <1>1
  <2> QED BY <1>1, <2>1, <2>2 DEF Databases
<1>7. urgent = <<>> /\ regular = <<>> /\ events = <<>> /\ done = {} /\ pipe = Off
      /\ fetched = None /\ commands = 0 /\ edits = 0 /\ wish = "none" /\ heard = {}
  BY DEF Init
<1>8. Lanes(ctl.seq) /\ Channel BY <1>7 DEF Lanes, Channel
<1>9. Physical BY <1>7 DEF Physical, Off, OnAir
<1>10. Surroundings BY <1>7 DEF Surroundings
<1>11. Covered(ctl) BY <1>4 DEF Covered
<1> QED BY <1>5, <1>6, <1>7, <1>8, <1>9, <1>10, <1>11 DEF IInv, Shape

LEMMA NextKeeps ==
  ASSUME IInv, [Next]_vars
  PROVE  IInv'
<1>1. CASE UNCHANGED vars
  <2>1. Channel' /\ Physical' /\ Surroundings' BY <1>1, Kept DEF vars
  <2>2. env' \in Databases BY <1>1 DEF IInv, Shape, vars
  <2> QED BY <1>1, <2>1, <2>2, OutsideStep DEF vars
<1>2. CASE Play BY <1>2, PlayStep
<1>3. CASE Pause BY <1>3, PauseStep
<1>4. CASE SkipCommand BY <1>4, SkipStep
<1>5. CASE IdleTick BY <1>5, IdleStep
<1>6. CASE Edit BY <1>6, EditStep
<1>7. CASE Synchronize BY <1>7, SynchronizeStep
<1>8. CASE FetchRows BY <1>8, FetchStep
<1>9. CASE DeliverRows BY <1>9, DeliverStep
<1>10. CASE Resync BY <1>10, ResyncStep
<1>11. ASSUME NEW d \in done, HandleCompletion(d) PROVE IInv' BY <1>11, CompletionStep
<1>12. CASE HandleEvent BY <1>12, EventStep
<1>13. CASE Execute
  BY <1>13, ReplaceStep, RollStep, StaleStep, FailStep, CancelStep, ToggleStep,
     ToggleFailsStep, StopStep DEF Execute
<1>14. CASE HandOver BY <1>14, HandOverStep
<1>15. CASE TrackEnds BY <1>15, TrackEndsStep
<1>16. CASE BranchBreaks BY <1>16, BreaksStep
<1>17. CASE PipelineBreaks BY <1>17, PipelineBreaksStep
<1> QED
  BY <1>1, <1>2, <1>3, <1>4, <1>5, <1>6, <1>7, <1>8, <1>9, <1>10, <1>11, <1>12, <1>13,
     <1>14, <1>15, <1>16, <1>17
  DEF Next

LEMMA Inductive == Spec => []IInv
<1>1. Init => IInv BY InitHolds
<1>2. IInv /\ [Next]_vars => IInv' BY NextKeeps
<1> QED BY <1>1, <1>2, PTL DEF Spec

LEMMA InvariantImpliesType ==
  ASSUME IInv
  PROVE  TypeOK
<1> USE DEF IInv
<1>1. /\ ctl.state \in {"Stopped", "Paused", "Playing"}
      /\ ctl.gen \in Nat /\ ctl.epoch \in Nat /\ ctl.resume \in Nat /\ ctl.play \in Nat
      /\ ctl.playFailed \in Nat /\ ctl.playDone \in Nat /\ ctl.playBySkip \in Nat
      /\ ctl.seq \in Nat /\ ctl.q \in Queues
  BY DEF Shape, Controllers
<1>2. commands \in Nat /\ edits \in Nat /\ wish \in {"none", "play", "pause"}
  BY DEF Shape, Surroundings
<1>3. Rows(env.rows) \subseteq Items /\ env.faults \in 0 .. MaxFaults
  BY DEF Shape, Databases, Rows
<1>4. \A lane \in {urgent, regular} : \A i \in DOMAIN lane :
        lane[i].type \in Ops /\ {lane[i].cur, lane[i].next, lane[i].old} \subseteq Identities
  <2>1. ASSUME NEW lane \in {urgent, regular}, NEW i \in DOMAIN lane
        PROVE  lane[i] \in Operations /\ lane[i].type \in Ops
    BY DEF Shape, Lanes
  <2> QED BY <2>1 DEF Operations
<1>5. \A d \in done : d.type \in {"start", "switch", "roll"} /\ d.id \in 1 .. ctl.seq
  BY DEF Shape, Replacing
<1>6. /\ pipe.state \in {"Stopped", "Paused", "Playing", "Broken"}
      /\ OnAir => pipe.plan.cur \in Items /\ pipe.plan.next \in Identities
      /\ heard \subseteq Items
  BY DEF Shape, Physical, Plans
<1> QED BY <1>1, <1>2, <1>3, <1>4, <1>5, <1>6 DEF TypeOK

LEMMA InvariantImpliesUnderway ==
  ASSUME IInv
  PROVE  NothingPendingForever
<1>1. ASSUME NEW type, NEW id, Awaited(type, id) PROVE id \in Underway
  <2>1. CASE Queued(urgent, type, id) BY <2>1 DEF Queued, Underway
  <2>2. CASE Queued(regular, type, id) BY <2>2 DEF Queued, Underway
  <2>3. CASE \E d \in done : d.type = type /\ d.id = id BY <2>3 DEF Underway
  <2> QED BY <1>1, <2>1, <2>2, <2>3 DEF Awaited
<1>2. ctl.play # 0 => ctl.play \in Underway BY <1>1 DEF IInv, Covered
<1>3. ctl.resume # 0 => ctl.resume \in Underway BY <1>1 DEF IInv, Covered
<1>4. ctl.skip # None => ctl.skip.id \in Underway BY <1>1 DEF IInv, Covered
<1>5. ctl.realign # None => ctl.realign.id \in Underway BY <1>1 DEF IInv, Covered
<1> QED BY <1>2, <1>3, <1>4, <1>5 DEF NothingPendingForever

(* Every variable of controller, executor and pipeline stays in its type,  *)
(* for any rows and with every race open: in particular no completion ever *)
(* carries a number that was not handed out, and what is on the air is a   *)
(* row.                                                                    *)
THEOREM StationIsTyped == Spec => []TypeOK
<1>1. IInv => TypeOK BY InvariantImpliesType
<1> QED BY <1>1, Inductive, PTL

(* Nothing is pending forever: whenever the controller waits for a play, a *)
(* resume, a skip or a roll, the operation with its number is in a lane or *)
(* its completion is on the way, through stops, pauses, fatal errors,      *)
(* edits, lost database calls and superseded attempts, for any number of   *)
(* each and with every race open.                                          *)
THEOREM NeverLeftPending == Spec => []NothingPendingForever
<1>1. IInv => NothingPendingForever BY InvariantImpliesUnderway
<1> QED BY <1>1, Inductive, PTL
=============================================================================
