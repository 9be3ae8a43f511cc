--------------------------- MODULE PipelineProofs ---------------------------
(***************************************************************************)
(* For every number of tracks, generations, faults and errors: the         *)
(* pipeline keeps the promise of Playout, and its registry of branches     *)
(* agrees with the plan on the air.  For every length of the files: the    *)
(* transition the streamer settles on fits them, and a roll is in time.    *)
(***************************************************************************)
EXTENDS Pipeline, Transition, Integers, FiniteSetTheorems, TLAPS

(* How far an operation is and what has become of it go together: nothing  *)
(* is decided before the commit, a verdict stands at the end, a first plan *)
(* finds nothing on the air, and only a stop, a broken sink or a plan that *)
(* was adopted and cannot be resumed takes a plan down.                    *)
Undecided == {"clear", "attach", "attachNext", "pause", "configure", "excess", "play", "commit",
              "unstage"}
GivenUp == {"rollback", "discard", "restore", "forced"}

Shape ==
  /\ active = [gen |-> active.gen, cur |-> active.cur, next |-> active.next]
  /\ req.kind \in {"none", "initial", "active", "roll", "stop", "sink"}
AtRest == at = "idle" <=> req = NoRequest
Phase ==
  /\ at \in Undecided \cup GivenUp \cup {"idle", "loose", "teardown", "resume", "halt", "end"}
  /\ at \in Undecided \cup GivenUp \cup {"loose"} => req.kind \in {"initial", "active", "roll"}
  /\ at \in {"clear", "play", "forced"} => req.kind = "initial"
  /\ at \in {"resume", "restore"} => req.kind = "active"
  /\ at = "teardown" => req.kind \in {"active", "roll"}
Decided ==
  /\ at \in Undecided \cup {"loose"} => verdict = "open"
  /\ at \in {"teardown", "resume"} => verdict = "adopted"
  /\ at \in GivenUp \cup {"end"} => verdict # "open"
FirstPlan == req.kind = "initial" /\ at # "end" => active = NoPlan
Taken ==
  at = "halt" => \/ req.kind \in {"stop", "sink", "initial"}
                 \/ req.kind = "active" /\ verdict = "adopted"

IInv == Shape /\ AtRest /\ Phase /\ Decided /\ FirstPlan /\ Taken

AbsStep == [Promise!Next]_<<active, req, verdict>>

USE DEF IInv, Shape, AtRest, Phase, Decided, FirstPlan, Taken, Undecided, GivenUp, NoPlan,
        NoRequest, AbsStep, registry, holding, Unchanged

LEMMA StepBegin ==
  ASSUME IInv, BeginReplace \/ BeginRoll \/ BeginStop \/ SetPlaying \/ BeginForceStop
  PROVE  IInv' /\ AbsStep
<1>1. CASE BeginReplace
  <2>1. PICK r \in Requests :
          IF FitsReplace(r)
          THEN /\ req' = r /\ verdict' = "open"
               /\ IF r.kind = "initial" THEN at' = "clear" ELSE at' = "attach"
          ELSE verdict' = "refused" /\ req' = req /\ at' = at
    BY <1>1 DEF BeginReplace, RetireLive
  <2>2. r.kind \in {"initial", "active"}
    BY DEF Requests
  <2>3. active' = active /\ at = "idle"
    BY <1>1 DEF BeginReplace
  <2>4. CASE FitsReplace(r)
    BY <2>1, <2>2, <2>3, <2>4 DEF FitsReplace, Promise!Next, Promise!Open, Promise!NoRequest
  <2>5. CASE ~ FitsReplace(r)
    BY <2>1, <2>3, <2>5 DEF Promise!Next, Promise!Refuse
  <2> QED
    BY <2>4, <2>5
<1>2. CASE BeginRoll
  <2>1. PICK r \in Rolls :
          IF /\ FitsRoll(r)
             /\ Branch(r.cur, r.gen) \in live
             /\ r.expNext = None \/ \E b \in live : b.track = r.expNext
          THEN req' = r /\ verdict' = "open" /\ at' = IF r.next = None THEN "unstage" ELSE "attach"
          ELSE verdict' = "refused" /\ req' = req /\ at' = at
    BY <1>2 DEF BeginRoll
  <2>2. r.kind = "roll"
    BY DEF Rolls
  <2>3. active' = active /\ at = "idle"
    BY <1>2 DEF BeginRoll
  <2>4. CASE req' = r /\ verdict' = "open" /\ at' = IF r.next = None THEN "unstage" ELSE "attach"
    BY <2>2, <2>3, <2>4 DEF Promise!Next, Promise!Open, Promise!NoRequest
  <2>5. CASE verdict' = "refused" /\ req' = req /\ at' = at
    BY <2>3, <2>5 DEF Promise!Next, Promise!Refuse
  <2> QED
    BY <2>1, <2>4, <2>5
<1>3. CASE BeginStop
  BY <1>3 DEF BeginStop, RetireLive, Promise!Next, Promise!Open, Promise!NoRequest
<1>4. CASE SetPlaying
  BY <1>4 DEF SetPlaying
<1>5. CASE BeginForceStop
  BY <1>5 DEF BeginForceStop, RetireLive, Promise!Next, Promise!Open, Promise!NoRequest
<1> QED
  BY <1>1, <1>2, <1>3, <1>4, <1>5

LEMMA StepQuiet ==
  ASSUME IInv,
         \/ Clear \/ AttachCurrent \/ AttachNext \/ Pause \/ Configure \/ DiscardExcess
         \/ StartPlaying \/ Teardown \/ Rollback \/ DiscardCandidates \/ Restore \/ ForceStop
         \/ Resume
  PROVE  IInv' /\ AbsStep
<1>1. CASE Clear
  BY <1>1 DEF Clear, Discard
<1>2. CASE AttachCurrent
  BY <1>2 DEF AttachCurrent, Attach, AttachFails, BuildFails, AfterAttach
<1>3. CASE AttachNext
  BY <1>3 DEF AttachNext, Attach, AttachFails, BuildFails
<1>4. CASE Pause
  BY <1>4 DEF Pause
<1>5. CASE Configure
  BY <1>5 DEF Configure, RetireCandidates, Promise!Next, Promise!Refuse
<1>6. CASE DiscardExcess
  BY <1>6 DEF DiscardExcess, Discard
<1>7. CASE StartPlaying
  BY <1>7 DEF StartPlaying
<1>8. CASE Teardown
  BY <1>8 DEF Teardown, Discard
<1>9. CASE Rollback
  BY <1>9 DEF Rollback, RetireCandidates
<1>10. CASE DiscardCandidates
  BY <1>10 DEF DiscardCandidates, Discard
<1>11. CASE Restore
  BY <1>11 DEF Restore
<1>12. CASE ForceStop
  BY <1>12 DEF ForceStop, RetireLive
<1>13. CASE Resume
  BY <1>13 DEF Resume, RetireLive
<1> QED
  BY <1>1, <1>2, <1>3, <1>4, <1>5, <1>6, <1>7, <1>8, <1>9, <1>10, <1>11, <1>12, <1>13

LEMMA StepRefuse ==
  ASSUME IInv, Unattach \/ GiveUp
  PROVE  IInv' /\ AbsStep
<1>1. CASE Unattach
  BY <1>1 DEF Unattach, Discard, Failed, Promise!Next, Promise!Refuse
<1>2. CASE GiveUp
  BY <1>2 DEF GiveUp, Promise!Next, Promise!Refuse
<1> QED
  BY <1>1, <1>2

(* The commits: the plan is the one the request was made for. *)
LEMMA StepCommit ==
  ASSUME IInv, CommitReplace \/ CommitRoll
  PROVE  IInv' /\ AbsStep
<1>1. CASE CommitReplace
  <2>1. CASE Sound /\ FitsReplace(req)
    <3>1. /\ active' = Adopted /\ verdict' = "adopted" /\ req' = req
          /\ at' \in {"end", "teardown"} /\ (at' = "teardown" => req.kind = "active")
          /\ at = "commit" /\ req.kind \in {"initial", "active"}
      BY <1>1, <2>1 DEF CommitReplace, Replacing
    <3>2. Promise!Fits(req, active)
      BY <2>1 DEF FitsReplace, Promise!Fits, Promise!NoPlan
    <3>3. Adopted \in Promise!Outcomes(req)
      BY <3>1 DEF Adopted, Promise!Outcomes
    <3>4. Promise!Adopt
      BY <3>1, <3>2, <3>3 DEF Promise!Adopt
    <3> QED
      BY <3>1, <3>4 DEF Promise!Next, Adopted
  <2>2. CASE ~ (Sound /\ FitsReplace(req))
    BY <1>1, <2>2 DEF CommitReplace, Replacing, Promise!Next, Promise!Refuse
  <2> QED
    BY <2>1, <2>2
<1>2. CASE CommitRoll
  <2>1. CASE FitsRoll(req) /\ NoneFailed
    <3>1. /\ active' = [active EXCEPT !.next = req.next] /\ verdict' = "adopted" /\ req' = req
          /\ at' = "teardown" /\ at \in {"commit", "unstage"} /\ req.kind = "roll"
      BY <1>2, <2>1 DEF CommitRoll
    <3>2. Promise!Fits(req, active)
      BY <2>1, <3>1 DEF FitsRoll, Promise!Fits, Promise!NoPlan
    <3>3. active' = [gen |-> req.gen, cur |-> req.cur, next |-> req.next]
      BY <2>1, <3>1 DEF FitsRoll
    <3>4. active' \in Promise!Outcomes(req)
      BY <3>1, <3>3 DEF Promise!Outcomes
    <3>5. Promise!Adopt
      BY <3>1, <3>2, <3>4 DEF Promise!Adopt
    <3> QED
      BY <3>1, <3>3, <3>5 DEF Promise!Next
  <2>2. CASE ~ (FitsRoll(req) /\ NoneFailed)
    BY <1>2, <2>2 DEF CommitRoll, Promise!Next, Promise!Refuse
  <2> QED
    BY <2>1, <2>2
<1> QED
  BY <1>1, <1>2

LEMMA StepEnd ==
  ASSUME IInv, Halt \/ End
  PROVE  IInv' /\ AbsStep
<1>1. CASE Halt
  <2>1. /\ active' = NoPlan /\ req' = req /\ at' = "end" /\ at = "halt"
        /\ verdict' \in {"adopted", "refused"}
        /\ req.kind # "stop" => verdict' = "refused"
    BY <1>1 DEF Halt, Discard
  <2>2. CASE req.kind = "initial"
    BY <2>1, <2>2 DEF Promise!Next, Promise!Refuse
  <2>3. CASE req.kind # "initial"
    BY <2>1, <2>3 DEF Promise!Next, Promise!Collapse, Promise!NoPlan
  <2> QED
    BY <2>2, <2>3
<1>2. CASE End
  BY <1>2 DEF End, Promise!Next, Promise!Close, Promise!NoRequest
<1> QED
  BY <1>1, <1>2

LEMMA StepStreams ==
  ASSUME IInv, Handover \/ EndOfStream \/ BranchError \/ StrayError
  PROVE  IInv' /\ AbsStep
<1>1. CASE Handover
  BY <1>1 DEF Handover, Streams, Promise!Next, Promise!Handover
<1>2. CASE EndOfStream
  BY <1>2 DEF EndOfStream, Streams
<1>3. CASE BranchError
  BY <1>3 DEF BranchError, Streams
<1>4. CASE StrayError
  BY <1>4 DEF StrayError, Streams
<1> QED
  BY <1>1, <1>2, <1>3, <1>4

HIDE DEF IInv

(* The phases of an operation and its verdict go together in every state. *)
THEOREM PhasesHold == Spec => []IInv
<1>1. Init => IInv
  BY DEF Init, IInv
<1>2. IInv /\ [Next]_vars => IInv'
  <2> SUFFICES ASSUME IInv, [Next]_vars PROVE IInv'
    OBVIOUS
  <2>1. CASE UNCHANGED vars
    BY <2>1 DEF vars, IInv
  <2> QED
    BY <2>1, StepBegin, StepQuiet, StepRefuse, StepCommit, StepEnd, StepStreams DEF Next, Work
<1> QED
  BY <1>1, <1>2, PTL DEF Spec

(* The pipeline implements Playout: whatever the streaming threads and the *)
(* bus do between the steps of an operation, a plan is adopted as a whole  *)
(* and only over the plan it was made for.                                 *)
THEOREM ImplementsPlayout == Spec => KeepsPromise
<1>1. Init => Promise!Init
  BY DEF Init, Promise!Init, Promise!NoPlan, Promise!NoRequest
<1>2. IInv /\ [Next]_vars => [Promise!Next]_(Promise!vars)
  <2> SUFFICES ASSUME IInv, [Next]_vars PROVE [Promise!Next]_(Promise!vars)
    OBVIOUS
  <2>1. CASE UNCHANGED vars
    BY <2>1 DEF vars, Promise!vars
  <2> QED
    BY <2>1, StepBegin, StepQuiet, StepRefuse, StepCommit, StepEnd, StepStreams
    DEF Next, Work, Promise!vars
<1> QED
  BY <1>1, <1>2, PhasesHold, PTL DEF Spec, KeepsPromise, Promise!Spec
-----------------------------------------------------------------------------
(* The registry.  Every branch in the graph is live, a candidate or about  *)
(* to be discarded, and only one of these; how far the operation is says   *)
(* which of them there can be.                                             *)

Before == MaxGens - left.gens  \* the generations that were given out
OnAir == Branch(active.cur, active.gen)

Typed ==
  /\ left \in [{"gens", "rolls", "faults", "errors"} -> Nat]
  /\ active # NoPlan => active.cur \in Tracks /\ active.next \in Tracks \cup {None}
  /\ at \in {"pause", "attachNext", "excess"} => Replacing
  /\ at = "attachNext" => req.next # None
  /\ Replacing => /\ req.cur \in Tracks /\ req.next \in Tracks \cup {None}
                  /\ req.cur # req.next
  /\ req.kind = "roll" => /\ req.next \in Tracks \cup {None}
                          /\ at = "unstage" => req.next = None
                          /\ at \in {"attach", "configure", "commit"} => req.next # None
CandidatesFit ==
  /\ preparing = cands
  /\ \A b \in cands : b.track \in Tracks
  /\ at \in {"idle", "clear", "attach", "unstage", "teardown", "resume", "discard", "restore",
             "forced", "halt", "end"} => cands = {}
  /\ Replacing => cands \subseteq {Branch(req.cur, req.gen), Branch(req.next, req.gen)}
  /\ Replacing /\ at \in {"pause", "attachNext", "configure", "excess", "play", "commit"} =>
       Branch(req.cur, req.gen) \in cands
  /\ at = "attachNext" \/ (at = "pause" /\ req.kind = "initial") =>
       Replacing /\ cands = {Branch(req.cur, req.gen)}
  /\ req.kind = "roll" /\ at \in {"configure", "commit"} => cands = {Branch(req.next, req.gen)}
(* A branch that is to be attached is new. *)
NewBranches ==
  /\ \A b \in live : b.gen \in Int /\ b.gen <= Before
  /\ Replacing /\ at \in Undecided =>
       req.gen \in Int /\ req.gen <= Before /\ \A b \in live : b.gen # req.gen
  /\ req.kind = "roll" /\ at = "attach" => \A b \in live : b.track # req.next
(* Live are the branches of the plan and one more that has ended.          *)
PlanIsLive ==
  /\ at = "halt" \/ active = NoPlan => live = {}
  /\ active # NoPlan /\ at # "halt" =>
       /\ OnAir \in live
       /\ active.next # None =>
            active.next # active.cur /\ Branch(active.next, active.gen) \in live
       /\ \E t \in Tracks : live \subseteq {OnAir, Branch(t, active.gen)}
Accounted ==
  /\ attached = live \cup preparing \cup obsolete
  /\ live \cap preparing = {} /\ live \cap obsolete = {} /\ preparing \cap obsolete = {}
  /\ retiring = IF at = "loose" THEN {} ELSE obsolete
  /\ at \notin {"clear", "loose", "excess", "teardown", "discard", "halt"} => obsolete = {}

RInv == Typed /\ CandidatesFit /\ NewBranches /\ PlanIsLive /\ Accounted
          /\ NoFailedBranchIsLive /\ BlameIsJust

-----------------------------------------------------------------------------
USE PipelineAssumption
USE DEF Shape, AtRest, Phase, Decided, FirstPlan, Taken, Undecided, GivenUp

LEMMA InitRInv == Init => RInv
  BY DEF Init, RInv, Typed, CandidatesFit, NewBranches, PlanIsLive, Accounted,
         NoFailedBranchIsLive, BlameIsJust, Before, Replacing

(* What is in hand is discarded. *)
LEMMA DiscardR ==
  ASSUME IInv, RInv, NEW then, Discard(then), active' = active, req' = req, left' = left,
         blame' = blame,
         at \in {"clear", "loose", "excess", "teardown", "discard"},
         \/ at = "clear" /\ then = "attach"
         \/ at = "loose" /\ then = Failed
         \/ at = "excess" /\ then = "commit"
         \/ at = "teardown" /\ then \in {"resume", "end"}
         \/ at = "discard" /\ then \in {"forced", "restore", "end"}
  PROVE  RInv'
<1> USE DEF Discard
<1>1. Typed' BY DEF RInv, Typed, Replacing, Failed, IInv
<1>2. CandidatesFit' BY DEF RInv, CandidatesFit, Typed, Replacing, Failed, IInv
<1>3. NewBranches' BY DEF RInv, NewBranches, PlanIsLive, Replacing, Before, Failed, IInv
<1>4. PlanIsLive' BY DEF RInv, PlanIsLive, OnAir, Failed
<1>5. Accounted' BY DEF RInv, Accounted, Failed
<1>6. NoFailedBranchIsLive' /\ BlameIsJust' BY DEF RInv, NoFailedBranchIsLive, BlameIsJust
<1> QED BY <1>1, <1>2, <1>3, <1>4, <1>5, <1>6 DEF RInv

(* A step that leaves plan, request and registry alone. *)
LEMMA PauseR ==
  ASSUME IInv, RInv, Pause \/ StartPlaying \/ Restore \/ GiveUp
  PROVE  RInv'
<1>1. /\ UNCHANGED <<active, live, preparing, retiring, failed, attached, req, cands, obsolete,
                     blame>>
      /\ left'.gens = left.gens /\ left' \in [{"gens", "rolls", "faults", "errors"} -> Nat]
      /\ \/ at = "pause" /\ at' = "attachNext" /\ req.kind = "initial" /\ req.next # None
         \/ at = "pause" /\ at' = "configure" 
         \/ at = "play" /\ at' = "commit"
         \/ at = "restore" /\ at' = "end"
         \/ at \in {"pause", "attachNext", "configure", "play", "commit"} /\ at' = "rollback"
  BY DEF Pause, StartPlaying, Restore, GiveUp, Spend, RInv, Typed, registry, holding, Unchanged
<1>2. Typed' BY <1>1 DEF RInv, Typed, Replacing, IInv
<1>3. CandidatesFit' BY <1>1 DEF RInv, CandidatesFit, Typed, Replacing, IInv
<1>4. NewBranches' BY <1>1 DEF RInv, NewBranches, Replacing, Before, IInv
<1>5. PlanIsLive' BY <1>1 DEF RInv, PlanIsLive, OnAir
<1>6. Accounted' BY <1>1 DEF RInv, Accounted
<1>7. NoFailedBranchIsLive' /\ BlameIsJust' BY <1>1 DEF RInv, NoFailedBranchIsLive, BlameIsJust
<1> QED BY <1>2, <1>3, <1>4, <1>5, <1>6, <1>7 DEF RInv

(* The plan is dropped. *)
LEMMA RetireLiveR ==
  ASSUME IInv, RInv, ForceStop \/ Resume \/ BeginStop \/ BeginForceStop
  PROVE  RInv'
<1>1. CASE at' = "halt"
  <2>1. /\ UNCHANGED <<active, preparing, failed, attached, cands, blame>>
        /\ live' = {} /\ retiring' = retiring \cup live /\ obsolete' = live
        /\ left'.gens = left.gens /\ left' \in [{"gens", "rolls", "faults", "errors"} -> Nat]
        /\ \/ at \in {"forced", "resume"} /\ req' = req
           \/ at = "idle" /\ req'.kind \in {"stop", "sink"}
    BY <1>1 DEF ForceStop, Resume, BeginStop, BeginForceStop, RetireLive, Spend, RInv, Typed,
                registry, holding, Unchanged, NoRequest
  <2>2. Typed' BY <1>1, <2>1 DEF RInv, Typed, Replacing
  <2>3. CandidatesFit' BY <1>1, <2>1 DEF RInv, CandidatesFit, Replacing
  <2>4. NewBranches' BY <1>1, <2>1 DEF RInv, NewBranches
  <2>5. PlanIsLive' BY <1>1, <2>1 DEF RInv, PlanIsLive
  <2>6. Accounted' BY <1>1, <2>1 DEF RInv, Accounted, CandidatesFit
  <2>7. NoFailedBranchIsLive' /\ BlameIsJust' BY <2>1 DEF RInv, NoFailedBranchIsLive, BlameIsJust
  <2> QED BY <2>2, <2>3, <2>4, <2>5, <2>6, <2>7 DEF RInv
<1>2. CASE at' # "halt"
  <2>1. /\ UNCHANGED <<active, registry, req, holding, blame, left>>
        /\ at = "resume" /\ at' = "end"
    BY <1>2 DEF ForceStop, Resume, BeginStop, BeginForceStop, RetireLive
  <2>2. Typed' BY <2>1 DEF RInv, Typed, Replacing, IInv
  <2>3. CandidatesFit' BY <2>1 DEF RInv, CandidatesFit, Replacing, registry, holding, IInv
  <2>4. NewBranches' BY <2>1 DEF RInv, NewBranches, Replacing, Before, registry
  <2>5. PlanIsLive' BY <2>1 DEF RInv, PlanIsLive, OnAir, registry
  <2>6. Accounted' BY <2>1 DEF RInv, Accounted, registry, holding
  <2>7. NoFailedBranchIsLive' /\ BlameIsJust'
    BY <2>1 DEF RInv, NoFailedBranchIsLive, BlameIsJust, registry
  <2> QED BY <2>2, <2>3, <2>4, <2>5, <2>6, <2>7 DEF RInv
<1> QED BY <1>1, <1>2

(* A replacement carries a generation that was never given out before. *)
LEMMA BeginReplaceR ==
  ASSUME IInv, RInv, BeginReplace
  PROVE  RInv'
<1>1. PICK r \in Requests :
        /\ r.cur # r.next
        /\ IF FitsReplace(r)
           THEN /\ req' = r
                /\ IF r.kind = "initial" THEN RetireLive("clear")
                   ELSE at' = "attach" /\ UNCHANGED <<registry, holding>>
           ELSE UNCHANGED <<req, registry, holding, at>>
  BY DEF BeginReplace
<1>2. /\ r.kind \in {"initial", "active"} /\ r.gen = MaxGens - left.gens + 1
      /\ r.cur \in Tracks /\ r.next \in Tracks \cup {None}
  BY DEF Requests
<1>3. /\ at = "idle" /\ active' = active /\ blame' = blame
      /\ left'.gens = left.gens - 1
      /\ left' \in [{"gens", "rolls", "faults", "errors"} -> Nat]
      /\ left.gens \in Nat
  BY DEF BeginReplace, Spend, RInv, Typed
<1>4. Before' = Before + 1 /\ Before \in Int /\ r.gen = Before'
  BY <1>2, <1>3 DEF Before
<1>5. CASE FitsReplace(r)
  <2>1. /\ req' = r /\ at' = IF r.kind = "initial" THEN "clear" ELSE "attach"
        /\ UNCHANGED <<preparing, failed, attached, cands, live, retiring, obsolete>>
    BY <1>1, <1>2, <1>3, <1>5
       DEF RetireLive, registry, holding, FitsReplace, RInv, PlanIsLive, Accounted
  <2>2. Typed' BY <1>1, <1>2, <1>3, <2>1 DEF RInv, Typed, Replacing
  <2>3. CandidatesFit' BY <1>2, <1>3, <2>1 DEF RInv, CandidatesFit, Replacing
  <2>4. NewBranches'
    <3>1. \A b \in live : b.gen \in Int /\ b.gen <= Before BY DEF RInv, NewBranches
    <3>2. \A b \in live : b.gen <= Before' /\ b.gen # r.gen
      <4> SUFFICES ASSUME NEW b \in live PROVE b.gen <= Before' /\ b.gen # r.gen
        OBVIOUS
      <4> QED BY <1>4, <3>1
    <3> QED BY <1>2, <1>3, <1>4, <2>1, <3>1, <3>2 DEF NewBranches, Replacing
  <2>5. PlanIsLive' BY <1>3, <2>1 DEF RInv, PlanIsLive, OnAir
  <2>6. Accounted' BY <1>3, <2>1 DEF RInv, Accounted
  <2>7. NoFailedBranchIsLive' /\ BlameIsJust'
    BY <1>3, <2>1 DEF RInv, NoFailedBranchIsLive, BlameIsJust
  <2> QED BY <2>2, <2>3, <2>4, <2>5, <2>6, <2>7 DEF RInv
<1>6. CASE ~ FitsReplace(r)
  <2>1. UNCHANGED <<req, registry, holding, at>> BY <1>1, <1>6
  <2>2. Typed' BY <1>3, <2>1 DEF RInv, Typed, Replacing
  <2>3. CandidatesFit' BY <2>1 DEF RInv, CandidatesFit, Replacing, registry, holding
  <2>4. NewBranches'
    <3>1. \A b \in live : b.gen \in Int /\ b.gen <= Before BY DEF RInv, NewBranches
    <3>2. \A b \in live : b.gen <= Before'
      <4> SUFFICES ASSUME NEW b \in live PROVE b.gen <= Before'
        OBVIOUS
      <4> QED BY <1>4, <3>1
    <3> QED BY <1>3, <2>1, <3>1, <3>2 DEF NewBranches, registry
  <2>5. PlanIsLive' BY <1>3, <2>1 DEF RInv, PlanIsLive, OnAir, registry
  <2>6. Accounted' BY <2>1 DEF RInv, Accounted, registry, holding
  <2>7. NoFailedBranchIsLive' /\ BlameIsJust'
    BY <1>3, <2>1 DEF RInv, NoFailedBranchIsLive, BlameIsJust, registry
  <2> QED BY <2>2, <2>3, <2>4, <2>5, <2>6, <2>7 DEF RInv
<1> QED BY <1>5, <1>6

(* A roll stages a track that is not live. *)
LEMMA BeginRollR ==
  ASSUME IInv, RInv, BeginRoll
  PROVE  RInv'
<1>1. PICK r \in Rolls :
        /\ r.next \notin {r.cur, r.expNext} \cup {b.track : b \in live} \/ r.next = None
        /\ \/ req' = r /\ at' = IF r.next = None THEN "unstage" ELSE "attach"
           \/ UNCHANGED <<req, at>>
  BY DEF BeginRoll
<1>2. r.kind = "roll" /\ r.next \in Tracks \cup {None}
  BY DEF Rolls
<1>3. /\ at = "idle" /\ UNCHANGED <<active, registry, holding, blame>>
      /\ left'.gens = left.gens /\ left' \in [{"gens", "rolls", "faults", "errors"} -> Nat]
  BY DEF BeginRoll, Spend, RInv, Typed
<1>4. Typed' BY <1>1, <1>2, <1>3 DEF RInv, Typed, Replacing
<1>5. CandidatesFit' BY <1>1, <1>2, <1>3 DEF RInv, CandidatesFit, Replacing, registry, holding
<1>6. NewBranches' BY <1>1, <1>2, <1>3 DEF RInv, NewBranches, Replacing, Before, registry
<1>7. PlanIsLive' BY <1>1, <1>3 DEF RInv, PlanIsLive, OnAir, registry
<1>8. Accounted' BY <1>1, <1>3 DEF RInv, Accounted, registry, holding
<1>9. NoFailedBranchIsLive' /\ BlameIsJust'
  BY <1>3 DEF RInv, NoFailedBranchIsLive, BlameIsJust, registry
<1> QED BY <1>4, <1>5, <1>6, <1>7, <1>8, <1>9 DEF RInv

(* What is attached is in the graph already, as a candidate or in hand. *)
LEMMA AttachR ==
  ASSUME IInv, RInv, AttachCurrent \/ AttachNext
  PROVE  RInv'
<1> DEFINE b == IF at = "attachNext" THEN Branch(req.next, req.gen)
                ELSE Branch(IF req.kind = "roll" THEN req.next ELSE req.cur, req.gen)
           then == IF at = "attach" THEN AfterAttach
                   ELSE IF req.kind = "initial" THEN "configure" ELSE "pause"
<1>1. /\ at \in {"attach", "attachNext"}
      /\ UNCHANGED <<active, req, blame, live, retiring, failed>>
      /\ left'.gens = left.gens /\ left' \in [{"gens", "rolls", "faults", "errors"} -> Nat]
      /\ \/ Attach(b, then)
         \/ /\ attached' = attached \cup {b} /\ obsolete' = {b} /\ at' = "loose"
            /\ UNCHANGED <<preparing, cands>>
         \/ /\ at' = "loose" \/ (req.kind = "initial" /\ at = "attachNext" /\ at' = "configure")
            /\ UNCHANGED <<preparing, attached, cands, obsolete>>
  <2> HIDE DEF b, then
  <2>1. left \in [{"gens", "rolls", "faults", "errors"} -> Nat]
    BY DEF RInv, Typed
  <2>2. ASSUME Spend("faults")
        PROVE  left'.gens = left.gens /\ left' \in [{"gens", "rolls", "faults", "errors"} -> Nat]
    BY <2>1, <2>2 DEF Spend
  <2>3. CASE AttachCurrent
    <3>1. at = "attach" /\ ((Attach(b, then) /\ left' = left) \/ AttachFails(b)) /\ Unchanged
      BY <2>3 DEF AttachCurrent, b, then
    <3> QED BY <2>1, <2>2, <3>1 DEF Attach, AttachFails, BuildFails, Unchanged
  <2>4. CASE AttachNext
    <3>1. /\ at = "attachNext" /\ Unchanged
          /\ \/ Attach(b, then) /\ left' = left
             \/ AttachFails(b)
             \/ /\ req.kind = "initial" /\ at' = "configure"
                /\ UNCHANGED <<registry, holding, left>>
      BY <2>4 DEF AttachNext, b, then
    <3> QED BY <2>1, <2>2, <3>1 DEF Attach, AttachFails, BuildFails, Unchanged, registry, holding
  <2> QED BY <2>3, <2>4
<1>2. b \notin live /\ b \notin preparing
  <2>1. CASE at = "attachNext"
    <3>1. b.gen = req.gen /\ b.track = req.next BY <2>1 DEF Branch
    <3>2. /\ Replacing /\ preparing = {Branch(req.cur, req.gen)} /\ req.cur # req.next
          /\ \A x \in live : x.gen # req.gen
      BY <2>1 DEF RInv, CandidatesFit, NewBranches, Typed
    <3> QED BY <3>1, <3>2 DEF Branch
  <2>2. CASE at = "attach"
    <3>1. b.gen = req.gen /\ (req.kind = "roll" => b.track = req.next) BY <2>2 DEF Branch
    <3>2. /\ preparing = {}
          /\ Replacing => \A x \in live : x.gen # req.gen
          /\ req.kind = "roll" => \A x \in live : x.track # req.next
          /\ Replacing \/ req.kind = "roll"
      BY <2>2 DEF RInv, CandidatesFit, NewBranches, IInv, Replacing
    <3> QED BY <3>1, <3>2
  <2> QED BY <1>1, <2>1, <2>2
<1>3. /\ obsolete = {} /\ retiring = {} /\ attached = live \cup preparing /\ preparing = cands
  BY <1>1 DEF RInv, Accounted, CandidatesFit
<1>4. /\ at' \in {"pause", "attachNext", "configure", "loose"}
      /\ req.kind = "roll" => at = "attach" /\ at' \in {"configure", "loose"} /\ cands = {}
      /\ at' \in {"pause", "attachNext"} => Replacing
      /\ at' = "attachNext" => at = "attach" /\ req.kind = "active" /\ req.next # None
      /\ at' = "pause" /\ req.kind = "initial" => at = "attach"
  BY <1>1 DEF Attach, AfterAttach, RInv, Typed, CandidatesFit, IInv, Replacing
<1>5. Typed' BY <1>1, <1>4 DEF RInv, Typed, Replacing
<1>6. \/ cands' = cands /\ preparing' = preparing /\ at' \in {"loose", "configure"}
         /\ (at' = "configure" => at = "attachNext" /\ Replacing)
      \/ cands' = cands \cup {b} /\ preparing' = preparing \cup {b} /\ at' # "loose"
  BY <1>1, <1>3, <1>4 DEF Attach, AfterAttach, Replacing
<1>7. CandidatesFit'
  <2>1. at = "attach" => cands = {} BY DEF RInv, CandidatesFit
  <2>2. at = "attachNext" => Replacing /\ cands = {Branch(req.cur, req.gen)}
    BY DEF RInv, CandidatesFit
  <2>3. b = IF at = "attachNext" \/ req.kind = "roll" THEN Branch(req.next, req.gen)
                                                     ELSE Branch(req.cur, req.gen)
    BY <1>1, <2>2 DEF Replacing
  <2>4. b.track \in Tracks
    BY <1>1, <2>3 DEF RInv, Typed, IInv, Replacing, Branch
  <2>5. \A c \in cands : c.track \in Tracks BY DEF RInv, CandidatesFit
  <2> HIDE DEF b, then
  <2> QED
    BY <1>1, <1>3, <1>4, <1>6, <2>1, <2>2, <2>3, <2>4, <2>5 DEF CandidatesFit, Replacing
<1> HIDE DEF b, then
<1>8. NewBranches'
  BY <1>1, <1>4 DEF RInv, NewBranches, Replacing, Before
<1>9. PlanIsLive' BY <1>1, <1>4 DEF RInv, PlanIsLive, OnAir
<1>10. Accounted'
  <2>1. CASE at' = "loose"
    BY <1>1, <1>2, <1>3, <1>6, <2>1 DEF RInv, Accounted, Attach
  <2>2. CASE at' # "loose"
    BY <1>1, <1>2, <1>3, <1>4, <1>6, <2>2 DEF RInv, Accounted, Attach
  <2> QED BY <2>1, <2>2
<1>11. NoFailedBranchIsLive' /\ BlameIsJust'
  BY <1>1 DEF RInv, NoFailedBranchIsLive, BlameIsJust
<1> QED BY <1>5, <1>7, <1>8, <1>9, <1>10, <1>11 DEF RInv

(* Candidates are taken out of the registry before they are discarded. *)
LEMMA RetireCandidatesR ==
  ASSUME IInv, RInv, NEW branches, branches \subseteq cands, NEW then,
         RetireCandidates(branches, then),
         UNCHANGED <<active, req, blame, left>>,
         \/ at = "rollback" /\ then = "discard" /\ branches = cands
         \/ /\ at = "configure" /\ then = "excess" /\ req.kind = "active"
            /\ branches = {Branch(req.next, req.gen)}
  PROVE  RInv'
<1> USE DEF RetireCandidates
<1>1. obsolete = {} /\ retiring = {} /\ preparing = cands
  BY DEF RInv, Accounted, CandidatesFit
<1>2. Typed' BY DEF RInv, Typed, Replacing
<1>3. CandidatesFit'
  <2>1. CASE at = "rollback" BY <1>1, <2>1 DEF RInv, CandidatesFit, Replacing
  <2>2. CASE at = "configure"
    <3>1. Replacing /\ req.cur # req.next /\ Branch(req.cur, req.gen) \in cands
      BY <2>2 DEF RInv, Typed, CandidatesFit, Replacing
    <3>2. Branch(req.cur, req.gen) # Branch(req.next, req.gen) BY <3>1 DEF Branch
    <3> QED BY <1>1, <2>2, <3>1, <3>2 DEF RInv, CandidatesFit, Replacing
  <2> QED BY <2>1, <2>2
<1>4. NewBranches' BY DEF RInv, NewBranches, Replacing, Before
<1>5. PlanIsLive' BY DEF RInv, PlanIsLive, OnAir
<1>6. Accounted' BY <1>1 DEF RInv, Accounted
<1>7. NoFailedBranchIsLive' /\ BlameIsJust' BY DEF RInv, NoFailedBranchIsLive, BlameIsJust
<1> QED BY <1>2, <1>3, <1>4, <1>5, <1>6, <1>7 DEF RInv

LEMMA ConfigureR ==
  ASSUME IInv, RInv, Configure
  PROVE  RInv'
<1>1. UNCHANGED <<active, req, blame, left, state, prev, cancelled>> /\ at = "configure"
  BY DEF Configure, Unchanged
<1>2. CASE RetireCandidates({Branch(req.next, req.gen)}, "excess") /\ req.kind = "active"
           /\ Cardinality(cands) > 1
  <2>1. {Branch(req.next, req.gen)} \subseteq cands
    <3>1. cands \subseteq {Branch(req.cur, req.gen), Branch(req.next, req.gen)}
      BY <1>2 DEF RInv, CandidatesFit, Replacing
    <3>2. ASSUME Branch(req.next, req.gen) \notin cands PROVE FALSE
      <4> DEFINE b == Branch(req.cur, req.gen)
      <4>1. b \in cands
        BY <1>1, <1>2 DEF RInv, CandidatesFit, Replacing
      <4>2. cands = {b} BY <3>1, <3>2, <4>1
      <4>3. Cardinality(cands) > 1 BY <1>2
      <4> HIDE DEF b
      <4>4. Cardinality({b}) = 1 BY FS_Singleton
      <4> QED BY <4>2, <4>3, <4>4
    <3> QED BY <3>2
  <2> QED BY <1>1, <1>2, <2>1, RetireCandidatesR
<1>3. CASE /\ UNCHANGED <<registry, holding>>
           /\ \/ at' = "rollback"
              \/ at' = IF req.kind = "initial" THEN "play" ELSE "commit"
  <2> USE DEF registry, holding
  <2>1. Typed' BY <1>1, <1>3 DEF RInv, Typed, Replacing
  <2>2. CandidatesFit' BY <1>1, <1>3 DEF RInv, CandidatesFit, Replacing
  <2>3. NewBranches' BY <1>1, <1>3 DEF RInv, NewBranches, Replacing, Before
  <2>4. PlanIsLive' BY <1>1, <1>3 DEF RInv, PlanIsLive, OnAir
  <2>5. Accounted' BY <1>1, <1>3 DEF RInv, Accounted
  <2>6. NoFailedBranchIsLive' /\ BlameIsJust'
    BY <1>1, <1>3 DEF RInv, NoFailedBranchIsLive, BlameIsJust
  <2> QED BY <2>1, <2>2, <2>3, <2>4, <2>5, <2>6 DEF RInv
<1> QED BY <1>2, <1>3 DEF Configure

(* A commit of a replacement: the candidates are the live branches. *)
LEMMA CommitReplaceR ==
  ASSUME IInv, RInv, CommitReplace
  PROVE  RInv'
<1>1. CASE Sound /\ FitsReplace(req)
  <2>1. /\ at = "commit" /\ Replacing /\ active' = Adopted
        /\ preparing' = preparing \ cands /\ retiring' = retiring \cup live
        /\ obsolete' = live /\ live' = cands /\ cands' = {}
        /\ at' = IF req.kind = "initial" THEN "end" ELSE "teardown"
        /\ UNCHANGED <<failed, attached, req, left, blame>>
    BY <1>1 DEF CommitReplace
  <2>2. /\ req.cur \in Tracks /\ req.next \in Tracks \cup {None} /\ req.cur # req.next
        /\ Branch(req.cur, req.gen) \in cands
        /\ cands \subseteq {Branch(req.cur, req.gen), Branch(req.next, req.gen)}
        /\ preparing = cands /\ obsolete = {} /\ retiring = {}
        /\ req.gen \in Int /\ req.gen <= Before
    BY <2>1 DEF RInv, Typed, CandidatesFit, NewBranches, Accounted
  <2>3. /\ active'.cur = req.cur /\ active'.gen = req.gen
        /\ active'.next \in {req.next, None}
        /\ active'.next = req.next /\ req.next # None => Branch(req.next, req.gen) \in cands
        /\ active' # NoPlan
    BY <2>1, <2>2 DEF Adopted
  <2>4. req.kind = "initial" => live = {}
    BY <1>1 DEF FitsReplace, RInv, PlanIsLive
  <2>5. Typed' BY <2>1, <2>2, <2>3 DEF RInv, Typed, Replacing
  <2>6. CandidatesFit' BY <2>1, <2>2 DEF CandidatesFit, Replacing
  <2>7. NewBranches'
    <3>1. \A b \in cands : b.gen = req.gen BY <2>2 DEF Branch
    <3> QED BY <2>1, <2>2, <3>1 DEF NewBranches, Replacing, Before
  <2>8. PlanIsLive'
    <3>1. OnAir' = Branch(req.cur, req.gen) BY <2>3 DEF OnAir
    <3>2. \E t \in Tracks : cands \subseteq {Branch(req.cur, req.gen), Branch(t, req.gen)}
      <4>1. CASE req.next \in Tracks BY <2>2, <4>1
      <4>2. CASE req.next = None
        <5>1. Branch(None, req.gen) \notin cands BY DEF RInv, CandidatesFit, Branch
        <5> QED BY <2>2, <4>2, <5>1
      <4> QED BY <2>2, <4>1, <4>2
    <3> QED BY <2>1, <2>2, <2>3, <3>1, <3>2 DEF PlanIsLive
  <2>9. Accounted' BY <2>1, <2>2, <2>4 DEF RInv, Accounted
  <2>10. NoFailedBranchIsLive'
    BY <1>1, <2>1, <2>2 DEF NoFailedBranchIsLive, Sound, NoneFailed
  <2>11. BlameIsJust' BY <2>1 DEF RInv, BlameIsJust
  <2> QED BY <2>5, <2>6, <2>7, <2>8, <2>9, <2>10, <2>11 DEF RInv
<1>2. CASE ~ (Sound /\ FitsReplace(req))
  <2> USE DEF registry, holding
  <2>1. at = "commit" /\ Replacing /\ at' = "rollback"
        /\ UNCHANGED <<active, registry, holding, req, left, blame>>
    BY <1>2 DEF CommitReplace
  <2>2. Typed' BY <2>1 DEF RInv, Typed, Replacing
  <2>3. CandidatesFit' BY <2>1 DEF RInv, CandidatesFit, Replacing
  <2>4. NewBranches' BY <2>1 DEF RInv, NewBranches, Replacing, Before
  <2>5. PlanIsLive' BY <2>1 DEF RInv, PlanIsLive, OnAir
  <2>6. Accounted' BY <2>1 DEF RInv, Accounted
  <2>7. NoFailedBranchIsLive' /\ BlameIsJust'
    BY <2>1 DEF RInv, NoFailedBranchIsLive, BlameIsJust
  <2> QED BY <2>2, <2>3, <2>4, <2>5, <2>6, <2>7 DEF RInv
<1> QED BY <1>1, <1>2

(* A commit of a roll: what is live beside the current track is displaced. *)
LEMMA CommitRollR ==
  ASSUME IInv, RInv, CommitRoll
  PROVE  RInv'
<1>1. CASE FitsRoll(req) /\ NoneFailed
  <2>1. /\ at \in {"commit", "unstage"} /\ at' = "teardown" /\ req.kind = "roll"
        /\ active' = [active EXCEPT !.next = req.next]
        /\ preparing' = preparing \ cands /\ retiring' = retiring \cup Displaced
        /\ obsolete' = Displaced /\ live' = (live \ Displaced) \cup cands /\ cands' = {}
        /\ UNCHANGED <<failed, attached, req, left, blame>>
    BY <1>1 DEF CommitRoll
  <2>2. /\ active # NoPlan /\ active.gen = req.gen /\ active.cur = req.cur
        /\ active.next = req.expNext
        /\ active.cur \in Tracks /\ req.next \in Tracks \cup {None}
        /\ at = "unstage" <=> req.next = None
        /\ preparing = cands /\ obsolete = {} /\ retiring = {}
        /\ cands = IF req.next = None THEN {} ELSE {Branch(req.next, req.gen)}
    BY <1>1, <2>1 DEF FitsRoll, RInv, Typed, CandidatesFit, Accounted
  <2>3. PICK t \in Tracks : live \subseteq {OnAir, Branch(t, active.gen)}
    BY <2>1, <2>2 DEF RInv, PlanIsLive
  <2>4. OnAir \in live /\ OnAir.track = active.cur /\ OnAir.gen = active.gen
    BY <2>1, <2>2 DEF RInv, PlanIsLive, OnAir, Branch
  <2>5. live \ Displaced = {OnAir}
    <3>1. CASE req.expNext = None
      BY <2>2, <2>3, <2>4, <3>1 DEF Displaced, OnAir, Branch
    <3>2. CASE req.expNext # None
      <4>1. Branch(active.next, active.gen) \in live /\ active.next # active.cur
        BY <2>1, <2>2, <3>2 DEF RInv, PlanIsLive
      <4>2. t = active.next BY <2>3, <4>1 DEF OnAir, Branch
      <4> QED BY <2>2, <2>3, <2>4, <3>2, <4>1, <4>2 DEF Displaced, OnAir, Branch
    <3> QED BY <3>1, <3>2
  <2>6. live' = {OnAir} \cup cands /\ Displaced \subseteq live BY <2>1, <2>5 DEF Displaced
  <2>7. /\ active'.cur = active.cur /\ active'.gen = active.gen /\ active'.next = req.next
        /\ active' # NoPlan /\ OnAir' = OnAir
    BY <2>1, <2>2 DEF OnAir, IInv
  <2>8. OnAir.gen \in Int /\ OnAir.gen <= Before BY <2>4 DEF RInv, NewBranches
  <2>9. req.next # active.cur
    <3>1. CASE req.next = None BY <2>2, <3>1
    <3>2. CASE req.next # None
      <4>1. OnAir \notin cands BY <2>2, <2>4 DEF RInv, Accounted
      <4> QED BY <2>2, <3>2, <4>1 DEF OnAir
    <3> QED BY <3>1, <3>2
  <2>10. Typed' BY <2>1, <2>2, <2>7 DEF RInv, Typed, Replacing
  <2>11. CandidatesFit' BY <2>1, <2>2 DEF CandidatesFit, Replacing
  <2>12. NewBranches'
    <3>1. \A b \in live' : b.gen = OnAir.gen BY <2>2, <2>4, <2>6 DEF Branch
    <3> QED BY <2>1, <2>8, <3>1 DEF NewBranches, Replacing, Before
  <2>13. PlanIsLive'
    <3>1. \E x \in Tracks : live' \subseteq {OnAir, Branch(x, active.gen)}
      BY <2>2, <2>6
    <3> QED BY <2>1, <2>2, <2>6, <2>7, <2>9, <3>1 DEF PlanIsLive
  <2>14. Accounted'
    <3>1. attached = live \cup cands /\ live \cap cands = {}
      BY <2>2 DEF RInv, Accounted
    <3> QED BY <2>1, <2>2, <3>1, <2>6 DEF Accounted
  <2>15. NoFailedBranchIsLive'
    <3>1. live \cap failed = {} /\ cands \cap failed = {}
      BY <1>1, <2>2 DEF RInv, NoFailedBranchIsLive, NoneFailed
    <3> QED BY <2>1, <3>1 DEF NoFailedBranchIsLive
  <2>16. BlameIsJust' BY <2>1 DEF RInv, BlameIsJust
  <2> QED BY <2>10, <2>11, <2>12, <2>13, <2>14, <2>15, <2>16 DEF RInv
<1>2. CASE ~ (FitsRoll(req) /\ NoneFailed)
  <2> USE DEF registry, holding
  <2>1. /\ at \in {"commit", "unstage"} /\ req.kind = "roll"
        /\ at' = IF at = "commit" THEN "rollback" ELSE "end"
        /\ UNCHANGED <<active, registry, holding, req, left, blame>>
    BY <1>2 DEF CommitRoll
  <2>2. Typed' BY <2>1 DEF RInv, Typed, Replacing
  <2>3. CandidatesFit' BY <2>1 DEF RInv, CandidatesFit, Replacing
  <2>4. NewBranches' BY <2>1 DEF RInv, NewBranches, Replacing, Before
  <2>5. PlanIsLive' BY <2>1 DEF RInv, PlanIsLive, OnAir
  <2>6. Accounted' BY <2>1 DEF RInv, Accounted
  <2>7. NoFailedBranchIsLive' /\ BlameIsJust'
    BY <2>1 DEF RInv, NoFailedBranchIsLive, BlameIsJust
  <2> QED BY <2>2, <2>3, <2>4, <2>5, <2>6, <2>7 DEF RInv
<1> QED BY <1>1, <1>2

LEMMA HaltR ==
  ASSUME IInv, RInv, Halt
  PROVE  RInv'
<1>1. /\ at = "halt" /\ Discard("end") /\ active' = NoPlan
      /\ UNCHANGED <<req, blame>>
      /\ left'.gens = left.gens /\ left' \in [{"gens", "rolls", "faults", "errors"} -> Nat]
  BY DEF Halt, Spend, RInv, Typed
<1> USE DEF Discard
<1>2. Typed' BY <1>1 DEF RInv, Typed, Replacing
<1>3. CandidatesFit' BY <1>1 DEF RInv, CandidatesFit, Replacing
<1>4. NewBranches' BY <1>1 DEF RInv, NewBranches, PlanIsLive
<1>5. PlanIsLive' BY <1>1 DEF RInv, PlanIsLive
<1>6. Accounted' BY <1>1 DEF RInv, Accounted
<1>7. NoFailedBranchIsLive' /\ BlameIsJust' BY <1>1 DEF RInv, NoFailedBranchIsLive, BlameIsJust
<1> QED BY <1>2, <1>3, <1>4, <1>5, <1>6, <1>7 DEF RInv

LEMMA EndR ==
  ASSUME IInv, RInv, End \/ SetPlaying
  PROVE  RInv'
<1> USE DEF registry, holding
<1>1. /\ UNCHANGED <<active, registry, holding, blame, left>>
      /\ \/ at = "end" /\ at' = "idle" /\ req' = NoRequest
         \/ at = "idle" /\ at' = "idle" /\ req' = req
  BY DEF End, SetPlaying
<1>2. Typed' BY <1>1 DEF RInv, Typed, Replacing
<1>3. CandidatesFit' BY <1>1 DEF RInv, CandidatesFit, Replacing, IInv
<1>4. NewBranches' BY <1>1 DEF RInv, NewBranches, Replacing, Before
<1>5. PlanIsLive' BY <1>1 DEF RInv, PlanIsLive, OnAir
<1>6. Accounted' BY <1>1 DEF RInv, Accounted
<1>7. NoFailedBranchIsLive' /\ BlameIsJust' BY <1>1 DEF RInv, NoFailedBranchIsLive, BlameIsJust
<1> QED BY <1>2, <1>3, <1>4, <1>5, <1>6, <1>7 DEF RInv

(* Whatever the streaming threads and the bus do, the registry stays. *)
LEMMA StreamsR ==
  ASSUME IInv, RInv, Handover \/ EndOfStream \/ BranchError \/ StrayError
  PROVE  RInv'
<1>1. /\ UNCHANGED <<live, preparing, retiring, attached, req, at, cands, obsolete>>
      /\ left'.gens = left.gens /\ left' \in [{"gens", "rolls", "faults", "errors"} -> Nat]
      /\ \/ active' = active
         \/ /\ active.next # None
            /\ active' = [gen |-> active.gen, cur |-> active.next, next |-> None]
  BY DEF Handover, EndOfStream, BranchError, StrayError, Streams, Spend, RInv, Typed, holding
<1>2. active # NoPlan \/ active.next = None OBVIOUS
<1>3. Typed' BY <1>1, <1>2 DEF RInv, Typed, Replacing
<1>4. CandidatesFit' BY <1>1 DEF RInv, CandidatesFit, Replacing
<1>5. NewBranches' BY <1>1 DEF RInv, NewBranches, Replacing, Before
<1>6. PlanIsLive'
  <2>1. CASE active' = active BY <1>1, <2>1 DEF RInv, PlanIsLive, OnAir
  <2>2. CASE /\ active.next # None
             /\ active' = [gen |-> active.gen, cur |-> active.next, next |-> None]
    <3>1. active # NoPlan /\ active.cur \in Tracks BY <1>2, <2>2 DEF RInv, Typed
    <3>2. CASE at = "halt" BY <1>1, <3>2 DEF RInv, PlanIsLive
    <3>3. CASE at # "halt"
      <4>1. /\ OnAir \in live /\ active.next # active.cur
            /\ Branch(active.next, active.gen) \in live
        BY <2>2, <3>1, <3>3 DEF RInv, PlanIsLive
      <4>2. PICK t \in Tracks : live \subseteq {OnAir, Branch(t, active.gen)}
        BY <3>1, <3>3 DEF RInv, PlanIsLive
      <4>3. t = active.next BY <4>1, <4>2 DEF OnAir, Branch
      <4>4. OnAir' = Branch(active.next, active.gen) /\ active'.gen = active.gen
            /\ active'.next = None /\ active'.cur = active.next
        BY <2>2 DEF OnAir
      <4>5. live \subseteq {OnAir', Branch(active.cur, active'.gen)}
        BY <4>2, <4>3, <4>4 DEF OnAir
      <4> QED BY <1>1, <2>2, <3>1, <3>3, <4>1, <4>4, <4>5 DEF PlanIsLive
    <3> QED BY <3>2, <3>3
  <2> QED BY <1>1, <2>1, <2>2
<1>7. Accounted' BY <1>1 DEF RInv, Accounted
<1>8. NoFailedBranchIsLive'
  <2>1. failed' = failed \/ \E b \in preparing \ live : failed' = failed \cup {b}
    BY DEF Handover, EndOfStream, BranchError, StrayError
  <2> QED BY <1>1, <2>1 DEF RInv, NoFailedBranchIsLive
<1>9. BlameIsJust'
  <2>1. CASE BranchError
    <3>1. PICK b \in attached :
            blame' = [from |-> IF at = "loose" /\ b \in obsolete THEN "loose" ELSE "branch",
                      as |-> Told(b)]
      BY <2>1 DEF BranchError
    <3>2. CASE at = "loose" /\ b \in obsolete BY <3>1, <3>2 DEF BlameIsJust
    <3>3. CASE ~ (at = "loose" /\ b \in obsolete)
      <4>1. b \in live \cup preparing \/ b \in retiring
        BY <3>3 DEF RInv, Accounted
      <4>2. Told(b) \in {"decode", "suppressed"} BY <4>1 DEF Told
      <4> QED BY <3>1, <4>2 DEF BlameIsJust
    <3> QED BY <3>2, <3>3
  <2>2. CASE StrayError BY <2>2 DEF StrayError, BlameIsJust
  <2>3. CASE blame' = blame BY <2>3 DEF RInv, BlameIsJust
  <2> QED BY <2>1, <2>2, <2>3 DEF Handover, EndOfStream
<1> QED BY <1>3, <1>4, <1>5, <1>6, <1>7, <1>8, <1>9 DEF RInv

LEMMA WorkR ==
  ASSUME IInv, RInv, Work
  PROVE  RInv'
<1>1. CASE Clear \/ Unattach \/ DiscardExcess \/ Teardown \/ DiscardCandidates
  BY <1>1, DiscardR DEF Clear, Unattach, DiscardExcess, Teardown, DiscardCandidates, Unchanged
<1>2. CASE Rollback BY <1>2, RetireCandidatesR DEF Rollback, Unchanged
<1> QED
  BY <1>1, <1>2, PauseR, RetireLiveR, AttachR, ConfigureR, CommitReplaceR, CommitRollR, HaltR, EndR
     DEF Work

(* The registry tells of every branch in the graph what it is there for. *)
THEOREM RegistryHolds == Spec => [](IInv /\ RInv)
<1>1. Init => RInv BY InitRInv
<1>2. IInv /\ RInv /\ [Next]_vars => RInv'
  <2> SUFFICES ASSUME IInv, RInv, [Next]_vars PROVE RInv'
    OBVIOUS
  <2>1. CASE UNCHANGED vars
    BY <2>1 DEF vars, registry, holding, RInv, Typed, CandidatesFit, NewBranches, PlanIsLive,
                Accounted, NoFailedBranchIsLive, BlameIsJust, Replacing, Before, OnAir
  <2> QED
    BY <2>1, BeginReplaceR, BeginRollR, RetireLiveR, EndR, WorkR, StreamsR DEF Next
<1> QED BY <1>1, <1>2, PhasesHold, PTL DEF Spec

(* What is on the air and what is staged have their branches in the graph, *)
(* at most one more branch is live, and none of them has failed.           *)
THEOREM OnlySoundPlansPlay == Spec => []PlanIsSound
<1>1. IInv /\ RInv => PlanIsSound
  <2> SUFFICES ASSUME RInv, at # "halt" PROVE PlanIsAttached
    BY DEF RInv, PlanIsSound, PlanIsAttached
  <2>1. live \subseteq attached BY DEF RInv, Accounted
  <2>2. Cardinality(live) <= 2
    <3>1. \E x, y : live \subseteq {x, y} BY DEF RInv, PlanIsLive
    <3>2. PICK x, y : live \subseteq {x, y} BY <3>1
    <3>3. IsFiniteSet({x, y}) /\ Cardinality({x, y}) <= 2
      <4>1. IsFiniteSet({x}) /\ Cardinality({x}) = 1 BY FS_Singleton
      <4>2. {x, y} = {x} \cup {y} OBVIOUS
      <4>3. IsFiniteSet({x, y}) /\ Cardinality({x, y}) \in {1, 2}
        BY <4>1, <4>2, FS_AddElement
      <4> QED BY <4>3
    <3>4. Cardinality(live) <= Cardinality({x, y}) /\ IsFiniteSet(live)
      BY <3>2, <3>3, FS_Subset
    <3>5. Cardinality(live) \in Nat /\ Cardinality({x, y}) \in Nat
      BY <3>3, <3>4, FS_CardinalityType
    <3> QED BY <3>3, <3>4, <3>5
  <2>3. active.next # None => active # NoPlan OBVIOUS
  <2> QED BY <2>1, <2>2, <2>3 DEF PlanIsAttached, RInv, PlanIsLive, OnAir
<1> QED BY <1>1, RegistryHolds, PTL

(* However an operation ends, nothing is left behind in the graph.         *)
THEOREM EverythingIsCleanedUp == Spec => []NothingLeftBehind
<1>1. IInv /\ RInv => NothingLeftBehind
  BY DEF RInv, CandidatesFit, Accounted, NothingLeftBehind
<1> QED BY <1>1, RegistryHolds, PTL

(* The error of a branch is taken for one of the whole pipeline only while *)
(* the registry does not know the branch.  What a failed attach_inner left *)
(* was never a branch.                                                     *)
THEOREM BranchesTakeTheBlame == Spec => []BlameIsJust
<1>1. IInv /\ RInv => BlameIsJust BY DEF RInv
<1> QED BY <1>1, RegistryHolds, PTL
-----------------------------------------------------------------------------
(* The planner's choice, resolved, fits, whatever was planned and whatever *)
(* the length of the files (resolve_transition).                           *)
THEOREM ResolvedFits ==
  ASSUME NEW plan \in Plans, NEW length \in Lengths, NEW nextLength \in Lengths, NEW seekable
  PROVE  Fits(Resolved(plan, length, nextLength, seekable), length, nextLength)
<1>1. CASE plan.kind = "cut"
  BY <1>1 DEF Resolved, Fits, Cut
<1>2. ASSUME NEW fade \in Nat
      PROVE  Fits(Naive(fade, length, nextLength), length, nextLength)
  BY DEF Fits, Naive, NaiveCrossfade, Cut, Smaller, Lengths, Unknown
<1>3. CASE plan.kind = "naive"
  <2>1. plan.fade \in Nat
    BY DEF Plans
  <2>2. Resolved(plan, length, nextLength, seekable) = Naive(plan.fade, length, nextLength)
    BY <1>3 DEF Resolved
  <2> QED
    BY <1>2, <2>1, <2>2
<1>4. CASE plan.kind = "cue" /\ (length = Unknown \/ nextLength = Unknown)
  BY <1>4 DEF Resolved, Fits, Cut
<1>5. CASE plan.kind = "cue" /\ length # Unknown /\ nextLength # Unknown
  <2> DEFINE from == Clamp(plan.fadeStart, plan.start, length)
             end  == Clamp(plan.end, from, length)
             d    == Smaller(Smaller(plan.duration, Less(end, from)), Less(nextLength, plan.nextStart))
             cue  == AutoCueCrossfade(plan.fade, plan.start, Larger(Less(end, d), from), end,
                                      plan.nextStart, d)
             unfit == \/ seekable = "no" \/ plan.start >= length \/ plan.nextStart >= nextLength
                      \/ d < MinOverlap
  <2>0. /\ length \in Nat /\ nextLength \in Nat
        /\ plan.fade \in Nat /\ plan.start \in Nat /\ plan.fadeStart \in Nat /\ plan.end \in Nat
        /\ plan.nextStart \in Nat /\ plan.duration \in Nat
    BY <1>5 DEF Lengths, Plans
  <2>1. Resolved(plan, length, nextLength, seekable)
          = IF unfit THEN Naive(plan.fade, length, nextLength) ELSE cue
    BY <1>5 DEF Resolved
  <2>2. CASE unfit
    BY <1>2, <2>0, <2>1, <2>2
  <2>3. CASE ~ unfit
    <3>0. plan.start < length /\ plan.nextStart < nextLength /\ MinOverlap <= d
      <4>1. d \in Nat /\ MinOverlap \in Nat
        BY <2>0, OverlapAssumption DEF Clamp, Smaller, Less
      <4> QED
        BY <2>0, <2>3, <4>1
    <3>1. from \in Nat /\ plan.start <= from /\ from <= length
      BY <2>0, <3>0 DEF Clamp
    <3>2. end \in Nat /\ from <= end /\ end <= length
      BY <2>0, <3>1 DEF Clamp
    <3> HIDE DEF from, end
    <3>3. d \in Nat /\ d <= end - from /\ d <= nextLength - plan.nextStart
      BY <2>0, <3>0, <3>1, <3>2 DEF Smaller, Less
    <3> HIDE DEF d
    <3>4. Larger(Less(end, d), from) = end - d
      BY <3>1, <3>2, <3>3 DEF Larger, Less
    <3>5. /\ cue.kind = "cue" /\ cue.start = plan.start /\ cue.nextStart = plan.nextStart
          /\ cue.fadeStart = end - d /\ cue.end = end /\ cue.duration = d
      BY <3>4 DEF AutoCueCrossfade
    <3> HIDE DEF cue
    <3>6. Fits(cue, length, nextLength)
      BY <2>0, <3>0, <3>1, <3>2, <3>3, <3>5 DEF Fits
    <3> QED
      BY <2>1, <2>3, <3>6
  <2> QED
    BY <2>2, <2>3
<1> QED
  BY <1>1, <1>3, <1>4, <1>5 DEF Plans

(* A roll that is not refused hands over in time (apply_rolling), if the   *)
(* transition fits the files and the track was not begun behind the point  *)
(* where it is to be left.                                                 *)
THEOREM RollsInTime ==
  ASSUME NEW t \in Plans, NEW length \in Nat, NEW nextLength \in Nat,
         NEW begun \in Nat, NEW base \in Nat, NEW elapsed \in Nat,
         Fits(t, length, nextLength),
         t.kind = "cue" => begun <= t.fadeStart,
         ~ Stale(t, length, begun, base, elapsed)
  PROVE  InTime(Rolling(t, length, begun, base, elapsed), length, begun, base, elapsed)
<1> DEFINE s == Shortened(t, length, begun)
<1>1. /\ t.fade \in Nat /\ t.fadeStart \in Nat /\ t.duration \in Nat /\ t.end \in Nat
      /\ t.kind \in {"cut", "naive", "cue"}
  BY DEF Plans
<1>2. /\ s.kind \in {"cut", "naive", "cue"}
      /\ s.kind = "naive" => s.fade \in Nat /\ s.fade <= Less(length, begun)
      /\ s.kind = "cue" => s = t
  BY <1>1 DEF Shortened, NaiveCrossfade, Cut, Smaller, Less
<1>3. ASSUME NEW r, r = s \/ r = Cut
      PROVE  /\ TakesOver(r, length, begun, base) = Expected(r, length, begun, base)
             /\ TakesOver(r, length, begun, base) <= base + Less(length, begun)
             /\ NextBegins(r, length, begun, base) <= TakesOver(r, length, begun, base)
  <2>1. CASE r.kind = "cut"
    BY <2>1 DEF TakesOver, Expected, NextBegins, Half, Less
  <2>2. CASE r.kind = "naive"
    <3>1. r = s
      BY <1>3, <2>2 DEF Cut
    <3>2. r.fade \in Nat /\ r.fade <= Less(length, begun)
      BY <1>2, <2>2, <3>1
    <3> QED
      BY <2>2, <3>2 DEF TakesOver, Expected, NextBegins, Half, Less
  <2>3. CASE r.kind = "cue"
    <3>1. r = t
      BY <1>2, <1>3, <2>3 DEF Cut
    <3>2. begun <= t.fadeStart /\ t.end <= length /\ t.fadeStart + t.duration = t.end
      BY <2>3, <3>1 DEF Fits
    <3> QED
      BY <1>1, <2>3, <3>1, <3>2 DEF TakesOver, Expected, NextBegins, Half, Less
  <2> QED
    BY <1>2, <1>3, <2>1, <2>2, <2>3 DEF Cut
<1> HIDE DEF s
<1>4. CASE Expected(s, length, begun, base) > elapsed
  <2>1. Rolling(t, length, begun, base, elapsed) = s
    BY <1>4 DEF Rolling, Selected, s
  <2>2. Expected(s, length, begun, base) \in Nat
    BY <1>1, <1>2 DEF Expected, Half, Less
  <2> QED
    BY <1>3, <1>4, <2>1, <2>2 DEF InTime
<1>5. CASE ~ (Expected(s, length, begun, base) > elapsed)
  <2>1. Rolling(t, length, begun, base, elapsed) = Cut
    BY <1>5 DEF Rolling, Selected, s
  <2>2. Expected(s, length, begun, base) \in Nat /\ Expected(Cut, length, begun, base) \in Nat
    BY <1>1, <1>2 DEF Expected, Half, Less, Cut
  <2>3. Expected(Cut, length, begun, base) > elapsed
    BY <1>5, <2>2 DEF Stale, TooLate, s
  <2> QED
    BY <1>3, <2>1, <2>2, <2>3 DEF InTime
<1> QED
  BY <1>4, <1>5
=============================================================================
