------------------------- MODULE QueueCursorProofs --------------------------
(***************************************************************************)
(* For every number of rows, faults, crashes and edits: nothing is         *)
(* consumed that was not current before, the server deletes no other row,  *)
(* and what the database was told is final and agrees with the memory.     *)
(*                                                                         *)
(* None of these is inductive by itself.  What is consumed next sits in    *)
(* the anchor of the plan, then in the cursor of the call under way, and a *)
(* failed write leaves it in dirty: IInv follows it through all of them.   *)
(* SInv says, between any two steps, what the memory is about to hold and  *)
(* where the cursor is kept that the database does or will hold.           *)
(***************************************************************************)
EXTENDS QueueCursor, Integers, FiniteSetTheorems, WellFoundedInduction, TLAPS

IsCursor(c) == c = [cur |-> c.cur, used |-> c.used]

(* The calls that carry a cursor to the database or back to the memory. *)
Writing == {"commit", "commitFill", "committed", "committedFill",
            "deferred", "deferredFill", "finish"}

(* The records have the fields the actions update. *)
Shape ==
  /\ IsCursor(cursor)
  /\ q = [items |-> q.items, cur |-> q.cur, used |-> q.used]
  /\ job = [at |-> job.at, cursor |-> job.cursor, rows |-> job.rows, ids |-> job.ids]
  /\ job.at \in Writing => IsCursor(job.cursor)
  /\ dirty # None => IsCursor(dirty)

(* A plan was made for a current item and consumes at most that one.       *)
PlanInv ==
  plan.song # None =>
    /\ q.cur # None
    /\ plan.anchor \subseteq passed \cup {q.cur}

(* A cursor on its way consumes what has given way. *)
JobInv == job.at \in Writing => job.cursor.used \subseteq passed

IInv == Shape /\ OnlyPassedConsumed /\ PlanInv /\ JobInv

-----------------------------------------------------------------------------
(* What the queue operations do to the consumed identities.                *)

LEMMA ReplacedForgets ==
  ASSUME NEW s, NEW retain, q = [items |-> q.items, cur |-> q.cur, used |-> q.used],
         q' = Replaced(q, s, retain)
  PROVE  /\ q' = [items |-> q'.items, cur |-> q'.cur, used |-> q'.used]
         /\ q'.used \subseteq q.used
         /\ retain /\ q.cur # None => q'.cur = q.cur
  BY DEF Replaced

LEMMA FinishedConsumesCurrent ==
  ASSUME q = [items |-> q.items, cur |-> q.cur, used |-> q.used], q' = Finished(q)
  PROVE  /\ q' = [items |-> q'.items, cur |-> q'.cur, used |-> q'.used]
         /\ q'.used \subseteq q.used \cup ({q.cur} \ {None})
  BY DEF Finished

LEMMA CommittedConsumesAnchor ==
  ASSUME NEW item, NEW anchor, q = [items |-> q.items, cur |-> q.cur, used |-> q.used],
         q' = Committed(q, item, anchor)
  PROVE  /\ q' = [items |-> q'.items, cur |-> q'.cur, used |-> q'.used]
         /\ q'.used = anchor
  BY DEF Committed

(* A trim only takes identities out of the stored cursor. *)
LEMMA StoreTrimFillForgets ==
  ASSUME NEW c, IsCursor(c), StoreTrimFill(c)
  PROVE  IsCursor(cursor') /\ cursor'.used \subseteq c.used
  BY DEF StoreTrimFill, Store, IsCursor

LEMMA ForgetTrimmedForgets ==
  ASSUME IsCursor(cursor), ForgetTrimmed
  PROVE  IsCursor(cursor') /\ cursor'.used \subseteq cursor.used
<1>1. PICK less : /\ less = [cursor EXCEPT !.used = @ \ job.ids]
                  /\ cursor' \in {cursor, less}
  BY DEF ForgetTrimmed, Store, Doubt
<1>2. IsCursor(less) /\ less.used \subseteq cursor.used
  BY <1>1 DEF IsCursor
<1> QED
  BY <1>1, <1>2

-----------------------------------------------------------------------------
LEMMA Start == Init => IInv
  BY DEF Init, IInv, Shape, IsCursor, OnlyPassedConsumed, PlanInv, JobInv, NoCursor, NoQueue,
         NoPlan, Idle, At, Writing

(* The memory and the way to the database. *)
LEMMA CommitKeeps ==
  ASSUME IInv, CommitCurrent
  PROVE  IInv'
<1>1. PICK anchor \in {plan.anchor, AnchorAfterCurrent(q)}, step \in {"commit", "commitFill"} :
        job' = Writes(step, [cur |-> plan.song, used |-> anchor])
  BY DEF CommitCurrent
<1>2. passed' = passed \cup {q.cur} /\ q' = q /\ cursor' = cursor /\ dirty' = dirty /\ plan' = plan
  BY DEF CommitCurrent
<1>3. anchor \subseteq passed'
  BY <1>1, <1>2 DEF CommitCurrent, IInv, OnlyPassedConsumed, PlanInv, AnchorAfterCurrent
<1>4. Shape'
  BY <1>1, <1>2 DEF IInv, Shape, IsCursor, Writes
<1>5. OnlyPassedConsumed' /\ PlanInv'
  BY <1>2 DEF IInv, OnlyPassedConsumed, PlanInv
<1>6. JobInv'
  BY <1>1, <1>3 DEF JobInv, Writes
<1> QED
  BY <1>4, <1>5, <1>6 DEF IInv

LEMMA PersistKeeps ==
  ASSUME IInv, PersistCommit \/ LoseCommit \/ SwallowCommit
  PROVE  IInv'
<1>1. q' = q /\ dirty' = dirty /\ plan' = plan /\ passed' = passed
  BY DEF PersistCommit, LoseCommit, SwallowCommit, memory
<1>2. job.at \in Writing
  BY DEF PersistCommit, LoseCommit, SwallowCommit, Writing
<1>3. PICK step \in Writing : job' = [job EXCEPT !.at = step]
  BY DEF PersistCommit, LoseCommit, SwallowCommit, Writing
<1>4. IsCursor(cursor') /\ cursor'.used \subseteq passed
  <2>1. IsCursor(cursor) /\ IsCursor(job.cursor)
    BY <1>2 DEF IInv, Shape
  <2>2. cursor.used \subseteq passed /\ job.cursor.used \subseteq passed
    BY <1>2 DEF IInv, OnlyPassedConsumed, JobInv
  <2>3. cursor' = cursor \/ cursor' = job.cursor \/ StoreTrimFill(job.cursor)
    BY DEF PersistCommit, LoseCommit, SwallowCommit, Store, Doubt
  <2> QED
    BY <2>1, <2>2, <2>3, StoreTrimFillForgets
<1>5. job' = [at |-> step, cursor |-> job.cursor, rows |-> job.rows, ids |-> job.ids]
  BY <1>3 DEF IInv, Shape
<1>6. Shape'
  BY <1>1, <1>2, <1>4, <1>5 DEF IInv, Shape
<1>7. JobInv'
  BY <1>1, <1>2, <1>5 DEF IInv, JobInv
<1> QED
  BY <1>1, <1>4, <1>6, <1>7 DEF IInv, OnlyPassedConsumed, PlanInv

LEMMA AdvanceKeeps ==
  ASSUME IInv, AdvanceMemory
  PROVE  IInv'
<1>1. job.at \in Writing
  BY DEF AdvanceMemory, Writing
<1>2. IsCursor(job.cursor) /\ job.cursor.used \subseteq passed
  BY <1>1 DEF IInv, Shape, JobInv
<1>3. /\ q' = [items |-> q'.items, cur |-> q'.cur, used |-> q'.used]
      /\ q'.used = job.cursor.used
  BY CommittedConsumesAnchor DEF AdvanceMemory, IInv, Shape
<1>4. dirty' \in {None, job.cursor} /\ cursor' = cursor /\ passed' = passed /\ plan' = NoPlan
  BY DEF AdvanceMemory
<1>5. job' = At("retry") \/ job' = At("idle")
  BY DEF AdvanceMemory, Idle
<1>6. Shape' /\ JobInv'
  BY <1>2, <1>3, <1>4, <1>5 DEF IInv, Shape, JobInv, At, Writing
<1> QED
  BY <1>2, <1>3, <1>4, <1>6 DEF IInv, OnlyPassedConsumed, PlanInv, NoPlan

LEMMA FinishKeeps ==
  ASSUME IInv, FinishCurrent
  PROVE  IInv'
<1>1. /\ q' = [items |-> q'.items, cur |-> q'.cur, used |-> q'.used]
      /\ q'.used \subseteq q.used \cup ({q.cur} \ {None})
  BY FinishedConsumesCurrent DEF FinishCurrent, IInv, Shape
<1>2. /\ passed' = passed \cup ({q.cur} \ {None})
      /\ cursor' = cursor /\ dirty' = dirty /\ plan' = NoPlan
  BY DEF FinishCurrent
<1>3. q'.used \subseteq passed'
  BY <1>1, <1>2 DEF IInv, OnlyPassedConsumed
<1>4. job' = At("idle") \/ job' = Writes("finish", [cur |-> None, used |-> q'.used])
  BY DEF FinishCurrent, Idle
<1>5. Shape' /\ JobInv'
  BY <1>1, <1>2, <1>3, <1>4 DEF IInv, Shape, IsCursor, JobInv, At, Writes, Writing
<1> QED
  BY <1>2, <1>3, <1>5 DEF IInv, OnlyPassedConsumed, PlanInv, NoPlan

LEMMA PersistFinishKeeps ==
  ASSUME IInv, PersistFinish
  PROVE  IInv'
<1>1. IsCursor(job.cursor) /\ job.cursor.used \subseteq passed
  BY DEF PersistFinish, IInv, Shape, JobInv, Writing
<1>2. /\ cursor' \in {cursor, job.cursor}
      /\ dirty' \in {None, job.cursor}
      /\ job' = At("idle") /\ q' = q /\ plan' = plan /\ passed' = passed
  BY DEF PersistFinish, Store, Doubt, Idle
<1>3. Shape' /\ JobInv'
  BY <1>1, <1>2 DEF IInv, Shape, JobInv, At, Writing
<1> QED
  BY <1>1, <1>2, <1>3 DEF IInv, OnlyPassedConsumed, PlanInv

LEMMA RetryKeeps ==
  ASSUME IInv, RetryDirtyCursor
  PROVE  IInv'
<1>1. /\ job' = At("load") /\ q' = q /\ plan' = plan /\ passed' = passed
      /\ cursor' = cursor \/ (dirty # None /\ cursor' = dirty)
      /\ dirty' = dirty \/ dirty' = None
  BY DEF RetryDirtyCursor, Store, Doubt
<1>2. Shape' /\ JobInv'
  BY <1>1 DEF IInv, Shape, JobInv, At, Writing
<1> QED
  BY <1>1, <1>2 DEF IInv, OnlyPassedConsumed, PlanInv

(* Adopting rows keeps the current item a plan was made for. *)
LEMMA ReplaceKeeps ==
  ASSUME IInv, Replace \/ ReloadSongs
  PROVE  IInv'
<1>1. PICK s, retain : /\ q' = Replaced(q, s, retain)
                       /\ plan.song # None => retain
  BY DEF Replace, ReloadSongs
<1>2. /\ q' = [items |-> q'.items, cur |-> q'.cur, used |-> q'.used]
      /\ q'.used \subseteq q.used
      /\ plan.song # None /\ q.cur # None => q'.cur = q.cur
  BY <1>1, ReplacedForgets DEF IInv, Shape
<1>3. /\ job' = job \/ job' = At("idle")
      /\ cursor' = cursor /\ dirty' = dirty /\ plan' = plan /\ passed' = passed
  BY DEF Replace, ReloadSongs, Idle
<1>4. Shape' /\ JobInv'
  BY <1>2, <1>3 DEF IInv, Shape, JobInv, At, Writing
<1> QED
  BY <1>2, <1>3, <1>4 DEF IInv, OnlyPassedConsumed, PlanInv

LEMMA PrepareKeeps ==
  ASSUME IInv, Prepare
  PROVE  IInv'
<1>1. PICK song : plan' = [song |-> song, anchor |-> AnchorAfterCurrent(q)]
  BY DEF Prepare
<1>2. /\ q.cur # None /\ q' = q /\ cursor' = cursor /\ dirty' = dirty
      /\ job' = job /\ passed' = passed
  BY DEF Prepare
<1>3. AnchorAfterCurrent(q) \subseteq passed \cup {q.cur}
  BY DEF IInv, OnlyPassedConsumed, AnchorAfterCurrent
<1>4. PlanInv'
  BY <1>1, <1>2, <1>3 DEF PlanInv
<1> QED
  BY <1>2, <1>4 DEF IInv, Shape, OnlyPassedConsumed, JobInv

(* Calls, edits and readings that touch no cursor and no current item. *)
LEMMA RestKeeps ==
  ASSUME IInv,
         \/ Refill \/ ReloadFromDb \/ Load \/ TrimPlayedItems \/ TrimRows
         \/ StartRead \/ Play \/ TrimConsumedItems \/ InsertRow \/ RemoveRows
         \/ Reorder \/ ReadRows
  PROVE  IInv'
<1> DEFINE Calm == /\ q' = q /\ cursor' = cursor /\ dirty' = dirty
                   /\ plan' = plan /\ passed' = passed
           Parked == \/ job' = job
                     \/ job' = At("idle") \/ job' = At("retry")
                     \/ \E s : job' = Holds("replace", s) \/ job' = Holds("start", s)
                     \/ \E gone : job' = Deletes("trim", gone) \/ job' = Deletes("forget", gone)
<1>1. Calm
  <2>1. Refill \/ ReloadFromDb \/ Load \/ TrimPlayedItems => Calm
    BY DEF Refill, ReloadFromDb, Load, TrimPlayedItems, memory
  <2>2. TrimRows \/ StartRead \/ Play => Calm
    BY DEF TrimRows, StartRead, Play, memory
  <2>3. TrimConsumedItems \/ InsertRow \/ RemoveRows \/ Reorder \/ ReadRows => Calm
    BY DEF TrimConsumedItems, InsertRow, RemoveRows, Reorder, ReadRows, memory
  <2> QED
    BY <2>1, <2>2, <2>3
<1>2. Parked
  <2>1. Refill \/ ReloadFromDb \/ Load => Parked
    BY DEF Refill, ReloadFromDb, Load, Idle
  <2>2. TrimPlayedItems => Parked
    BY DEF TrimPlayedItems, Idle
  <2>3. TrimRows \/ StartRead => Parked
    BY DEF TrimRows, StartRead, Idle
  <2>4. Play \/ TrimConsumedItems \/ InsertRow \/ RemoveRows \/ Reorder \/ ReadRows => Parked
    BY DEF Play, TrimConsumedItems, InsertRow, RemoveRows, Reorder, ReadRows
  <2> QED
    BY <2>1, <2>2, <2>3, <2>4
<1>3. /\ job' = [at |-> job'.at, cursor |-> job'.cursor, rows |-> job'.rows, ids |-> job'.ids]
      /\ job'.at \in Writing => job' = job
  BY <1>2 DEF IInv, Shape, At, Holds, Deletes, Writing
<1> QED
  BY <1>1, <1>3 DEF IInv, Shape, OnlyPassedConsumed, PlanInv, JobInv

LEMMA ForgetKeeps ==
  ASSUME IInv, ForgetTrimmed
  PROVE  IInv'
<1>1. IsCursor(cursor') /\ cursor'.used \subseteq cursor.used
  BY ForgetTrimmedForgets DEF IInv, Shape
<1>2. /\ job' = At("idle") /\ q' = q /\ dirty' = dirty /\ plan' = plan
      /\ passed' = passed
  BY DEF ForgetTrimmed, memory, Idle
<1>3. Shape' /\ JobInv'
  BY <1>1, <1>2 DEF IInv, Shape, JobInv, At, Writing
<1> QED
  BY <1>1, <1>2, <1>3 DEF IInv, OnlyPassedConsumed, PlanInv

(* A runtime starts from the stored cursor and loses what it alone knew. *)
LEMMA StartKeeps ==
  ASSUME IInv, StartRuntime
  PROVE  IInv'
<1>1. /\ cursor' = cursor /\ passed' = passed /\ job' = At("idle")
      /\ dirty' \in {None, dirty}
      /\ plan' = NoPlan \/ (plan' = plan /\ q' = q)
  BY DEF StartRuntime, Idle, memory
<1>2. /\ q' = [items |-> q'.items, cur |-> q'.cur, used |-> q'.used]
      /\ q'.used \in {q.used, cursor.used}
  BY DEF StartRuntime, memory, IInv, Shape
<1>3. Shape' /\ JobInv'
  BY <1>1, <1>2 DEF IInv, Shape, JobInv, At, Writing
<1> QED
  BY <1>1, <1>2, <1>3 DEF IInv, OnlyPassedConsumed, PlanInv, NoPlan

LEMMA VanishKeeps ==
  ASSUME IInv, Stop \/ Crash
  PROVE  IInv'
<1>1. /\ cursor' = cursor /\ passed' = passed /\ dirty' = None
      /\ q' = NoQueue /\ plan' = NoPlan /\ job' = At("idle")
  BY DEF Stop, Crash, Vanish, Idle
<1>2. Shape' /\ JobInv' /\ PlanInv'
  BY <1>1 DEF IInv, Shape, JobInv, PlanInv, NoQueue, NoPlan, At, Writing
<1> QED
  BY <1>1, <1>2 DEF IInv, OnlyPassedConsumed, NoQueue

LEMMA GiveUpKeeps ==
  ASSUME IInv, GiveUp
  PROVE  IInv'
  BY DEF GiveUp, IInv, Shape, OnlyPassedConsumed, PlanInv, JobInv, NoPlan

LEMMA StepKeeps ==
  ASSUME IInv, [Next]_vars
  PROVE  IInv'
<1>1. CASE Step
  BY <1>1, PrepareKeeps, CommitKeeps, PersistKeeps, AdvanceKeeps, FinishKeeps,
     PersistFinishKeeps, RetryKeeps, ReplaceKeeps, RestKeeps, ForgetKeeps, StartKeeps,
     VanishKeeps, GiveUpKeeps DEF Step
<1>2. CASE UNCHANGED vars
  BY <1>2 DEF vars, IInv, Shape, OnlyPassedConsumed, PlanInv, JobInv
<1> QED
  BY <1>1, <1>2 DEF Next

(* Nothing is consumed that was not current: neither a row inserted in     *)
(* front of a prepared successor nor one passed over by a skip, whatever   *)
(* fails, is retried or is lost in a restart.                              *)
THEOREM ConsumedWasCurrent == Spec => []OnlyPassedConsumed
<1>1. IInv => OnlyPassedConsumed
  BY DEF IInv
<1> QED
  BY Start, StepKeeps, <1>1, PTL DEF Spec
-----------------------------------------------------------------------------
(* The rows as a set.                                                      *)

(* A step up in a finite set of numbers is a step up in rank. *)
LEMMA RankGrows ==
  ASSUME NEW K, IsFiniteSet(K), K \subseteq Nat, NEW i \in K, NEW j \in K, i < j
  PROVE  Rank(i, K) < Rank(j, K)
<1> DEFINE A == {k \in K : k <= i}
           B == {k \in K : k <= j}
<1>1. A \subseteq B /\ j \in B /\ j \notin A /\ B \in SUBSET K
  <2>1. i \in Nat /\ j \in Nat /\ \A k \in K : k \in Nat OBVIOUS
  <2>2. \A k \in K : k <= i => k <= j BY <2>1
  <2>3. j <= j /\ ~ (j <= i) BY <2>1
  <2> QED BY <2>2, <2>3
<1>2. Rank(i, K) = Cardinality(A) /\ Rank(j, K) = Cardinality(B) BY DEF Rank
<1> HIDE DEF A, B
<1>3. IsFiniteSet(B) BY <1>1, FS_Subset
<1>4. /\ IsFiniteSet(A)
      /\ Cardinality(A) <= Cardinality(B)
      /\ Cardinality(B) = Cardinality(A) => B = A
  BY <1>1, <1>3, FS_Subset
<1>5. Cardinality(A) \in Nat /\ Cardinality(B) \in Nat
  BY <1>3, <1>4, FS_CardinalityType
<1>6. B # A BY <1>1
<1> QED BY <1>2, <1>4, <1>5, <1>6

(* Every rank is taken, and by one element. *)
LEMMA RankIsOnto ==
  ASSUME NEW K, IsFiniteSet(K), K \subseteq Nat
  PROVE  /\ Cardinality(K) \in Nat
         /\ \A i \in K : Rank(i, K) \in 1 .. Cardinality(K)
         /\ \A i, j \in K : Rank(i, K) = Rank(j, K) => i = j
         /\ \A n \in 1 .. Cardinality(K) : \E i \in K : Rank(i, K) = n
<1> DEFINE r == [i \in K |-> Rank(i, K)]
           N == 1 .. Cardinality(K)
<1>1. Cardinality(K) \in Nat BY FS_CardinalityType
<1>2. ASSUME NEW i \in K PROVE Rank(i, K) \in N
  <2> DEFINE A == {j \in K : j <= i}
  <2>1. A \in SUBSET K /\ i \in A OBVIOUS
  <2>2. Rank(i, K) = Cardinality(A) BY DEF Rank
  <2> HIDE DEF A
  <2>3. IsFiniteSet(A) /\ Cardinality(A) <= Cardinality(K) BY <2>1, FS_Subset
  <2>4. Cardinality(A) \in Nat BY <2>3, FS_CardinalityType
  <2>5. Cardinality(A) # 0 BY <2>1, <2>3, FS_EmptySet
  <2> QED BY <1>1, <2>2, <2>3, <2>4, <2>5
<1>3. ASSUME NEW i \in K, NEW j \in K, Rank(i, K) = Rank(j, K)
      PROVE  i = j
  <2>1. Rank(i, K) \in Nat BY <1>2, <1>1
  <2>2. i < j => Rank(i, K) < Rank(j, K) BY RankGrows
  <2>3. j < i => Rank(j, K) < Rank(i, K) BY RankGrows
  <2>4. i \in Nat /\ j \in Nat OBVIOUS
  <2> QED BY <1>3, <2>1, <2>2, <2>3, <2>4
<1>4. r \in Injection(K, N)
  <2>1. r \in [K -> N] BY <1>2
  <2>2. \A i, j \in K : r[i] = r[j] => i = j BY <1>3
  <2> QED BY <2>1, <2>2 DEF Injection, IsInjective
<1>5. IsFiniteSet(N) /\ Cardinality(N) = Cardinality(K)
  BY <1>1, FS_Interval
<1>6. r \in Surjection(K, N)
  BY <1>4, <1>5, FS_Injection
<1>7. \A n \in N : \E i \in K : r[i] = n
  BY <1>6 DEF Surjection
<1> QED BY <1>1, <1>2, <1>3, <1>7

(* Without keeps the other rows, and nothing else. *)
LEMMA WithoutRows ==
  ASSUME NEW s, s \in Seq(Items), NEW gone
  PROVE  Without(s, gone) \in Seq(Items) /\ Rows(Without(s, gone)) = Rows(s) \ gone
<1> DEFINE K == {i \in DOMAIN s : s[i] \notin gone}
           at(k) == CHOOSE i \in K : Rank(i, K) = k
           N == Cardinality(K)
<1>1. K \subseteq Nat /\ IsFiniteSet(K) /\ \A i \in K : s[i] \in Items \ gone
  <2>1. IsFiniteSet(1 .. Len(s)) BY FS_Interval
  <2>2. DOMAIN s = 1 .. Len(s) /\ Len(s) \in Nat OBVIOUS
  <2>3. K \in SUBSET (1 .. Len(s)) BY <2>2
  <2>4. IsFiniteSet(K) BY <2>1, <2>3, FS_Subset
  <2> QED BY <2>2, <2>3, <2>4
<1>2. Without(s, gone) = [k \in 1 .. N |-> s[at(k)]]
  BY DEF Without
<1>3. N \in Nat BY <1>1, RankIsOnto
<1>4. \A k \in 1 .. N : at(k) \in K
  <2> HIDE DEF K
  <2> QED BY <1>1, RankIsOnto
<1>5. \A i \in K : \E k \in 1 .. N : at(k) = i
  <2> SUFFICES ASSUME NEW i \in K PROVE \E k \in 1 .. N : at(k) = i
    OBVIOUS
  <2>1. Rank(i, K) \in 1 .. N BY <1>1, RankIsOnto
  <2>2. at(Rank(i, K)) = i
    <3> HIDE DEF K
    <3> QED BY <1>1, RankIsOnto
  <2> QED BY <2>1, <2>2
<1>6. Rows(s) \ gone = {s[i] : i \in K} BY DEF Rows
<1> HIDE DEF K, at, N
<1>7. Without(s, gone) \in Seq(Items)
  <2>1. \A k \in 1 .. N : s[at(k)] \in Items BY <1>1, <1>4
  <2>2. Without(s, gone) \in [1 .. N -> Items] BY <1>2, <2>1
  <2> QED BY <1>3, <2>2
<1>8. Rows(Without(s, gone)) = {s[at(k)] : k \in 1 .. N} BY <1>2 DEF Rows
<1>9. {s[at(k)] : k \in 1 .. N} = {s[i] : i \in K} BY <1>4, <1>5
<1> QED BY <1>6, <1>7, <1>8, <1>9

(* A new row behind the others, or anywhere. *)
LEMMA AppendRows ==
  ASSUME NEW s, s \in Seq(Items), NEW item \in Items
  PROVE  Append(s, item) \in Seq(Items) /\ Rows(Append(s, item)) = Rows(s) \cup {item}
<1> DEFINE t == Append(s, item)
<1>1. /\ t \in Seq(Items) /\ DOMAIN t = DOMAIN s \cup {Len(s) + 1} /\ t[Len(s) + 1] = item
      /\ \A i \in DOMAIN s : t[i] = s[i]
  OBVIOUS
<1> HIDE DEF t
<1>2. Rows(t) = Rows(s) \cup {item} BY <1>1 DEF Rows
<1> QED BY <1>1, <1>2 DEF t

LEMMA InsertRows ==
  ASSUME NEW s, s \in Seq(Items), NEW item \in Items, NEW at \in 0 .. Len(s)
  PROVE  LET t == SubSeq(s, 1, at) \o <<item>> \o SubSeq(s, at + 1, Len(s))
         IN  t \in Seq(Items) /\ Rows(t) = Rows(s) \cup {item}
<1> DEFINE t == SubSeq(s, 1, at) \o <<item>> \o SubSeq(s, at + 1, Len(s))
<1>1. /\ t \in Seq(Items) /\ Len(t) = Len(s) + 1
      /\ \A i \in 1 .. Len(s) + 1 :
           t[i] = IF i <= at THEN s[i] ELSE IF i = at + 1 THEN item ELSE s[i - 1]
  <2> DEFINE a == SubSeq(s, 1, at)
             b == SubSeq(s, at + 1, Len(s))
  <2>1. /\ a \in Seq(Items) /\ Len(a) = at
        /\ \A i \in 1 .. at : a[i] = s[i]
    OBVIOUS
  <2>2. /\ b \in Seq(Items) /\ Len(b) = Len(s) - at
        /\ \A i \in 1 .. Len(s) - at : b[i] = s[at + i]
    OBVIOUS
  <2>3. t = a \o <<item>> \o b OBVIOUS
  <2> HIDE DEF a, b, t
  <2>4. a \o <<item>> \in Seq(Items) /\ Len(a \o <<item>>) = at + 1
        /\ \A i \in 1 .. at + 1 : (a \o <<item>>)[i] = IF i <= at THEN s[i] ELSE item
    BY <2>1
  <2> DEFINE c == a \o <<item>>
  <2>5. c \in Seq(Items) /\ Len(c) = at + 1 /\ t = c \o b BY <2>3, <2>4
  <2>6. \A i \in 1 .. at + 1 : c[i] = IF i <= at THEN s[i] ELSE item BY <2>4
  <2> HIDE DEF c
  <2>7. t \in Seq(Items) /\ Len(t) = Len(s) + 1 BY <2>2, <2>5
  <2>8. ASSUME NEW i \in 1 .. Len(s) + 1
        PROVE  t[i] = IF i <= at THEN s[i] ELSE IF i = at + 1 THEN item ELSE s[i - 1]
    <3>1. CASE i <= at + 1
      <4>1. t[i] = c[i] BY <2>2, <2>5, <3>1
      <4> QED BY <2>6, <3>1, <4>1
    <3>2. CASE i > at + 1
      <4>1. i - (at + 1) \in 1 .. Len(s) - at BY <3>2
      <4>2. t[i] = b[i - (at + 1)]
        <5>1. i - Len(c) \in 1 .. Len(b) /\ Len(c) \in Nat BY <2>2, <2>5, <4>1
        <5>2. i \in Len(c) + 1 .. Len(c) + Len(b) BY <5>1
        <5>3. (c \o b)[i] = b[i - Len(c)] BY <2>2, <2>5, <5>1, <5>2
        <5> QED BY <2>5, <5>3
      <4>3. at + (i - (at + 1)) = i - 1 OBVIOUS
      <4> QED BY <2>2, <3>2, <4>1, <4>2, <4>3
    <3> QED BY <3>1, <3>2
  <2> QED BY <2>7, <2>8
<1> HIDE DEF t
<1>2. Rows(t) \subseteq Rows(s) \cup {item}
  <2>1. ASSUME NEW i \in DOMAIN t PROVE t[i] \in Rows(s) \cup {item}
    <3>1. i \in 1 .. Len(s) + 1 BY <1>1
    <3>2. i <= at => t[i] = s[i] /\ i \in DOMAIN s BY <1>1, <3>1
    <3>3. i = at + 1 => t[i] = item BY <1>1, <3>1
    <3>4. ~ (i <= at) /\ i # at + 1 => t[i] = s[i - 1] /\ i - 1 \in DOMAIN s BY <1>1, <3>1
    <3> QED BY <3>2, <3>3, <3>4 DEF Rows
  <2> QED BY <2>1 DEF Rows
<1>3. item \in Rows(t)
  <2>1. at + 1 \in DOMAIN t /\ t[at + 1] = item BY <1>1
  <2> QED BY <2>1 DEF Rows
<1>4. ASSUME NEW i \in 1 .. Len(s) PROVE s[i] \in Rows(t)
  <2>1. CASE i <= at BY <1>1, <2>1 DEF Rows
  <2>2. CASE i > at
    <3>1. i + 1 \in DOMAIN t /\ t[i + 1] = s[i] BY <1>1, <2>2
    <3> QED BY <3>1 DEF Rows
  <2> QED BY <2>1, <2>2
<1>5. Rows(s) \subseteq Rows(t) BY <1>4 DEF Rows
<1>6. t \in Seq(Items) /\ Rows(t) = Rows(s) \cup {item} BY <1>1, <1>2, <1>3, <1>5
<1> QED BY <1>6 DEF t

LEMMA SwapRows ==
  ASSUME NEW s, s \in Seq(Items), NEW i \in DOMAIN s, NEW j \in DOMAIN s
  PROVE  LET t == [s EXCEPT ![i] = s[j], ![j] = s[i]]
         IN  t \in Seq(Items) /\ Rows(t) = Rows(s)
<1> DEFINE t == [s EXCEPT ![i] = s[j], ![j] = s[i]]
<1>1. /\ t \in Seq(Items) /\ DOMAIN t = DOMAIN s
      /\ \A k \in DOMAIN s : t[k] = IF k = j THEN s[i] ELSE IF k = i THEN s[j] ELSE s[k]
  OBVIOUS
<1> HIDE DEF t
<1>2. Rows(t) \subseteq Rows(s) BY <1>1 DEF Rows
<1>3. \A k \in DOMAIN s : \E l \in DOMAIN s : t[l] = s[k]
  <2> TAKE k \in DOMAIN s
  <2>1. CASE k = i BY <1>1, <2>1
  <2>2. CASE k = j BY <1>1, <2>2
  <2>3. CASE k # i /\ k # j BY <1>1, <2>3
  <2> QED BY <2>1, <2>2, <2>3
<1>4. Rows(t) = Rows(s) BY <1>1, <1>2, <1>3 DEF Rows
<1> QED BY <1>1, <1>4 DEF t

(* The first row outside skip is one. *)
LEMMA FirstIsOutside ==
  ASSUME NEW s, s \in Seq(Items), NEW skip, None \notin Items
  PROVE  LET f == FirstOutside(s, skip) IN f \in (Rows(s) \ skip) \cup {None}
<1> DEFINE fresh == {i \in DOMAIN s : s[i] \notin skip}
<1>1. CASE fresh = {} BY <1>1 DEF FirstOutside
<1>2. CASE fresh # {}
  <2>1. fresh \subseteq Nat OBVIOUS
  <2>2. \E i \in fresh : \A j \in fresh : ~ (<<j, i>> \in OpToRel(<, Nat))
    <3> HIDE DEF fresh
    <3> QED BY <1>2, <2>1, NatLessThanWellFounded, WFMin
  <2>3. \E i \in fresh : \A j \in fresh : i <= j
    <3> HIDE DEF fresh
    <3>1. PICK i \in fresh : \A j \in fresh : ~ (<<j, i>> \in OpToRel(<, Nat)) BY <2>2
    <3>2. ASSUME NEW j \in fresh PROVE i <= j
      <4>1. i \in Nat /\ j \in Nat BY <2>1
      <4>2. j < i => <<j, i>> \in OpToRel(<, Nat) BY <4>1 DEF OpToRel
      <4>3. ~ (<<j, i>> \in OpToRel(<, Nat)) BY <3>1
      <4>4. ~ (j < i) BY <4>2, <4>3
      <4> QED BY <4>1, <4>4
    <3> QED BY <3>2
  <2> DEFINE i == CHOOSE i \in fresh : \A j \in fresh : i <= j
  <2>4. i \in fresh
    <3> HIDE DEF fresh
    <3> QED BY <2>3
  <2>5. FirstOutside(s, skip) = s[i] BY <1>2 DEF FirstOutside
  <2> QED BY <2>4, <2>5 DEF Rows
<1> QED BY <1>1, <1>2

LEMMA VictimsArePlayed ==
  ASSUME NEW s, NEW used
  PROVE  Victims(s, used) \subseteq Rows(s) \cap used
  BY DEF Victims, Played, Rows

-----------------------------------------------------------------------------
(* Every variable stays in its type.                                       *)

LEMMA ReplacedType ==
  ASSUME q \in Queues, NEW s, s \in Seq(Items), NEW retain
  PROVE  Replaced(q, s, retain) \in Queues
<1>1. FirstOutside(s, q.used) \in Items \cup {None}
  BY FirstIsOutside, QueueCursorAssumption DEF Rows
<1> DEFINE r == Replaced(q, s, retain)
<1>2. r.items = s /\ r.used \in SUBSET Items /\ r.cur \in Items \cup {None}
      /\ r = [items |-> r.items, cur |-> r.cur, used |-> r.used]
  BY <1>1 DEF Replaced, Queues
<1> HIDE DEF r
<1>3. r \in Queues BY <1>2 DEF Queues
<1> QED BY <1>3 DEF r

LEMMA FilledType ==
  ASSUME NEW s, s \in Seq(Items), rows' \in Filled(s), born \subseteq Items
  PROVE  /\ rows' \in Seq(Items)
         /\ \E new \in SUBSET (Items \ born) : Rows(rows') = Rows(s) \cup new
<1>1. CASE rows' = s
  <2>1. Rows(rows') = Rows(s) \cup {} BY <1>1
  <2> QED BY <1>1, <2>1
<1>2. CASE \E item \in Items \ born : rows' = Append(s, item)
  <2>1. PICK item \in Items \ born : rows' = Append(s, item) BY <1>2
  <2>2. {item} \in SUBSET (Items \ born) BY <2>1
  <2> QED BY <2>1, <2>2, AppendRows
<1> QED BY <1>1, <1>2 DEF Filled

(* The statements that change rows: what goes and what comes. *)
LEMMA StoreTrimFillRows ==
  ASSUME TypeOK, NEW c \in Cursors, StoreTrimFill(c)
  PROVE  /\ rows' \in Seq(Items) /\ cursor' \in Cursors
         /\ cursor'.cur = c.cur /\ born' = born \cup Rows(rows')
         /\ \E gone \in SUBSET (Rows(rows) \cap c.used), new \in SUBSET (Items \ born) :
              /\ cursor'.used = c.used \ gone
              /\ Rows(rows') = (Rows(rows) \ gone) \cup new
<1> DEFINE gone == Victims(rows, c.used)
<1>1. gone \in SUBSET (Rows(rows) \cap c.used) BY VictimsArePlayed
<1>2. /\ cursor' = [c EXCEPT !.used = @ \ gone]
      /\ rows' \in Filled(Without(rows, gone))
      /\ born' = born \cup Rows(rows')
  BY DEF StoreTrimFill, Store
<1> HIDE DEF gone
<1>3. rows \in Seq(Items) /\ born \subseteq Items BY DEF TypeOK
<1>4. Without(rows, gone) \in Seq(Items) /\ Rows(Without(rows, gone)) = Rows(rows) \ gone
  BY <1>3, WithoutRows
<1>5. /\ rows' \in Seq(Items)
      /\ \E new \in SUBSET (Items \ born) : Rows(rows') = (Rows(rows) \ gone) \cup new
  BY <1>2, <1>3, <1>4, FilledType
<1>6. cursor' \in Cursors /\ cursor'.cur = c.cur /\ cursor'.used = c.used \ gone
  BY <1>2 DEF Cursors
<1> QED BY <1>1, <1>2, <1>5, <1>6

LEMMA BudgetType ==
  ASSUME TypeOK, Fail \/ Edit \/ UNCHANGED budget
                   \/ (budget.crashes > 0 /\ budget' = [budget EXCEPT !.crashes = @ - 1])
  PROVE  /\ budget' \in [faults : Nat, crashes : Nat, edits : Nat, stale : BOOLEAN]
         /\ budget'.stale = budget.stale
  BY DEF TypeOK, Fail, Edit

LEMMA TypeInit == Init => TypeOK
<1> SUFFICES ASSUME Init PROVE TypeOK
  OBVIOUS
<1>1. Rows(InitialRows) \subseteq Items BY QueueCursorAssumption DEF Rows
<1> QED
  BY <1>1, QueueCursorAssumption
     DEF Init, TypeOK, NoCursor, NoQueue, NoPlan, Idle, At, Steps, Cursors, Queues

LEMMA TypeCommit ==
  ASSUME TypeOK, IInv, stored' = stored \cup cursor'.used,
         Prepare \/ CommitCurrent \/ AdvanceMemory
  PROVE  TypeOK'
<1>0. stored' \subseteq Items
  BY DEF TypeOK, Cursors, Prepare, CommitCurrent, AdvanceMemory
<1>1. AnchorAfterCurrent(q) \in SUBSET Items
  BY DEF TypeOK, Queues, AnchorAfterCurrent
<1>2. CASE Prepare
  <2>1. PICK song \in Rows(q.items) \ (q.used \cup {q.cur}) :
          plan' = [song |-> song, anchor |-> AnchorAfterCurrent(q)]
    BY <1>2 DEF Prepare
  <2>2. song \in Items BY DEF TypeOK, Queues, Rows
  <2> QED BY <1>0, <1>1, <1>2, <2>1, <2>2 DEF TypeOK, Prepare
<1>3. CASE CommitCurrent
  <2>1. PICK anchor \in SUBSET Items, step \in {"commit", "commitFill"} :
          job' = Writes(step, [cur |-> plan.song, used |-> anchor])
    BY <1>1, <1>3 DEF CommitCurrent, TypeOK
  <2>2. q.cur \in Items /\ plan.song \in Items
    BY <1>3 DEF CommitCurrent, TypeOK, Queues, IInv, PlanInv
  <2>3. job' \in [at : Steps, cursor : Cursors, rows : Seq(Items), ids : SUBSET Items]
    BY <2>1, <2>2 DEF Writes, Steps, Cursors
  <2> QED BY <1>0, <1>3, <2>2, <2>3 DEF TypeOK, CommitCurrent
<1>4. CASE AdvanceMemory
  <2>1. q' \in Queues BY <1>4 DEF AdvanceMemory, Committed, TypeOK, Queues, Cursors
  <2>2. job' \in [at : Steps, cursor : Cursors, rows : Seq(Items), ids : SUBSET Items]
    BY <1>4, None \in Items \cup {None} DEF AdvanceMemory, At, Idle, Steps, Cursors, NoCursor
  <2>3. dirty' \in Cursors \cup {None} /\ reserved' \in Items \cup {None}
    BY <1>4 DEF AdvanceMemory, TypeOK
  <2> QED BY <1>0, <1>4, <2>1, <2>2, <2>3 DEF TypeOK, AdvanceMemory, NoPlan
<1> QED BY <1>2, <1>3, <1>4

JobType(j) == j \in [at : Steps, cursor : Cursors, rows : Seq(Items), ids : SUBSET Items]

LEMMA JobTypes ==
  ASSUME TypeOK
  PROVE  /\ JobType(Idle)
         /\ \A step \in Steps : /\ JobType(At(step))
                                /\ \A c \in Cursors : JobType(Writes(step, c))
                                /\ \A s \in Seq(Items) : JobType(Holds(step, s))
                                /\ \A ids \in SUBSET Items : JobType(Deletes(step, ids))
                                /\ JobType([job EXCEPT !.at = step])
<1>1. NoCursor \in Cursors /\ <<>> \in Seq(Items) /\ {} \in SUBSET Items
  BY DEF NoCursor, Cursors
<1>2. "idle" \in Steps BY DEF Steps
<1> QED BY <1>1, <1>2 DEF JobType, TypeOK, Idle, At, Writes, Holds, Deletes

LEMMA TypeWrite ==
  ASSUME TypeOK, IInv, stored' = stored \cup cursor'.used,
         \/ PersistCommit \/ LoseCommit \/ SwallowCommit \/ FinishCurrent \/ PersistFinish
         \/ RetryDirtyCursor \/ ForgetTrimmed
  PROVE  TypeOK'
<1>1. CASE PersistCommit \/ LoseCommit \/ SwallowCommit
  <2>1. \/ StoreTrimFill(job.cursor)
        \/ rows' = rows /\ born' = born /\ cursor' \in {cursor, job.cursor}
    BY <1>1 DEF PersistCommit, LoseCommit, SwallowCommit, Store, Doubt
  <2>2. rows' \in Seq(Items) /\ cursor' \in Cursors /\ born' \subseteq Items
    <3>1. /\ job.cursor \in Cursors /\ cursor \in Cursors
          /\ rows \in Seq(Items) /\ born \subseteq Items
      BY DEF TypeOK
    <3>2. CASE StoreTrimFill(job.cursor)
      <4>1. rows' \in Seq(Items) /\ cursor' \in Cursors /\ born' = born \cup Rows(rows')
        BY <3>1, <3>2, StoreTrimFillRows
      <4> QED BY <3>1, <4>1 DEF Rows
    <3>3. CASE rows' = rows /\ born' = born /\ cursor' \in {cursor, job.cursor}
      BY <3>1, <3>3
    <3> QED BY <2>1, <3>2, <3>3
  <2>3. PICK step \in Steps : job' = [job EXCEPT !.at = step]
    BY <1>1 DEF PersistCommit, LoseCommit, SwallowCommit, Steps
  <2>4. JobType(job') BY <2>3, JobTypes
  <2>5. budget' \in [faults : Nat, crashes : Nat, edits : Nat, stale : BOOLEAN]
    BY <1>1, BudgetType DEF PersistCommit, LoseCommit, SwallowCommit
  <2>6. UNCHANGED <<mode, q, dirty, reserved, plan, fetched, passed>>
    BY <1>1 DEF PersistCommit, LoseCommit, SwallowCommit, memory
  <2> QED BY <2>2, <2>4, <2>5, <2>6 DEF TypeOK, JobType, Cursors
<1>2. CASE FinishCurrent
  <2>1. q' \in Queues BY <1>2 DEF FinishCurrent, Finished, TypeOK, Queues
  <2>2. [cur |-> None, used |-> q'.used] \in Cursors /\ "finish" \in Steps
    BY <2>1 DEF Queues, Cursors, Steps
  <2>3. JobType(job')
    BY <1>2, <2>2, JobTypes DEF FinishCurrent
  <2>4. passed' \subseteq Items BY <1>2 DEF FinishCurrent, TypeOK, Queues
  <2>5. stored' \subseteq Items BY <1>2 DEF FinishCurrent, TypeOK, Cursors
  <2> QED BY <1>2, <2>1, <2>3, <2>4, <2>5 DEF TypeOK, JobType, FinishCurrent, NoPlan
<1>3. CASE PersistFinish \/ RetryDirtyCursor \/ ForgetTrimmed
  <2>1. cursor' \in Cursors /\ dirty' \in Cursors \cup {None}
    BY <1>3 DEF TypeOK, Cursors, PersistFinish, RetryDirtyCursor, ForgetTrimmed, Store, Doubt,
                memory
  <2>2. JobType(job') BY <1>3, JobTypes DEF PersistFinish, RetryDirtyCursor, ForgetTrimmed, Steps
  <2>3. budget' \in [faults : Nat, crashes : Nat, edits : Nat, stale : BOOLEAN]
    BY <1>3, BudgetType DEF PersistFinish, RetryDirtyCursor, ForgetTrimmed
  <2>4. UNCHANGED <<rows, born, mode, q, reserved, plan, fetched, passed>>
    BY <1>3 DEF PersistFinish, RetryDirtyCursor, ForgetTrimmed, memory
  <2>5. stored' \subseteq Items BY <2>1 DEF TypeOK, Cursors
  <2> QED BY <2>1, <2>2, <2>3, <2>4, <2>5 DEF TypeOK, JobType
<1> QED BY <1>1, <1>2, <1>3

LEMMA TypeRead ==
  ASSUME TypeOK, stored' = stored \cup cursor'.used,
         \/ ReloadFromDb \/ Load \/ Replace \/ TrimPlayedItems \/ StartRead \/ StartRuntime
         \/ Play \/ GiveUp \/ Stop \/ Crash \/ ReadRows \/ ReloadSongs
  PROVE  TypeOK'
<1>1. rows' = rows /\ cursor' = cursor /\ born' = born /\ passed' = passed
  BY DEF ReloadFromDb, Load, Replace, TrimPlayedItems, StartRead, StartRuntime, Play, GiveUp,
         Stop, Crash, Vanish, ReadRows, ReloadSongs
<1>2. stored' \subseteq Items /\ rows \in Seq(Items) BY <1>1 DEF TypeOK, Cursors
<1>3. budget' \in [faults : Nat, crashes : Nat, edits : Nat, stale : BOOLEAN]
  BY BudgetType
     DEF ReloadFromDb, Load, Replace, TrimPlayedItems, StartRead, StartRuntime, Play, GiveUp,
         Stop, Crash, ReadRows, ReloadSongs
<1>4. fetched' \in Seq(Items) \cup {None} /\ mode' \in {"down", "stopped", "playing"}
  BY DEF TypeOK, ReloadFromDb, Load, Replace, TrimPlayedItems, StartRead, StartRuntime, Play,
         GiveUp, Stop, Crash, Vanish, ReadRows, ReloadSongs
<1>5. JobType(job')
  <2>1. CASE TrimPlayedItems
    <3> DEFINE gone == Victims(rows, cursor.used)
    <3>1. gone \in SUBSET Items BY <1>2, VictimsArePlayed DEF TypeOK, Cursors
    <3>2. job' \in {Idle} \cup (IF gone = {} THEN {} ELSE {Deletes("trim", gone)})
      BY <2>1 DEF TrimPlayedItems
    <3> HIDE DEF gone
    <3>3. job' \in {Idle, Deletes("trim", gone)} BY <3>2
    <3> QED BY <3>1, <3>3, JobTypes DEF Steps
  <2>2. CASE \/ job' = job \/ job' = Idle \/ job' = At("retry") \/ job' = Holds("replace", rows)
             \/ job' = Holds("start", rows)
    <3>1. {"retry", "replace", "start"} \subseteq Steps BY DEF Steps
    <3>2. JobType(job) BY DEF TypeOK, JobType
    <3> QED BY <1>2, <2>2, <3>1, <3>2, JobTypes
  <2> QED BY <2>1, <2>2
          DEF ReloadFromDb, Load, Replace, StartRead, StartRuntime, Play, GiveUp, Stop, Crash,
              Vanish, ReadRows, ReloadSongs
<1>6. /\ q' \in Queues /\ dirty' \in Cursors \cup {None} /\ reserved' \in Items \cup {None}
      /\ plan' \in [song : Items \cup {None}, anchor : SUBSET Items]
  <2>1. CASE q' = q /\ dirty' = dirty /\ reserved' = reserved /\ plan' \in {plan, NoPlan}
    BY <2>1 DEF TypeOK, NoPlan
  <2>2. CASE Replace \/ ReloadSongs
    <3>1. \E s \in Seq(Items), retain \in BOOLEAN : q' = Replaced(q, s, retain)
      BY <2>2 DEF Replace, ReloadSongs, TypeOK
    <3>2. q' \in Queues BY <3>1, ReplacedType DEF TypeOK
    <3> QED BY <2>2, <3>2 DEF TypeOK, Replace, ReloadSongs
  <2>3. CASE q' = NoQueue /\ dirty' = None /\ reserved' = None /\ plan' = NoPlan
    BY <2>3 DEF NoQueue, NoPlan, Queues
  <2>4. CASE StartRuntime /\ dirty' = None /\ reserved' = None /\ plan' = NoPlan
             /\ q' = [items |-> job.rows,
                 cur   |-> IF cursor.cur \in Rows(job.rows) THEN cursor.cur ELSE None,
                 used  |-> cursor.used]
    BY <2>4 DEF TypeOK, NoPlan, Queues, Cursors
  <2> QED BY <2>1, <2>2, <2>3, <2>4
          DEF ReloadFromDb, Load, TrimPlayedItems, StartRead, StartRuntime, Play, GiveUp, Stop,
              Crash, Vanish, ReadRows, memory
<1> QED BY <1>1, <1>2, <1>3, <1>4, <1>5, <1>6 DEF TypeOK, JobType

LEMMA TypeEdit ==
  ASSUME TypeOK, stored' = stored \cup cursor'.used,
         \/ Refill \/ TrimRows \/ TrimConsumedItems \/ InsertRow \/ RemoveRows \/ Reorder
  PROVE  TypeOK'
<1>1. UNCHANGED <<cursor, mode, memory, fetched, passed>>
  BY DEF Refill, TrimRows, TrimConsumedItems, InsertRow, RemoveRows, Reorder
<1>2. stored' \subseteq Items BY <1>1 DEF TypeOK, Cursors
<1>3. budget' \in [faults : Nat, crashes : Nat, edits : Nat, stale : BOOLEAN]
  BY BudgetType DEF Refill, TrimRows, TrimConsumedItems, InsertRow, RemoveRows, Reorder
<1>4. JobType(job')
  <2>1. /\ JobType(job) /\ job.ids \cap Rows(rows) \in SUBSET Items
        /\ {"retry", "forget"} \subseteq Steps
    BY DEF TypeOK, JobType, Steps
  <2>2. job' \in {job, Idle, At("retry"), Deletes("forget", job.ids \cap Rows(rows))}
    BY DEF Refill, TrimRows, TrimConsumedItems, InsertRow, RemoveRows, Reorder
  <2> QED BY <2>1, <2>2, JobTypes
<1>5. /\ rows' \in Seq(Items)
      /\ born' \in {born, born \cup Rows(rows')} \/ \E item \in Items : born' = born \cup {item}
  <2>1. CASE Refill BY <2>1, FilledType DEF Refill, TypeOK
  <2>2. CASE TrimRows BY <2>2, WithoutRows DEF TrimRows, TypeOK
  <2>3. CASE TrimConsumedItems BY <2>3, WithoutRows DEF TrimConsumedItems, TypeOK
  <2>4. CASE RemoveRows BY <2>4, WithoutRows DEF RemoveRows, TypeOK
  <2>5. CASE InsertRow BY <2>5, InsertRows DEF InsertRow, NewRow, TypeOK
  <2>6. CASE Reorder BY <2>6, SwapRows DEF Reorder, TypeOK
  <2> QED BY <2>1, <2>2, <2>3, <2>4, <2>5, <2>6
<1>6. born' \subseteq Items BY <1>5 DEF TypeOK, Rows
<1> QED BY <1>1, <1>2, <1>3, <1>4, <1>5, <1>6 DEF TypeOK, JobType, memory

LEMMA TypeKeeps ==
  ASSUME TypeOK, IInv, [Next]_vars
  PROVE  TypeOK'
<1>1. CASE UNCHANGED vars BY <1>1 DEF vars, TypeOK
<1>2. CASE Next
  <2>1. stored' = stored \cup cursor'.used /\ Step BY <1>2 DEF Next
  <2> QED BY <2>1, TypeCommit, TypeWrite, TypeRead, TypeEdit DEF Step
<1> QED BY <1>1, <1>2
-----------------------------------------------------------------------------
(* What the database was told.  Between two calls it is what the memory    *)
(* holds, during a write what the memory is about to hold; it is kept in   *)
(* the cursor, in dirty or in the call, whichever is written last.         *)

Meant == IF job.at \in Writing THEN job.cursor ELSE [cur |-> q.cur, used |-> q.used]
Kept == IF job.at \in {"committed", "committedFill"} THEN cursor
        ELSE IF job.at \in Writing THEN job.cursor ELSE Pending

(* The rows that are in the table, in the memory or on their way to it.    *)
Fetched == IF fetched = None THEN {} ELSE Rows(fetched)
Near == Rows(rows) \cup Rows(q.items) \cup Fetched \cup Rows(job.rows)

Told == stored \cup Kept.used \cup Meant.used
          \cup ({cursor.cur, q.cur, Kept.cur, Meant.cur} \ {None})

(* Only rows that were inserted are spoken of, and a row is inserted once. *)
BornInv ==
  /\ Near \cup stored \cup cursor.used \cup q.used \cup job.cursor.used \cup job.ids
       \cup plan.anchor \subseteq born
  /\ {cursor.cur, q.cur, job.cursor.cur, plan.song} \ {None} \subseteq born
  /\ dirty # None => dirty.used \cup ({dirty.cur} \ {None}) \subseteq born
  /\ cursor.used \subseteq stored

(* A call is under way in a running station, or the one that starts it;    *)
(* rows that were fetched are delivered before the loop reads others.      *)
CallInv ==
  /\ mode = "down" => job.at \in {"idle", "start"} /\ fetched = None
                        /\ dirty = None /\ plan = NoPlan /\ q = NoQueue
  /\ job.at = "start" => mode = "down"
  /\ job.at \notin {"replace", "start"} => job.rows = <<>>
  /\ fetched # None /\ ~ budget.stale => job.at \in {"idle", "finish", "trim", "forget"}
  /\ job.at = "finish" => job.cursor = [cur |-> q.cur, used |-> q.used] /\ plan = NoPlan
  /\ job.at = "forget" => job.ids \cap Rows(rows) = {}

(* The stored cursor: what was ever stored as consumed and is still a row  *)
(* is consumed, and not current.                                           *)
CursorInv ==
  LET there == Rows(rows) \cup (IF job.at = "start" THEN Rows(job.rows) ELSE {})
  IN  /\ stored \cap there \subseteq cursor.used
      /\ cursor.cur \notin stored \cap there

(* The memory, now or after the write. *)
MemoryInv ==
  mode # "down" =>
    /\ stored \cap Near \subseteq Meant.used
    /\ Kept.used \cap Near \subseteq Meant.used
    /\ Meant.used \cap Rows(rows) \subseteq Kept.used
    /\ Kept.cur \in Rows(rows) => Kept.cur = Meant.cur
    /\ Meant.cur \notin stored \cup Kept.used \cup Meant.used

(* A plan. *)
SongInv ==
  plan.song # None /\ job.at \notin Writing =>
    /\ q.cur # None
    /\ plan.song \notin stored \cup Kept.used \cup q.used \cup plan.anchor \cup {q.cur}
    /\ (q.used \cup {q.cur}) \cap Near \subseteq plan.anchor

(* Rows read before others were inserted: of those nobody has heard.       *)
LateInv ==
  /\ fetched # None => (Rows(rows) \ Rows(fetched)) \cap Told = {}
  /\ job.at = "replace" => (Rows(rows) \ Rows(job.rows)) \cap Told = {}
  /\ job.at = "start" =>
       (Rows(rows) \ Rows(job.rows)) \cap (stored \cup {cursor.cur}) = {}

SInv == BornInv /\ CallInv
          /\ (~ budget.stale => CursorInv /\ MemoryInv /\ SongInv /\ LateInv)
-----------------------------------------------------------------------------
(* How the parts of the invariant move.                                    *)

LEMMA NoRows == Rows(<<>>) = {}
  BY DEF Rows

LEMMA ToldIsBorn ==
  ASSUME BornInv
  PROVE  Told \subseteq born
  BY DEF BornInv, Told, Kept, Meant, Pending

(* Nothing is said to the database or the memory.                          *)
LEMMA Quiet ==
  ASSUME UNCHANGED <<cursor, q, dirty>>,
         job' = job \/ (job.at \notin Writing /\ job'.at \notin Writing)
  PROVE  Meant' = Meant /\ Kept' = Kept
  BY DEF Meant, Kept, Pending, Writing

(* Rows come and go in the table. *)
LEMMA EditRows ==
  ASSUME TypeOK, BornInv,
         \/ Refill \/ TrimRows \/ TrimConsumedItems \/ InsertRow \/ RemoveRows \/ Reorder
  PROVE  \E new \in SUBSET (Items \ born) :
           /\ Rows(rows') \subseteq Rows(rows) \cup new
           /\ born' = born \cup new
<1>1. CASE Refill
  <2>1. PICK new \in SUBSET (Items \ born) : Rows(rows') = Rows(rows) \cup new
    <3>1. CASE rows' = rows
      <4>1. Rows(rows') = Rows(rows) \cup {} BY <3>1
      <4> QED BY <4>1
    <3>2. CASE rows' \in Filled(rows)
      <4>1. rows \in Seq(Items) /\ born \subseteq Items BY DEF TypeOK
      <4> QED BY <3>2, <4>1, FilledType
    <3> QED BY <1>1, <3>1, <3>2 DEF Refill
  <2>2. born' = born \cup Rows(rows') /\ Rows(rows) \subseteq born
    BY <1>1 DEF Refill, BornInv, Near
  <2>3. born' = born \cup new BY <2>1, <2>2
  <2> QED BY <2>1, <2>3
<1>2. CASE TrimRows \/ TrimConsumedItems \/ RemoveRows \/ Reorder
  <2>1. Rows(rows') \subseteq Rows(rows)
    BY <1>2, WithoutRows, SwapRows
       DEF TypeOK, TrimRows, TrimConsumedItems, RemoveRows, Reorder
  <2>2. born' = born \cup {} BY <1>2 DEF TrimRows, TrimConsumedItems, RemoveRows, Reorder
  <2> QED BY <2>1, <2>2
<1>3. CASE InsertRow
  <2>1. PICK item \in Items \ born :
          Rows(rows') = Rows(rows) \cup {item} /\ born' = born \cup {item}
    BY <1>3, InsertRows DEF InsertRow, NewRow, TypeOK
  <2>2. {item} \in SUBSET (Items \ born) BY <2>1
  <2> QED BY <2>1, <2>2
<1> QED BY <1>1, <1>2, <1>3

LEMMA EditS ==
  ASSUME TypeOK, SInv, stored' = stored \cup cursor'.used,
         \/ Refill \/ TrimRows \/ TrimConsumedItems \/ InsertRow \/ RemoveRows \/ Reorder
  PROVE  SInv'
<1>1. PICK new \in SUBSET (Items \ born) :
           /\ Rows(rows') \subseteq Rows(rows) \cup new
           /\ born' = born \cup new
  BY EditRows DEF SInv
<1>2. /\ UNCHANGED <<cursor, mode, q, dirty, plan, fetched>>
      /\ stored' = stored
      /\ job' = job \/ /\ job.at \in {"idle", "trim"} /\ mode # "down"
                       /\ job'.at \in {"idle", "retry", "forget"}
                       /\ job'.rows = <<>> /\ job'.cursor = NoCursor
                       /\ job'.ids \subseteq job.ids
                       /\ job'.at = "retry" => fetched = None \/ budget.stale
      /\ budget'.stale = budget.stale
  <2>1. UNCHANGED <<cursor, mode, memory, fetched>>
    BY DEF Refill, TrimRows, TrimConsumedItems, InsertRow, RemoveRows, Reorder
  <2>2. stored' = stored BY <2>1 DEF SInv, BornInv
  <2>3. budget'.stale = budget.stale
    BY BudgetType DEF Refill, TrimRows, TrimConsumedItems, InsertRow, RemoveRows, Reorder
  <2>4. job' = job \/ Refill \/ TrimRows
    BY DEF TrimConsumedItems, InsertRow, RemoveRows, Reorder
  <2> QED BY <2>1, <2>2, <2>3, <2>4 DEF Refill, TrimRows, Ready, At, Idle, Deletes, memory, SInv,
                                          CallInv
<1>3. Meant' = Meant /\ Kept' = Kept BY <1>2, Quiet DEF Writing
<1>4. Told \subseteq born /\ Told' = Told
  BY <1>2, <1>3, ToldIsBorn DEF Told, SInv
<1>5. Near' \subseteq Near \cup new
  BY <1>1, <1>2, NoRows DEF Near, Fetched
<1>0. None \notin new BY QueueCursorAssumption
<1>6. BornInv' BY <1>1, <1>2, <1>5, NoRows DEF SInv, BornInv, NoCursor
<1>7. CallInv'
  <2>1. job'.at = "forget" => job'.ids \cap Rows(rows') = {}
    <3>1. CASE TrimRows
      <4>1. job.at = "trim" /\ (job'.at = "forget" => rows' = Without(rows, job.ids))
        BY <3>1 DEF TrimRows, Idle, At
      <4> QED BY <1>2, <4>1, WithoutRows DEF TypeOK
    <3>2. CASE ~ TrimRows
      <4>1. job'.at = "forget" => job' = job
        BY <3>2 DEF Refill, TrimConsumedItems, InsertRow, RemoveRows, Reorder, At, Idle
      <4> QED BY <1>1, <4>1 DEF SInv, BornInv, CallInv
    <3> QED BY <3>1, <3>2
  <2>2. mode' = "down" => job'.at \in {"idle", "start"} /\ fetched' = None
                        /\ dirty' = None /\ plan' = NoPlan /\ q' = NoQueue
    BY <1>2 DEF SInv, CallInv
  <2>3. /\ job'.at = "start" => mode' = "down"
        /\ job'.at \notin {"replace", "start"} => job'.rows = <<>>
        /\ fetched' # None /\ ~ budget'.stale => job'.at \in {"idle", "finish", "trim", "forget"}
    BY <1>2 DEF SInv, CallInv
  <2>4. job'.at = "finish" => job'.cursor = [cur |-> q'.cur, used |-> q'.used] /\ plan' = NoPlan
    BY <1>2 DEF SInv, CallInv
  <2> QED BY <2>1, <2>2, <2>3, <2>4 DEF CallInv
<1>8. ASSUME ~ budget.stale PROVE CursorInv'
  <2>1. job'.at = "start" => job' = job BY <1>2
  <2> QED BY <1>1, <1>2, <1>8, <2>1 DEF SInv, CursorInv, BornInv
<1>9. ASSUME ~ budget.stale PROVE MemoryInv'
  <2>1. new \cap Told = {} BY <1>1, <1>4
  <2>2. /\ stored \cup Kept.used \cup Meant.used \subseteq Told
        /\ Kept.cur # None => Kept.cur \in Told
    BY DEF Told
  <2> QED BY <1>0, <1>1, <1>2, <1>3, <1>5, <1>9, <2>1, <2>2 DEF SInv, MemoryInv
<1>10. ASSUME ~ budget.stale PROVE SongInv'
  BY <1>1, <1>2, <1>3, <1>4, <1>5, <1>10 DEF SInv, SongInv, Told, Writing, BornInv
<1>11. ASSUME ~ budget.stale PROVE LateInv'
  <2>1. new \cap (Told \cup stored \cup {cursor.cur}) = {} BY <1>0, <1>1, <1>4 DEF Told
  <2>2. job'.at \in {"replace", "start"} => job' = job BY <1>2
  <2> QED BY <1>1, <1>2, <1>4, <1>11, <2>1, <2>2 DEF SInv, LateInv
<1> QED BY <1>2, <1>6, <1>7, <1>8, <1>9, <1>10, <1>11 DEF SInv

LEMMA InitS == Init => SInv
<1> SUFFICES ASSUME Init PROVE SInv
  OBVIOUS
<1> QED
  BY NoRows, QueueCursorAssumption
     DEF Init, SInv, BornInv, CallInv, CursorInv, MemoryInv, SongInv, LateInv, Near, Fetched,
         NoCursor, NoQueue, NoPlan, Idle, At, Cursors

(* A plan is made of rows that nobody has consumed. *)
LEMMA PrepareS ==
  ASSUME TypeOK, SInv, stored' = stored \cup cursor'.used, Prepare
  PROVE  SInv'
<1>1. PICK song \in Rows(q.items) \ (q.used \cup {q.cur}) :
        plan' = [song |-> song, anchor |-> AnchorAfterCurrent(q)]
  BY DEF Prepare
<1>2. /\ UNCHANGED <<rows, cursor, born, mode, q, dirty, reserved, job, fetched, budget>>
      /\ stored' = stored /\ q.cur # None /\ job.at = "idle" /\ mode # "down"
  BY DEF Prepare, Ready, Idle, At, SInv, BornInv
<1>3. /\ song \in Near /\ song # None /\ plan'.song = song
      /\ plan'.anchor = q.used \cup {q.cur}
  BY <1>1, <1>2, QueueCursorAssumption DEF Near, TypeOK, Queues, Rows, AnchorAfterCurrent
<1>4. Meant' = Meant /\ Kept' = Kept /\ Near' = Near
  BY <1>2, Quiet DEF Near, Fetched
<1>5. BornInv' BY <1>2, <1>3, <1>4 DEF SInv, BornInv
<1>6. CallInv' BY <1>2 DEF SInv, CallInv
<1>7. ASSUME ~ budget.stale PROVE CursorInv' /\ MemoryInv'
  BY <1>2, <1>4, <1>7 DEF SInv, CursorInv, MemoryInv
<1>8. ASSUME ~ budget.stale PROVE SongInv'
  <2>1. Meant.used = q.used BY <1>2 DEF Meant, Writing
  <2>2. song \notin stored \cup Kept.used \cup q.used \cup {q.cur}
    BY <1>1, <1>2, <1>3, <1>8, <2>1 DEF SInv, MemoryInv
  <2> QED BY <1>1, <1>2, <1>3, <1>4, <2>2 DEF SongInv
<1>9. ASSUME ~ budget.stale PROVE LateInv'
  BY <1>2, <1>4, <1>9 DEF SInv, LateInv, Told
<1> QED BY <1>2, <1>5, <1>6, <1>7, <1>8, <1>9 DEF SInv

(* The call of a handover is made for the plan. *)
LEMMA CommitS ==
  ASSUME TypeOK, SInv, stored' = stored \cup cursor'.used, CommitCurrent
  PROVE  SInv'
<1>1. PICK anchor \in {plan.anchor, AnchorAfterCurrent(q)}, step \in {"commit", "commitFill"} :
        job' = Writes(step, [cur |-> plan.song, used |-> anchor])
  BY DEF CommitCurrent
<1>2. /\ UNCHANGED <<rows, cursor, born, q, dirty, plan, fetched, budget>>
      /\ stored' = stored /\ job.at = "idle" /\ mode # "down" /\ mode' # "down"
      /\ budget.stale \/ fetched = None
      /\ plan.song # None
  BY DEF CommitCurrent, Ready, Idle, At, SInv, BornInv
<1>3. /\ job'.at \in {"commit", "commitFill"} /\ job'.rows = <<>> /\ job'.ids = {}
      /\ job'.cursor = [cur |-> plan.song, used |-> anchor]
  BY <1>1 DEF Writes
<1>4. Meant' = job'.cursor /\ Kept' = job'.cursor /\ Near' \subseteq Near
  BY <1>2, <1>3, NoRows DEF Meant, Kept, Near, Fetched, Writing
<1>5. BornInv'
  <2>1. anchor \subseteq born BY <1>1 DEF SInv, BornInv, AnchorAfterCurrent
  <2> QED BY <1>2, <1>3, <1>4, <2>1 DEF SInv, BornInv
<1>6. CallInv' BY <1>2, <1>3 DEF SInv, CallInv
<1>7. ASSUME ~ budget.stale PROVE CursorInv'
  BY <1>2, <1>3, <1>7 DEF SInv, CursorInv
<1>8. ASSUME ~ budget.stale PROVE MemoryInv'
  <2>1. Meant.used = q.used BY <1>2 DEF Meant, Writing
  <2>2. (q.used \cup {q.cur}) \cap Near \subseteq anchor
    BY <1>1, <1>2, <1>8, QueueCursorAssumption
       DEF SInv, SongInv, AnchorAfterCurrent, Writing, TypeOK, Queues
  <2>3. plan.song \notin stored \cup anchor
    BY <1>1, <1>2, <1>8 DEF SInv, SongInv, AnchorAfterCurrent, Writing
  <2>4. Rows(rows') \subseteq Near' BY DEF Near
  <2> QED BY <1>2, <1>3, <1>4, <1>8, <2>1, <2>2, <2>3, <2>4 DEF SInv, MemoryInv
<1>9. ASSUME ~ budget.stale PROVE SongInv' /\ LateInv'
  BY <1>2, <1>3, <1>9 DEF SongInv, LateInv, Writing
<1> QED BY <1>2, <1>5, <1>6, <1>7, <1>8, <1>9 DEF SInv

(* The write of a handover. *)
LEMMA PersistS ==
  ASSUME TypeOK, SInv, stored' = stored \cup cursor'.used, PersistCommit \/ LoseCommit
  PROVE  SInv'
<1> DEFINE c == job.cursor
<1>1. /\ job.at \in {"commit", "commitFill"} /\ UNCHANGED <<mode, q, dirty, plan, fetched>>
      /\ budget'.stale = budget.stale
  BY BudgetType DEF PersistCommit, LoseCommit, memory
<1>2. /\ job'.cursor = c /\ job'.rows = job.rows /\ job'.ids = job.ids
      /\ job'.at \in {"committed", "committedFill", "deferred", "deferredFill"}
  BY DEF PersistCommit, LoseCommit, TypeOK
<1>3. PICK gone \in SUBSET (Rows(rows) \cap c.used), new \in SUBSET (Items \ born) :
        /\ Rows(rows') = (Rows(rows) \ gone) \cup new
        /\ born' = born \cup new
        /\ \/ cursor' = cursor /\ job'.at \notin {"committed", "committedFill"}
           \/ cursor'.cur = c.cur /\ cursor'.used = c.used \ gone
  <2>1. CASE StoreTrimFill(c)
    <3>1. /\ cursor'.cur = c.cur /\ born' = born \cup Rows(rows')
          /\ \E gone \in SUBSET (Rows(rows) \cap c.used), new \in SUBSET (Items \ born) :
               /\ cursor'.used = c.used \ gone
               /\ Rows(rows') = (Rows(rows) \ gone) \cup new
      <4>1. c \in Cursors BY DEF TypeOK
      <4> HIDE DEF c
      <4> QED BY <2>1, <4>1, StoreTrimFillRows
    <3>2. Rows(rows) \subseteq born BY DEF SInv, BornInv, Near
    <3> HIDE DEF c
    <3>3. PICK gone \in SUBSET (Rows(rows) \cap c.used), new \in SUBSET (Items \ born) :
            cursor'.used = c.used \ gone /\ Rows(rows') = (Rows(rows) \ gone) \cup new
      BY <3>1
    <3>4. born' = born \cup new BY <3>1, <3>2, <3>3
    <3> QED BY <3>1, <3>3, <3>4
  <2>2. CASE /\ rows' = rows /\ born' = born
             /\ \/ cursor' = cursor /\ job'.at \notin {"committed", "committedFill"}
                \/ cursor' = c
    <3>1. Rows(rows') = (Rows(rows) \ {}) \cup {} /\ born' = born \cup {} /\ c.used = c.used \ {}
      BY <2>2
    <3> QED BY <2>2, <3>1
  <2> QED BY <2>1, <2>2 DEF PersistCommit, LoseCommit, Store, Doubt, TypeOK
<1>4. Meant = c /\ Kept = c /\ Meant' = c
  BY <1>1, <1>2 DEF Meant, Kept, Writing
<1>5. Kept' = IF job'.at \in {"committed", "committedFill"} THEN cursor' ELSE c
  BY <1>1, <1>2 DEF Kept, Writing
<1>6. Near' \subseteq Near \cup new /\ Rows(rows') \subseteq Near'
  BY <1>1, <1>2, <1>3 DEF Near, Fetched
<1>7. None \notin new BY QueueCursorAssumption
<1>8. stored' \subseteq stored \cup c.used /\ mode # "down"
  BY <1>1, <1>3 DEF SInv, BornInv, CallInv
<1> HIDE DEF c
<1>9. c.used \cup ({c.cur} \ {None}) \cup stored \subseteq born
  BY DEF SInv, BornInv, c
<1>10. BornInv'
  <2>1. cursor'.used \cup ({cursor'.cur} \ {None}) \subseteq born
    BY <1>3, <1>9 DEF SInv, BornInv
  <2>2. stored' \subseteq born BY <1>8, <1>9
  <2> QED BY <1>1, <1>2, <1>3, <1>6, <2>1, <2>2 DEF SInv, BornInv, c
<1>11. CallInv' BY <1>1, <1>2 DEF SInv, CallInv
<1>12. ASSUME ~ budget.stale
       PROVE  /\ stored \cap Near \subseteq c.used
              /\ c.cur \notin stored \cup c.used
  BY <1>4, <1>8, <1>12 DEF SInv, MemoryInv
<1>13. ASSUME ~ budget.stale PROVE CursorInv'
  <2>1. job'.at # "start" BY <1>2
  <2>2. CASE cursor' = cursor
    <3>1. stored' = stored BY <2>2 DEF SInv, BornInv
    <3> QED BY <1>3, <1>9, <1>13, <2>1, <2>2, <3>1 DEF SInv, CursorInv
  <2>3. CASE cursor'.cur = c.cur /\ cursor'.used = c.used \ gone
    <3>1. Rows(rows) \subseteq Near BY DEF Near
    <3> QED BY <1>3, <1>8, <1>9, <1>12, <1>13, <2>1, <2>3, <3>1 DEF CursorInv
  <2> QED BY <1>3, <2>2, <2>3
<1>14. ASSUME ~ budget.stale PROVE MemoryInv'
  <2>1. stored' \cap Near' \subseteq c.used BY <1>6, <1>8, <1>9, <1>12, <1>14
  <2>2. /\ Kept'.used \cap Near' \subseteq c.used
        /\ c.used \cap Rows(rows') \subseteq Kept'.used
        /\ Kept'.cur = c.cur
        /\ Kept'.used \subseteq c.used
    BY <1>3, <1>5, <1>9
  <2>3. c.cur \notin stored' BY <1>8, <1>12, <1>14
  <2> QED BY <1>4, <1>12, <1>14, <2>1, <2>2, <2>3 DEF MemoryInv
<1>15. ASSUME ~ budget.stale PROVE SongInv' /\ LateInv'
  <2>1. fetched = None BY <1>1, <1>15 DEF SInv, CallInv
  <2> QED BY <1>1, <1>2, <2>1 DEF SongInv, LateInv, Writing
<1> QED BY <1>1, <1>10, <1>11, <1>13, <1>14, <1>15 DEF SInv

(* A commit that was undone unnoticed is one of a behaviour that may lose *)
(* the store.                                                              *)
LEMMA SwallowS ==
  ASSUME TypeOK, SInv, stored' = stored \cup cursor'.used, SwallowCommit
  PROVE  SInv'
<1>1. /\ UNCHANGED <<rows, cursor, born, mode, q, dirty, plan, fetched>>
      /\ budget'.stale = budget.stale /\ budget.stale /\ stored' = stored
  BY BudgetType DEF SwallowCommit, memory, SInv, BornInv
<1>2. /\ job.at = "commitFill" /\ job'.at = "committedFill" /\ job'.cursor = job.cursor
      /\ job'.rows = job.rows /\ job'.ids = job.ids
  BY DEF SwallowCommit, TypeOK
<1>3. Near' = Near BY <1>1, <1>2 DEF Near, Fetched
<1>4. BornInv' BY <1>1, <1>2, <1>3 DEF SInv, BornInv
<1>5. CallInv' BY <1>1, <1>2 DEF SInv, CallInv
<1> QED BY <1>1, <1>4, <1>5 DEF SInv

(* The memory follows. *)
LEMMA AdvanceS ==
  ASSUME TypeOK, SInv, stored' = stored \cup cursor'.used, AdvanceMemory
  PROVE  SInv'
<1>1. /\ UNCHANGED <<rows, cursor, born, mode, fetched, budget>> /\ stored' = stored
      /\ job.at \in {"committed", "committedFill", "deferred", "deferredFill"}
      /\ plan' = NoPlan /\ q'.items = q.items /\ q'.cur = job.cursor.cur
      /\ q'.used = job.cursor.used
      /\ dirty' = IF job.at \in {"committed", "committedFill"} THEN None ELSE job.cursor
  BY DEF AdvanceMemory, SInv, BornInv, Committed, TypeOK, Queues
<1>2. /\ job'.at \in {"idle", "retry"} /\ job'.rows = <<>> /\ job'.ids = {}
      /\ job'.cursor = NoCursor
  BY DEF AdvanceMemory, At, Idle
<1>3. /\ Meant'.cur = Meant.cur /\ Meant'.used = Meant.used
      /\ Meant.cur = job.cursor.cur /\ Meant.used = job.cursor.used
  BY <1>1, <1>2 DEF Meant, Writing
<1>4. Kept' = Kept
  <2>1. job.cursor # None BY QueueCursorAssumption DEF TypeOK, Cursors
  <2> QED BY <1>1, <1>2, <2>1 DEF Kept, Pending, Writing
<1>5. Near' \subseteq Near /\ Rows(rows) \subseteq Near'
  BY <1>1, <1>2, NoRows DEF Near, Fetched
<1>6. BornInv'
  BY <1>1, <1>2, <1>5 DEF SInv, BornInv, NoCursor, NoPlan
<1>7. CallInv' BY <1>1, <1>2 DEF SInv, CallInv
<1>8. ASSUME ~ budget.stale PROVE CursorInv'
  BY <1>1, <1>2, <1>8 DEF SInv, CursorInv
<1>9. ASSUME ~ budget.stale PROVE MemoryInv'
  BY <1>1, <1>3, <1>4, <1>5, <1>9 DEF SInv, MemoryInv
<1>10. ASSUME ~ budget.stale PROVE SongInv' /\ LateInv'
  <2>1. fetched = None BY <1>1, <1>10 DEF SInv, CallInv
  <2> QED BY <1>1, <1>2, <2>1 DEF SongInv, LateInv, NoPlan
<1> QED BY <1>1, <1>6, <1>7, <1>8, <1>9, <1>10 DEF SInv

(* The end of the programme: the current item is consumed. *)
LEMMA FinishS ==
  ASSUME TypeOK, SInv, stored' = stored \cup cursor'.used, FinishCurrent
  PROVE  SInv'
<1>1. /\ UNCHANGED <<rows, cursor, born, dirty, fetched, budget>> /\ stored' = stored
      /\ job.at = "idle" /\ mode # "down" /\ mode' # "down" /\ plan' = NoPlan
  BY DEF FinishCurrent, Ready, Idle, At, SInv, BornInv
<1>2. CASE q.cur = None
  <2>1. q' = q /\ job' = Idle BY <1>2 DEF FinishCurrent, Finished
  <2>2. job' = job BY <1>1, <2>1 DEF FinishCurrent, Ready
  <2>3. Meant' = Meant /\ Kept' = Kept /\ Near' = Near
    BY <1>1, <2>1, <2>2, Quiet DEF Near, Fetched
  <2>4. Told' = Told BY <1>1, <2>1, <2>3 DEF Told
  <2>5. BornInv' BY <1>1, <2>1, <2>2, <2>3 DEF SInv, BornInv, NoPlan
  <2>6. CallInv' BY <1>1, <2>1, <2>2 DEF SInv, CallInv
  <2>7. ASSUME ~ budget.stale PROVE CursorInv' /\ MemoryInv' /\ SongInv' /\ LateInv'
    BY <1>1, <2>1, <2>2, <2>3, <2>4, <2>7
       DEF SInv, CursorInv, MemoryInv, SongInv, LateInv, NoPlan
  <2> QED BY <1>1, <2>5, <2>6, <2>7 DEF SInv
<1>3. CASE q.cur # None
  <2>1. /\ q'.items = q.items /\ q'.cur = None /\ q'.used = q.used \cup {q.cur}
    BY <1>3 DEF FinishCurrent, Finished, TypeOK, Queues
  <2>2. /\ job'.at = "finish" /\ job'.rows = <<>> /\ job'.ids = {}
        /\ job'.cursor = [cur |-> q'.cur, used |-> q'.used]
    BY <1>3, <2>1 DEF FinishCurrent, Writes
  <2>3. Meant' = job'.cursor /\ Kept' = job'.cursor /\ Meant = [cur |-> q.cur, used |-> q.used]
    BY <1>1, <2>2 DEF Meant, Kept, Writing
  <2>4. Near' \subseteq Near BY <1>1, <2>1, <2>2, NoRows DEF Near, Fetched
  <2>5. Told' \subseteq Told BY <1>1, <1>3, <2>1, <2>2, <2>3 DEF Told
  <2>6. BornInv' BY <1>1, <1>3, <2>1, <2>2, <2>4 DEF SInv, BornInv, NoPlan
  <2>7. CallInv' BY <1>1, <2>2 DEF SInv, CallInv
  <2>8. ASSUME ~ budget.stale PROVE CursorInv'
    BY <1>1, <2>2, <2>8 DEF SInv, CursorInv
  <2>9. ASSUME ~ budget.stale PROVE MemoryInv'
    <3>1. None \notin stored' \cup q'.used
      BY <1>1, <1>3, <2>1, QueueCursorAssumption DEF TypeOK, Queues
    <3>2. stored \cap Near \subseteq q.used BY <1>1, <2>3, <2>9 DEF SInv, MemoryInv
    <3> QED BY <1>1, <2>1, <2>2, <2>3, <2>4, <3>1, <3>2 DEF MemoryInv
  <2>10. ASSUME ~ budget.stale PROVE SongInv' /\ LateInv'
    BY <1>1, <2>2, <2>5, <2>10 DEF SInv, SongInv, LateInv, NoPlan, Writing
  <2> QED BY <1>1, <2>6, <2>7, <2>8, <2>9, <2>10 DEF SInv
<1> QED BY <1>2, <1>3

(* The write of it. *)
LEMMA PersistFinishS ==
  ASSUME TypeOK, SInv, stored' = stored \cup cursor'.used, PersistFinish
  PROVE  SInv'
<1> DEFINE c == job.cursor
<1>1. /\ UNCHANGED <<rows, born, mode, q, plan, fetched>> /\ budget'.stale = budget.stale
      /\ job.at = "finish" /\ job' = Idle
      /\ \/ cursor' = c /\ dirty' = None
         \/ cursor' \in {cursor, c} /\ dirty' = c
  BY BudgetType DEF PersistFinish, Store, Doubt
<1>2. job'.at = "idle" /\ job'.rows = <<>> /\ job'.ids = {} /\ job'.cursor = NoCursor
  BY <1>1 DEF Idle, At
<1>3. c = [cur |-> q.cur, used |-> q.used] /\ plan = NoPlan /\ mode # "down"
  BY <1>1 DEF SInv, CallInv
<1>4. Meant = c /\ Kept = c /\ Meant' = c
  BY <1>1, <1>2, <1>3 DEF Meant, Kept, Writing
<1>5. Kept' = c
  <2>1. c # None BY QueueCursorAssumption DEF TypeOK, Cursors
  <2> QED BY <1>1, <1>2, <2>1 DEF Kept, Pending, Writing
<1>6. Near' \subseteq Near /\ Rows(rows) \subseteq Near /\ Rows(rows) \subseteq Near'
  BY <1>1, <1>2, NoRows DEF Near, Fetched
<1>7. stored' \subseteq stored \cup c.used /\ cursor'.used \subseteq stored'
  BY <1>1 DEF SInv, BornInv
<1>8. BornInv'
  BY <1>1, <1>2, <1>3, <1>6, <1>7 DEF SInv, BornInv, NoCursor
<1>9. CallInv' BY <1>1, <1>2, <1>3 DEF SInv, CallInv
<1>10. Told' \subseteq Told
  BY <1>1, <1>4, <1>5, <1>7 DEF Told
<1> HIDE DEF c
<1>11. ASSUME ~ budget.stale
       PROVE  stored \cap Near \subseteq c.used /\ c.cur \notin stored \cup c.used
  BY <1>3, <1>4, <1>11 DEF SInv, MemoryInv
<1>12. ASSUME ~ budget.stale PROVE CursorInv'
  <2>1. cursor' = cursor => stored' = stored BY DEF SInv, BornInv
  <2> QED BY <1>1, <1>2, <1>6, <1>7, <1>11, <1>12, <2>1 DEF SInv, CursorInv
<1>13. ASSUME ~ budget.stale PROVE MemoryInv'
  BY <1>1, <1>4, <1>5, <1>6, <1>7, <1>11, <1>13 DEF MemoryInv
<1>14. ASSUME ~ budget.stale PROVE SongInv' /\ LateInv'
  BY <1>1, <1>2, <1>3, <1>10, <1>14 DEF SInv, SongInv, LateInv, NoPlan
<1> QED BY <1>1, <1>8, <1>9, <1>12, <1>13, <1>14 DEF SInv

(* The write that was owed. *)
LEMMA RetryS ==
  ASSUME TypeOK, SInv, stored' = stored \cup cursor'.used, RetryDirtyCursor
  PROVE  SInv'
<1>1. /\ UNCHANGED <<rows, born, mode, q, plan, fetched>> /\ budget'.stale = budget.stale
      /\ job.at = "retry" /\ job' = At("load")
      /\ \/ cursor' = cursor /\ dirty' = dirty
         \/ dirty # None /\ cursor' = dirty /\ dirty' \in {dirty, None}
  BY BudgetType DEF RetryDirtyCursor, Store, Doubt
<1>2. job'.at = "load" /\ job'.rows = <<>> /\ job'.ids = {} /\ job'.cursor = NoCursor
  BY <1>1 DEF At
<1>3. Meant' = Meant /\ Kept' = Kept
  BY <1>1, <1>2 DEF Meant, Kept, Pending, Writing
<1>4. Near' \subseteq Near /\ Rows(rows) \subseteq Near /\ Rows(rows) \subseteq Near'
  BY <1>1, <1>2, NoRows DEF Near, Fetched
<1>5. cursor' = cursor \/ cursor' = Kept
  BY <1>1 DEF Kept, Pending, Writing
<1>6. stored' \subseteq stored \cup Kept.used /\ cursor'.used \subseteq stored' /\ mode # "down"
  BY <1>1, <1>5 DEF SInv, BornInv, CallInv
<1>7. BornInv'
  <2>1. Kept.used \cup ({Kept.cur} \ {None}) \subseteq born
    BY DEF SInv, BornInv, Kept, Pending
  <2> QED BY <1>1, <1>2, <1>4, <1>5, <1>6, <2>1 DEF SInv, BornInv, NoCursor
<1>8. CallInv' BY <1>1, <1>2, <1>6 DEF SInv, CallInv
<1>9. Told' \subseteq Told
  BY <1>1, <1>3, <1>5, <1>6 DEF Told
<1>10. cursor' = cursor => stored' = stored BY DEF SInv, BornInv
<1>11. ASSUME ~ budget.stale PROVE CursorInv'
  BY <1>1, <1>2, <1>4, <1>5, <1>6, <1>10, <1>11 DEF SInv, CursorInv, MemoryInv
<1>12. ASSUME ~ budget.stale PROVE MemoryInv'
  BY <1>1, <1>3, <1>4, <1>6, <1>12 DEF SInv, MemoryInv
<1>13. ASSUME ~ budget.stale PROVE SongInv' /\ LateInv'
  BY <1>1, <1>2, <1>3, <1>4, <1>6, <1>9, <1>13 DEF SInv, SongInv, LateInv, Writing
<1> QED BY <1>1, <1>7, <1>8, <1>11, <1>12, <1>13 DEF SInv

(* The trim takes out of the cursor what it took out of the table. *)
LEMMA ForgetS ==
  ASSUME TypeOK, SInv, stored' = stored \cup cursor'.used, ForgetTrimmed
  PROVE  SInv'
<1>1. /\ UNCHANGED <<rows, born, mode, q, dirty, plan, fetched>> /\ budget'.stale = budget.stale
      /\ job.at = "forget" /\ job' = Idle
      /\ cursor'.cur = cursor.cur
      /\ cursor'.used = cursor.used \/ cursor'.used = cursor.used \ job.ids
  BY BudgetType DEF ForgetTrimmed, Store, Doubt, memory, TypeOK, Cursors
<1>2. job'.at = "idle" /\ job'.rows = <<>> /\ job'.ids = {} /\ job'.cursor = NoCursor
  BY <1>1 DEF Idle, At
<1>3. stored' = stored /\ mode # "down" /\ job.ids \cap Rows(rows) = {}
  BY <1>1 DEF SInv, BornInv, CallInv
<1>4. /\ Meant' = Meant /\ Kept'.cur = Kept.cur
      /\ Kept'.used = Kept.used \/ Kept'.used = Kept.used \ job.ids
  BY <1>1, <1>2 DEF Meant, Kept, Pending, Writing
<1>5. Near' \subseteq Near /\ Rows(rows) \subseteq Near'
  BY <1>1, <1>2, NoRows DEF Near, Fetched
<1>6. BornInv' BY <1>1, <1>2, <1>3, <1>5 DEF SInv, BornInv, NoCursor
<1>7. CallInv' BY <1>1, <1>2, <1>3 DEF SInv, CallInv
<1>8. Told' \subseteq Told BY <1>1, <1>3, <1>4 DEF Told
<1>9. ASSUME ~ budget.stale PROVE CursorInv'
  BY <1>1, <1>2, <1>3, <1>9 DEF SInv, CursorInv
<1>10. ASSUME ~ budget.stale PROVE MemoryInv'
  BY <1>1, <1>3, <1>4, <1>5, <1>10 DEF SInv, MemoryInv
<1>11. ASSUME ~ budget.stale PROVE SongInv' /\ LateInv'
  BY <1>1, <1>2, <1>3, <1>4, <1>5, <1>8, <1>11 DEF SInv, SongInv, LateInv, Writing
<1> QED BY <1>1, <1>6, <1>7, <1>9, <1>10, <1>11 DEF SInv

(* Steps that read. *)
LEMMA ReadS ==
  ASSUME TypeOK, SInv, stored' = stored \cup cursor'.used,
         \/ ReloadFromDb \/ Load \/ TrimPlayedItems \/ Play \/ GiveUp \/ ReadRows
  PROVE  SInv'
<1>1. /\ UNCHANGED <<rows, cursor, born, q, dirty>> /\ budget'.stale = budget.stale
      /\ plan' \in {plan, NoPlan} /\ stored' = stored
  BY BudgetType
     DEF ReloadFromDb, Load, TrimPlayedItems, Play, GiveUp, ReadRows, memory, SInv, BornInv
<1>2. mode # "down" /\ mode' # "down"
  BY DEF ReloadFromDb, Load, TrimPlayedItems, Play, GiveUp, ReadRows, Ready, SInv, CallInv
<1>3. fetched' = fetched \/ (ReadRows /\ fetched' = rows)
  BY DEF ReloadFromDb, Load, TrimPlayedItems, Play, GiveUp, ReadRows
<1>4. \/ job' = job
      \/ /\ job.at \in {"idle", "load"} /\ job'.at \in {"idle", "retry", "trim", "replace"}
         /\ job'.ids \subseteq Rows(rows) /\ job'.cursor = NoCursor
         /\ job'.at = "replace" => job'.rows = rows
         /\ job'.at # "replace" => job'.rows = <<>>
         /\ job'.at \in {"retry", "replace"} /\ ~ budget.stale => fetched = None /\ fetched' = None
  <2>1. CASE TrimPlayedItems
    <3> DEFINE gone == Victims(rows, cursor.used)
    <3>1. gone \subseteq Rows(rows) BY VictimsArePlayed
    <3>2. job' \in {Idle} \cup (IF gone = {} THEN {} ELSE {Deletes("trim", gone)}) /\ job = Idle
      BY <2>1 DEF TrimPlayedItems, Ready
    <3> HIDE DEF gone
    <3>3. job' \in {Idle, Deletes("trim", gone)} BY <3>2
    <3> QED BY <3>1, <3>2, <3>3 DEF Idle, At, Deletes
  <2>2. CASE ReloadFromDb \/ Load
    BY <2>2 DEF ReloadFromDb, Load, Ready, Idle, At, Holds, SInv, CallInv
  <2> QED BY <2>1, <2>2 DEF Play, GiveUp, ReadRows
<1>5. Meant' = Meant /\ Kept' = Kept BY <1>1, <1>4, Quiet DEF Writing
<1>6. Near' \subseteq Near /\ Rows(rows) \subseteq Near'
  BY <1>1, <1>3, <1>4, NoRows DEF Near, Fetched
<1>7. Told' = Told BY <1>1, <1>5 DEF Told
<1>8. BornInv'
  <2>1. Rows(rows) \subseteq born BY DEF SInv, BornInv, Near
  <2> QED BY <1>1, <1>4, <1>6, <2>1 DEF SInv, BornInv, NoCursor, NoPlan
<1>9. CallInv'
  <2>1. ReadRows => (budget.stale \/ job' = Idle) BY DEF ReadRows
  <2>2. job'.at \notin {"replace", "start"} => job'.rows = <<>> BY <1>4 DEF SInv, CallInv
  <2>3. fetched' # None /\ ~ budget'.stale => job'.at \in {"idle", "finish", "trim", "forget"}
    BY <1>1, <1>3, <1>4, <2>1 DEF SInv, CallInv, Idle, At
  <2>4. job'.at = "forget" => job'.ids \cap Rows(rows') = {}
    BY <1>1, <1>4 DEF SInv, CallInv
  <2>5. job'.at = "finish" => job'.cursor = [cur |-> q'.cur, used |-> q'.used] /\ plan' = NoPlan
    BY <1>1, <1>4 DEF SInv, CallInv
  <2>6. job'.at # "start" BY <1>2, <1>4 DEF SInv, CallInv
  <2> QED BY <1>2, <2>2, <2>3, <2>4, <2>5, <2>6 DEF CallInv
<1>10. ASSUME ~ budget.stale PROVE CursorInv' /\ MemoryInv'
  BY <1>1, <1>2, <1>4, <1>5, <1>6, <1>10 DEF SInv, CursorInv, MemoryInv
<1>11. ASSUME ~ budget.stale PROVE SongInv'
  BY <1>1, <1>2, <1>4, <1>5, <1>6, <1>11 DEF SInv, SongInv, Writing, NoPlan
<1>12. ASSUME ~ budget.stale PROVE LateInv'
  BY <1>1, <1>3, <1>4, <1>7, <1>12 DEF SInv, LateInv
<1> QED BY <1>1, <1>8, <1>9, <1>10, <1>11, <1>12 DEF SInv

(* Rows that were read some time ago replace those of the memory: of the   *)
(* ones that came since nobody has heard.                                  *)
LEMMA ReplaceS ==
  ASSUME TypeOK, SInv, stored' = stored \cup cursor'.used, Replace \/ ReloadSongs
  PROVE  SInv'
<1>1. PICK s \in Seq(Items), retain \in BOOLEAN :
        /\ q' = Replaced(q, s, retain)
        /\ Rows(s) \subseteq Near
        /\ ~ budget.stale => (Rows(rows) \ Rows(s)) \cap Told = {}
        /\ ~ budget.stale => fetched' = None
        /\ ReloadSongs /\ plan.song # None => retain
        /\ Replace => retain
  <2>1. CASE Replace
    <3>1. /\ job.at = "replace" /\ job.rows \in Seq(Items) /\ fetched' = fetched
          /\ q' = Replaced(q, job.rows, TRUE)
      BY <2>1 DEF Replace, TypeOK
    <3>2. Rows(job.rows) \subseteq Near BY DEF Near
    <3>3. ~ budget.stale => (Rows(rows) \ Rows(job.rows)) \cap Told = {} /\ fetched = None
      BY <3>1 DEF SInv, LateInv, CallInv
    <3> QED BY <3>1, <3>2, <3>3
  <2>2. CASE ReloadSongs
    <3>1. /\ fetched # None /\ fetched \in Seq(Items) /\ fetched' = None
          /\ q' = Replaced(q, fetched, mode = "playing" \/ plan.song # None)
      BY <2>2 DEF ReloadSongs, TypeOK
    <3>2. Rows(fetched) \subseteq Near BY <3>1 DEF Near, Fetched
    <3>3. ~ budget.stale => (Rows(rows) \ Rows(fetched)) \cap Told = {}
      BY <3>1 DEF SInv, LateInv
    <3>4. ~ Replace BY <2>2 DEF ReloadSongs, Replace, Ready, Idle, At
    <3> QED BY <3>1, <3>2, <3>3, <3>4
  <2> QED BY <2>1, <2>2
<1>2. /\ UNCHANGED <<rows, cursor, born, mode, dirty, plan, budget>> /\ stored' = stored
      /\ job' = Idle /\ job.at \in {"replace", "idle"} /\ mode # "down"
      /\ fetched' \in {fetched, None}
  <2>1. CASE Replace
    <3>1. mode # "down" BY <2>1 DEF Replace, SInv, CallInv
    <3> QED BY <2>1, <3>1 DEF Replace, SInv, BornInv
  <2>2. CASE ReloadSongs
    <3>1. job = Idle /\ job.at = "idle" BY <2>2 DEF ReloadSongs, Ready, Idle, At
    <3> QED BY <2>2, <3>1 DEF ReloadSongs, Ready, SInv, BornInv
  <2> QED BY <2>1, <2>2
<1>3. job'.at = "idle" /\ job'.rows = <<>> /\ job'.ids = {} /\ job'.cursor = NoCursor
  BY <1>2 DEF Idle, At
<1>4. /\ q'.items = s /\ q'.used = q.used \cap Rows(s)
      /\ IF q.cur # None /\ (q.cur \in Rows(s) \/ retain) THEN q'.cur = q.cur
         ELSE q'.cur \in (Rows(s) \ q.used) \cup {None}
  <2>1. FirstOutside(s, q.used) \in (Rows(s) \ q.used) \cup {None}
    BY FirstIsOutside, QueueCursorAssumption
  <2> HIDE DEF FirstOutside
  <2>2. None \notin Rows(s) BY QueueCursorAssumption DEF Rows
  <2> QED BY <1>1, <2>1, <2>2 DEF Replaced
<1>5. /\ Meant' = [cur |-> q'.cur, used |-> q'.used] /\ Meant = [cur |-> q.cur, used |-> q.used]
      /\ Kept' = Kept
  BY <1>2, <1>3 DEF Meant, Kept, Pending, Writing
<1>6. Near' \subseteq Near
  BY <1>1, <1>2, <1>3, <1>4, NoRows DEF Near, Fetched
<1>7. Near \subseteq born BY DEF SInv, BornInv
<1>8. BornInv'
  BY <1>1, <1>2, <1>3, <1>4, <1>6, <1>7 DEF SInv, BornInv, NoCursor
<1>9. CallInv' BY <1>2, <1>3 DEF SInv, CallInv
<1>10. ASSUME ~ budget.stale PROVE Near' = Rows(rows) \cup Rows(s)
  BY <1>1, <1>2, <1>3, <1>4, <1>10, NoRows DEF Near, Fetched
<1>11. ASSUME ~ budget.stale PROVE CursorInv'
  BY <1>2, <1>3, <1>11 DEF SInv, CursorInv
<1>12. /\ stored \cup Kept.used \cup q.used \subseteq Told
       /\ {Kept.cur, q.cur} \ {None} \subseteq Told
  BY <1>5 DEF Told
<1>13. ASSUME ~ budget.stale
       PROVE  /\ stored \cap Near \subseteq q.used /\ Kept.used \cap Near \subseteq q.used
              /\ q.used \cap Rows(rows) \subseteq Kept.used
              /\ Kept.cur \in Rows(rows) => Kept.cur = q.cur
              /\ q.cur \notin stored \cup Kept.used \cup q.used
  BY <1>2, <1>5, <1>13 DEF SInv, MemoryInv
<1>14. ASSUME ~ budget.stale PROVE MemoryInv'
  <2>1. Rows(rows) \cap Told \subseteq Rows(s) BY <1>1, <1>14
  <2>2. stored \cap Near' \subseteq q'.used /\ Kept.used \cap Near' \subseteq q'.used
    BY <1>4, <1>6, <1>10, <1>12, <1>13, <1>14, <2>1
  <2>3. q'.used \cap Rows(rows) \subseteq Kept.used BY <1>4, <1>13, <1>14
  <2>4. Kept.cur \in Rows(rows) => Kept.cur = q'.cur
    <3>1. None \notin Rows(rows) BY QueueCursorAssumption DEF TypeOK, Rows
    <3> QED BY <1>4, <1>12, <1>13, <1>14, <2>1, <3>1
  <2>5. q'.cur \notin stored \cup Kept.used \cup q'.used
    <3>1. None \notin stored \cup Kept.used \cup q.used
      <4>1. None \notin Items BY QueueCursorAssumption
      <4>2. stored \cup q.used \subseteq Items BY DEF TypeOK, Queues
      <4>3. Kept.used \subseteq Items BY DEF TypeOK, Kept, Pending, Cursors
      <4> QED BY <4>1, <4>2, <4>3
    <3>2. CASE q'.cur = q.cur BY <1>4, <1>13, <1>14, <3>2
    <3>3. CASE q'.cur \in Rows(s) \ q.used
      BY <1>1, <1>4, <1>13, <1>14, <3>3
    <3>4. CASE q'.cur = None BY <1>4, <3>1, <3>4
    <3> QED BY <1>4, <3>2, <3>3, <3>4
  <2> QED BY <1>2, <1>5, <2>2, <2>3, <2>4, <2>5 DEF MemoryInv
<1>15. ASSUME ~ budget.stale PROVE SongInv'
  <2>1. plan.song # None =>
          /\ q.cur # None
          /\ plan.song \notin stored \cup Kept.used \cup q.used \cup plan.anchor \cup {q.cur}
          /\ (q.used \cup {q.cur}) \cap Near \subseteq plan.anchor
    BY <1>2, <1>15 DEF SInv, SongInv, Writing
  <2>2. plan.song # None => q'.cur = q.cur
    BY <1>1, <1>4, <2>1
  <2> QED BY <1>2, <1>3, <1>4, <1>5, <1>6, <2>1, <2>2 DEF SongInv
<1>16. ASSUME ~ budget.stale PROVE LateInv'
  BY <1>1, <1>3, <1>16 DEF LateInv
<1> QED BY <1>2, <1>8, <1>9, <1>11, <1>14, <1>15, <1>16 DEF SInv

(* A runtime reads the rows, then the cursor. *)
LEMMA StartReadS ==
  ASSUME TypeOK, SInv, stored' = stored \cup cursor'.used, StartRead
  PROVE  SInv'
<1>1. /\ UNCHANGED <<rows, cursor, born, mode, q, dirty, plan, fetched, budget>>
      /\ stored' = stored /\ mode = "down" /\ fetched = None /\ job' = Holds("start", rows)
  BY DEF StartRead, memory, SInv, BornInv
<1>2. job'.at = "start" /\ job'.rows = rows /\ job'.ids = {} /\ job'.cursor = NoCursor
  BY <1>1 DEF Holds
<1>3. Near' \subseteq Near BY <1>1, <1>2 DEF Near, Fetched
<1>4. BornInv' BY <1>1, <1>2, <1>3 DEF SInv, BornInv, NoCursor
<1>5. CallInv' BY <1>1, <1>2 DEF SInv, CallInv
<1>6. ASSUME ~ budget.stale PROVE CursorInv' /\ MemoryInv' /\ SongInv' /\ LateInv'
  BY <1>1, <1>2, <1>6 DEF SInv, CallInv, CursorInv, MemoryInv, SongInv, LateInv, NoPlan
<1> QED BY <1>1, <1>4, <1>5, <1>6 DEF SInv

LEMMA StartRuntimeS ==
  ASSUME TypeOK, SInv, stored' = stored \cup cursor'.used, StartRuntime
  PROVE  SInv'
<1>1. /\ UNCHANGED <<rows, cursor, born, fetched>> /\ budget'.stale = budget.stale
      /\ stored' = stored /\ mode = "down" /\ fetched = None /\ job' = Idle /\ job.at = "start"
      /\ plan = NoPlan /\ q = NoQueue /\ dirty = None
  BY BudgetType DEF StartRuntime, SInv, BornInv, CallInv
<1>2. job'.at = "idle" /\ job'.rows = <<>> /\ job'.ids = {} /\ job'.cursor = NoCursor
  BY <1>1 DEF Idle, At
<1>3. ASSUME ~ budget.stale PROVE CursorInv'
  BY <1>1, <1>2, <1>3 DEF SInv, CursorInv
<1>4. CASE mode' = "down" /\ UNCHANGED <<q, dirty, plan>>
  <2>1. Near' \subseteq Near BY <1>1, <1>2, <1>4, NoRows DEF Near, Fetched
  <2>2. BornInv' BY <1>1, <1>2, <1>4, <2>1 DEF SInv, BornInv, NoCursor
  <2>3. CallInv' BY <1>1, <1>2, <1>4 DEF SInv, CallInv
  <2>4. ASSUME ~ budget.stale PROVE MemoryInv' /\ SongInv' /\ LateInv'
    BY <1>1, <1>2, <1>4, <2>4 DEF MemoryInv, SongInv, LateInv, NoPlan
  <2> QED BY <1>1, <1>3, <2>2, <2>3, <2>4 DEF SInv
<1>5. CASE /\ mode' = "stopped" /\ dirty' = None /\ plan' = NoPlan
           /\ q' = [items |-> job.rows,
                    cur   |-> IF cursor.cur \in Rows(job.rows) THEN cursor.cur ELSE None,
                    used  |-> cursor.used]
  <2>1. Near' \subseteq Near /\ Near' = Rows(rows) \cup Rows(job.rows)
    BY <1>1, <1>2, <1>5, NoRows DEF Near, Fetched
  <2>2. BornInv' BY <1>1, <1>2, <1>5, <2>1 DEF SInv, BornInv, NoCursor, NoPlan
  <2>3. CallInv' BY <1>1, <1>2, <1>5 DEF SInv, CallInv
  <2>4. ASSUME ~ budget.stale PROVE MemoryInv'
    <3>1. Kept' = cursor BY <1>1, <1>2, <1>5 DEF Kept, Pending, Writing
    <3>2. Meant' = [cur |-> q'.cur, used |-> q'.used] BY <1>2 DEF Meant, Writing
    <3>3. /\ stored \cap (Rows(rows) \cup Rows(job.rows)) \subseteq cursor.used
          /\ cursor.cur \notin stored \cap (Rows(rows) \cup Rows(job.rows))
          /\ (Rows(rows) \ Rows(job.rows)) \cap (stored \cup {cursor.cur}) = {}
          /\ cursor.used \subseteq stored
      BY <1>1, <2>4 DEF SInv, CursorInv, LateInv, BornInv
    <3>4. None \notin stored BY QueueCursorAssumption DEF TypeOK
    <3>5. q'.cur \notin stored BY <1>5, <3>3, <3>4
    <3> QED BY <1>1, <1>5, <2>1, <3>1, <3>2, <3>3, <3>5 DEF MemoryInv
  <2>5. ASSUME ~ budget.stale PROVE SongInv' /\ LateInv'
    BY <1>1, <1>2, <1>5, <2>5 DEF SongInv, LateInv, NoPlan
  <2> QED BY <1>1, <1>3, <2>2, <2>3, <2>4, <2>5 DEF SInv
<1> QED BY <1>1, <1>4, <1>5 DEF StartRuntime, memory

LEMMA VanishS ==
  ASSUME TypeOK, SInv, stored' = stored \cup cursor'.used, Stop \/ Crash
  PROVE  SInv'
<1>1. /\ UNCHANGED <<rows, cursor, born>> /\ stored' = stored /\ fetched' = None
      /\ budget'.stale = budget.stale /\ mode' = "down" /\ q' = NoQueue /\ dirty' = None
      /\ plan' = NoPlan /\ job' = Idle
  BY BudgetType DEF Stop, Crash, Vanish, SInv, BornInv
<1>2. job'.at = "idle" /\ job'.rows = <<>> /\ job'.ids = {} /\ job'.cursor = NoCursor
  BY <1>1 DEF Idle, At
<1>3. Near' \subseteq Near BY <1>1, <1>2, NoRows DEF Near, Fetched, NoQueue
<1>4. BornInv'
  BY <1>1, <1>2, <1>3 DEF SInv, BornInv, NoCursor, NoPlan, NoQueue
<1>5. CallInv' BY <1>1, <1>2 DEF CallInv
<1>6. ASSUME ~ budget.stale PROVE CursorInv' /\ MemoryInv' /\ SongInv' /\ LateInv'
  BY <1>1, <1>2, <1>6 DEF SInv, CursorInv, MemoryInv, SongInv, LateInv, NoPlan
<1> QED BY <1>1, <1>4, <1>5, <1>6 DEF SInv

LEMMA StepS ==
  ASSUME TypeOK, SInv, [Next]_vars
  PROVE  SInv'
<1>1. CASE UNCHANGED vars
  <2>1. Meant' = Meant /\ Kept' = Kept /\ Near' = Near
    BY <1>1 DEF vars, Meant, Kept, Pending, Near, Fetched
  <2>2. Told' = Told BY <1>1, <2>1 DEF vars, Told
  <2> QED
    BY <1>1, <2>1, <2>2
       DEF vars, SInv, BornInv, CallInv, CursorInv, MemoryInv, SongInv, LateInv
<1>2. CASE Next
  <2>1. stored' = stored \cup cursor'.used /\ Step BY <1>2 DEF Next
  <2> QED
    BY <2>1, EditS, PrepareS, CommitS, PersistS, SwallowS, AdvanceS, FinishS, PersistFinishS,
       RetryS, ForgetS, ReadS, ReplaceS, StartReadS, StartRuntimeS, VanishS DEF Step
<1> QED BY <1>1, <1>2

(* What the invariant says between two calls. *)
LEMMA SImplies ==
  ASSUME TypeOK, SInv
  PROVE  StoreIsTrue
<1> SUFFICES ASSUME Ready, ~ budget.stale
             PROVE  /\ q.cur \notin stored /\ plan.song \notin stored
                    /\ Pending.used \cap Rows(rows) = q.used \cap Rows(rows)
                    /\ Pending.cur \in Rows(rows) => Pending.cur = q.cur
  BY DEF StoreIsTrue, PlayedForGood, StoreFollowsMemory
<1>1. mode # "down" /\ job.at = "idle" BY DEF Ready, Idle, At
<1>2. /\ Meant = [cur |-> q.cur, used |-> q.used] /\ Kept = Pending
      /\ Rows(rows) \subseteq Near
  BY <1>1 DEF Meant, Kept, Near, Writing
<1>3. None \notin stored BY QueueCursorAssumption DEF TypeOK
<1> QED BY <1>1, <1>2, <1>3 DEF SInv, MemoryInv, SongInv, Writing

(* Between two calls the station and the database agree on every row there *)
(* is, and what the database was told is final: nothing comes back that    *)
(* was stored as consumed, whatever is trimmed, edited, lost or restarted. *)
THEOREM WhatIsStoredIsTrue == Spec => []StoreIsTrue
<1>1. Init => IInv /\ TypeOK /\ SInv BY Start, TypeInit, InitS
<1>2. IInv /\ TypeOK /\ SInv /\ [Next]_vars => IInv' /\ TypeOK' /\ SInv'
  BY StepKeeps, TypeKeeps, StepS
<1>3. IInv /\ TypeOK /\ SInv => StoreIsTrue BY SImplies
<1> QED BY <1>1, <1>2, <1>3, PTL DEF Spec

(* A trim outside a transaction has chosen rows that were played. *)
TrimInv == job.at = "trim" => job.ids \subseteq passed

(* The server never deletes a row that was not played: neither the trims   *)
(* of a commit and of a synchronization nor the one before an add.         *)
THEOREM NothingUnplayedIsDeleted == Spec => TrimsOnlyPassed
<1>1. Init => IInv /\ TypeOK /\ TrimInv
  BY Start, TypeInit DEF Init, TrimInv, Idle, At
<1>2. IInv /\ TypeOK /\ TrimInv /\ [Next]_vars => TrimInv'
  <2> SUFFICES ASSUME IInv, TrimInv, [Next]_vars PROVE TrimInv'
    OBVIOUS
  <2>1. passed \subseteq passed'
    BY DEF Next, Step, vars, Prepare, CommitCurrent, PersistCommit, LoseCommit, SwallowCommit,
           AdvanceMemory, FinishCurrent, PersistFinish, Refill, ReloadFromDb, RetryDirtyCursor, Load, Replace,
           TrimPlayedItems, TrimRows, ForgetTrimmed, StartRead, StartRuntime, Play, GiveUp, Stop,
           Crash, Vanish, TrimConsumedItems, InsertRow, RemoveRows, Reorder, ReadRows, ReloadSongs
  <2>2. CASE TrimPlayedItems
    <3> DEFINE gone == Victims(rows, cursor.used)
    <3>1. gone \subseteq passed
      BY VictimsArePlayed DEF IInv, OnlyPassedConsumed
    <3>2. job' \in {Idle} \cup (IF gone = {} THEN {} ELSE {Deletes("trim", gone)})
      BY <2>2 DEF TrimPlayedItems
    <3> HIDE DEF gone
    <3>3. job' \in {Idle, Deletes("trim", gone)} BY <3>2
    <3> QED BY <2>1, <3>1, <3>3 DEF TrimInv, Deletes, Idle, At
  <2>3. CASE job' = job BY <2>1, <2>3 DEF TrimInv
  <2>4. CASE job'.at # "trim" BY <2>4 DEF TrimInv
  <2>5. job' = job \/ job'.at # "trim" \/ TrimPlayedItems
    <3>1. CASE PersistCommit \/ LoseCommit \/ SwallowCommit
      BY <3>1 DEF PersistCommit, LoseCommit, SwallowCommit, IInv, Shape
    <3>2. CASE AdvanceMemory \/ CommitCurrent \/ FinishCurrent \/ PersistFinish \/ RetryDirtyCursor
      BY <3>2 DEF AdvanceMemory, CommitCurrent, FinishCurrent, PersistFinish, RetryDirtyCursor,
                  Writes, At, Idle
    <3>3. CASE \/ Refill \/ ReloadFromDb \/ Load \/ Replace \/ TrimRows \/ ForgetTrimmed
               \/ StartRead \/ StartRuntime \/ Stop \/ Crash
      <4>1. \/ job' = job \/ job' \in {Idle, At("retry")}
            \/ job' \in {Holds("replace", rows), Holds("start", rows)}
            \/ job' = Deletes("forget", job.ids \cap Rows(rows))
        BY <3>3 DEF Refill, ReloadFromDb, Load, Replace, TrimRows, ForgetTrimmed, StartRead,
                    StartRuntime, Stop, Crash, Vanish
      <4> QED BY <4>1 DEF At, Holds, Deletes, Idle
    <3> QED
      BY <3>1, <3>2, <3>3
         DEF Next, Step, vars, Prepare, Play, GiveUp, TrimConsumedItems, InsertRow, RemoveRows,
             Reorder, ReadRows, ReloadSongs
  <2> QED BY <2>2, <2>3, <2>4, <2>5
<1>3. IInv /\ TypeOK /\ TrimInv /\ [Next]_vars =>
        [Housekeeping => Rows(rows) \ Rows(rows') \subseteq passed]_vars
  <2> SUFFICES ASSUME IInv, TypeOK, TrimInv, Housekeeping
               PROVE  Rows(rows) \ Rows(rows') \subseteq passed
    OBVIOUS
  <2>1. CASE rows' = rows BY <2>1
  <2>2. CASE job.at = "commitFill" /\ StoreTrimFill(job.cursor)
    <3>1. job.cursor \in Cursors BY DEF TypeOK
    <3>2. PICK gone \in SUBSET (Rows(rows) \cap job.cursor.used), new \in SUBSET (Items \ born) :
            Rows(rows') = (Rows(rows) \ gone) \cup new
      BY <2>2, <3>1, StoreTrimFillRows
    <3>3. job.cursor.used \subseteq passed BY <2>2 DEF IInv, JobInv, Writing
    <3> QED BY <3>2, <3>3
  <2>3. CASE job.at = "trim" /\ rows' = Without(rows, job.ids)
    BY <2>3, WithoutRows DEF TypeOK, TrimInv
  <2>4. CASE rows' = Without(rows, cursor.used)
    BY <2>4, WithoutRows DEF TypeOK, IInv, OnlyPassedConsumed
  <2> QED BY <2>1, <2>2, <2>3, <2>4
          DEF Housekeeping, PersistCommit, LoseCommit, TrimRows, TrimConsumedItems
<1>4. IInv /\ TypeOK /\ [Next]_vars => IInv' /\ TypeOK'
  BY StepKeeps, TypeKeeps
<1> QED BY <1>1, <1>2, <1>3, <1>4, PTL DEF Spec, TrimsOnlyPassed
=============================================================================
