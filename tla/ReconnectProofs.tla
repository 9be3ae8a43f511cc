--------------------------- MODULE ReconnectProofs ---------------------------
(***************************************************************************)
(* For every number of commands, breaks and faults, and any room in the    *)
(* channel: a chain has exactly one worker behind it, and one that retries *)
(* by itself belongs to the output the station plays to.                   *)
(*                                                                         *)
(* The worker of a chain wanders from a lane to the executor, to a timer,  *)
(* to the channel and back.  The invariant counts where it can be, and     *)
(* knows that a token that was not handed out is nowhere, so that a new    *)
(* chain finds nobody at work.                                             *)
(***************************************************************************)
EXTENDS Reconnect, Integers, FiniteSetTheorems, TLAPS

(* What lies in the lanes, the channel and the timers.                     *)
Ops ==
  [type : {"start", "switch", "resume", "pause", "shutdown"}, token : {0}, out : Nat,
   manual : BOOLEAN]
  \cup [type : {"reconnect"}, token : Nat, out : Nat, manual : BOOLEAN]
Outcomes == [type : {"played", "skipped"}, token : {0}, out : Nat, ok : BOOLEAN]
Msgs ==
  [type : {"play", "pause", "skip", "reconnect", "shutdown"}, token : {0}, out : Nat,
   ok : BOOLEAN]
  \cup Outcomes
  \cup [type : {"retry", "finished"}, token : Nat, out : Nat, ok : BOOLEAN]
Timers == [token : Nat, out : Nat]
Runs ==
  {r \in [at : {"idle", "run", "guarded", "done", "failed", "ok", "ended"},
          token : Nat, out : Nat, manual : BOOLEAN] : r.at = "idle" => r.token = 0}

Reasons ==
  {"no", "suppressed", "identity", "raced", "paused", "manual", "forced", "noplan"}
Controls ==
  [state : {"stopped", "playing", "paused"}, out : Nat, token : Nat, bound : Nat,
   known : Nat, pending : {"none", "play", "skip", "shutdown"}, manual : BOOLEAN]

Shape ==
  /\ ctl \in Controls
  /\ tokens \in [token : Nat, out : Nat]
  /\ shared \in [token : Nat, done : Nat]
  /\ commands \in Seq(Msgs) /\ Len(commands) <= Capacity
  /\ events \in Seq(Nat)
  /\ urgent \in Seq(Ops) /\ regular \in Seq(Ops)
  /\ running \in Runs
  /\ timers \in Seq(Timers)
  /\ results \in Seq(Outcomes)
  /\ pipe = [state |-> pipe.state, out |-> pipe.out, sink |-> pipe.sink] /\ pipe.out \in Nat
  /\ left \in [commands : Nat, drops : Nat, faults : Nat]
  /\ unheard \in Reasons

(* Only identities that were handed out are about. *)
Outs ==
  /\ {ctl.out, ctl.known, ctl.bound} \subseteq 0 .. tokens.out
  /\ \A op \in ToSet(urgent) \cup ToSet(regular) : op.out <= tokens.out
  /\ \A m \in ToSet(commands) \cup ToSet(results) : m.out <= tokens.out
  /\ running.out <= tokens.out /\ \A t \in ToSet(timers) : t.out <= tokens.out

(* The atomics show the active token, and no token is about that was not   *)
(* handed out.                                                             *)
Handed ==
  /\ shared.token = ctl.token
  /\ {ctl.token, shared.done, running.token} \subseteq 0 .. tokens.token
  /\ \A t \in Nat : t > tokens.token => InFlight(t) = 0

(* A start is asked for while the station is stopped, and the barrier is   *)
(* only sent for good.                                                     *)
Phases ==
  /\ ctl.pending = "play" => ctl.state = "stopped"
  /\ ctl.pending = "shutdown" => ctl.token = 0
  /\ \A op \in ToSet(urgent) : op.type = "shutdown" => ctl.pending = "shutdown"

IInv == Shape /\ Outs /\ Handed /\ Phases
          /\ ActiveChainHasOneWorker /\ AutomaticChainIsForThePlayingOutput

-----------------------------------------------------------------------------
(* Counting the workers of a token.                                        *)

Places(s, t) == {i \in DOMAIN s : s[i].token = t}

LEMMA BehindType ==
  ASSUME NEW S, NEW s, s \in Seq(S), NEW t
  PROVE  /\ IsFiniteSet(Places(s, t)) /\ Behind(s, t) = Cardinality(Places(s, t))
         /\ Behind(s, t) \in Nat
<1>1. DOMAIN s = 1 .. Len(s) /\ Len(s) \in Nat OBVIOUS
<1>2. IsFiniteSet(DOMAIN s) BY <1>1, FS_Interval
<1>3. Places(s, t) \in SUBSET DOMAIN s BY DEF Places
<1>4. IsFiniteSet(Places(s, t)) BY <1>2, <1>3, FS_Subset
<1>5. Behind(s, t) = Cardinality(Places(s, t)) BY DEF Behind, Places
<1> QED BY <1>4, <1>5, FS_CardinalityType

LEMMA BehindNothing ==
  ASSUME NEW t
  PROVE  Behind(<<>>, t) = 0
<1>1. {i \in DOMAIN <<>> : <<>>[i].token = t} = {} OBVIOUS
<1> QED BY <1>1, FS_EmptySet DEF Behind

LEMMA BehindOneMore ==
  ASSUME NEW S, NEW s, s \in Seq(S), NEW x \in S, NEW t
  PROVE  Behind(Append(s, x), t) = Behind(s, t) + (IF x.token = t THEN 1 ELSE 0)
<1> DEFINE u == Append(s, x)
           A == Places(s, t)
           B == Places(u, t)
<1>1. /\ DOMAIN u = DOMAIN s \cup {Len(s) + 1} /\ u[Len(s) + 1] = x
      /\ \A i \in DOMAIN s : u[i] = s[i]
      /\ Len(s) + 1 \notin DOMAIN s
  <2>1. Len(s) \in Nat /\ DOMAIN s = 1 .. Len(s) OBVIOUS
  <2>2. DOMAIN u = 1 .. Len(s) + 1 OBVIOUS
  <2>3. u[Len(s) + 1] = x OBVIOUS
  <2>4. \A i \in 1 .. Len(s) : u[i] = s[i] OBVIOUS
  <2> HIDE DEF u
  <2> QED BY <2>1, <2>2, <2>3, <2>4
<1>2. u \in Seq(S) OBVIOUS
<1>3. IsFiniteSet(A) /\ Behind(s, t) = Cardinality(A) /\ Behind(s, t) \in Nat BY BehindType
<1> HIDE DEF u
<1>4. Behind(u, t) = Cardinality(B) BY <1>2, BehindType
<1>5. CASE x.token = t
  <2>1. B = A \cup {Len(s) + 1} /\ Len(s) + 1 \notin A BY <1>1, <1>5 DEF Places
  <2> HIDE DEF A, B
  <2>2. Cardinality(A \cup {Len(s) + 1}) = Cardinality(A) + 1
    BY <1>3, <2>1, FS_AddElement
  <2>3. Behind(u, t) = Behind(s, t) + 1 BY <1>3, <1>4, <2>1, <2>2
  <2> QED BY <1>5, <2>3 DEF u
<1>6. CASE x.token # t
  <2>1. B = A BY <1>1, <1>6 DEF Places
  <2> HIDE DEF A, B
  <2>2. Behind(u, t) = Behind(s, t) + 0 BY <1>3, <1>4, <2>1
  <2> QED BY <1>6, <2>2 DEF u
<1> QED BY <1>5, <1>6

(* Without the k-th, the others move up. *)
Cut(s, u, k) ==
  /\ Len(u) = Len(s) - 1
  /\ \A i \in DOMAIN u : u[i] = IF i < k THEN s[i] ELSE s[i + 1]

LEMMA BehindOneLess ==
  ASSUME NEW S, NEW s, s \in Seq(S), NEW u, u \in Seq(S), NEW k \in DOMAIN s,
         Cut(s, u, k), NEW t
  PROVE  Behind(s, t) = Behind(u, t) + (IF s[k].token = t THEN 1 ELSE 0)
<1> DEFINE A == Places(s, t)
           B == Places(u, t)
           f == [i \in B |-> IF i < k THEN i ELSE i + 1]
<1>1. IsFiniteSet(A) /\ Behind(s, t) = Cardinality(A) BY BehindType
<1>a. IsFiniteSet(B) /\ Behind(u, t) = Cardinality(B) BY BehindType
<1> USE DEF Cut, Places
<1>2. f \in [B -> A \ {k}]
  <2>1. ASSUME NEW i \in B PROVE (IF i < k THEN i ELSE i + 1) \in A \ {k}
    <3>1. i \in 1 .. Len(u) /\ k \in 1 .. Len(s) /\ u[i].token = t OBVIOUS
    <3> QED BY <3>1
  <2> QED BY <2>1
<1>3. \A i, j \in B : f[i] = f[j] => i = j
  <2> SUFFICES ASSUME NEW i \in B, NEW j \in B, f[i] = f[j] PROVE i = j
    OBVIOUS
  <2>1. i \in 1 .. Len(u) /\ j \in 1 .. Len(u) /\ k \in 1 .. Len(s) OBVIOUS
  <2>2. (IF i < k THEN i ELSE i + 1) = (IF j < k THEN j ELSE j + 1) OBVIOUS
  <2> HIDE DEF f, A, B
  <2>3. CASE i < k /\ j < k BY <2>2, <2>3
  <2>4. CASE ~ (i < k) /\ ~ (j < k) BY <2>1, <2>2, <2>4
  <2>5. CASE i < k /\ ~ (j < k) BY <2>1, <2>2, <2>5
  <2>6. CASE ~ (i < k) /\ j < k BY <2>1, <2>2, <2>6
  <2> QED BY <2>3, <2>4, <2>5, <2>6
<1>4. \A a \in A \ {k} : \E i \in B : f[i] = a
  <2> SUFFICES ASSUME NEW a \in A, a # k PROVE \E i \in B : f[i] = a
    OBVIOUS
  <2>1. a \in 1 .. Len(s) /\ k \in 1 .. Len(s) /\ s[a].token = t /\ Len(s) \in Nat OBVIOUS
  <2>2. CASE a < k
    <3>1. a \in DOMAIN u /\ u[a] = s[a] BY <2>1, <2>2
    <3> QED BY <2>1, <2>2, <3>1
  <2>3. CASE a > k
    <3>1. a - 1 \in DOMAIN u BY <2>1, <2>3
    <3>2. ~ (a - 1 < k) /\ (a - 1) + 1 = a BY <2>1, <2>3
    <3>3. u[a - 1] = s[a] BY <3>1, <3>2
    <3> QED BY <2>1, <3>1, <3>2, <3>3
  <2>4. a < k \/ a > k BY <2>1
  <2> HIDE DEF f, A, B
  <2> QED BY <2>2, <2>3, <2>4
<1>5. f \in Bijection(B, A \ {k})
  <2> HIDE DEF f, A, B
  <2> QED BY <1>2, <1>3, <1>4 DEF Bijection, Injection, Surjection, IsInjective
<1>6. Cardinality(A \ {k}) = Cardinality(B)
  <2> HIDE DEF f, A, B
  <2> QED BY <1>1, <1>a, <1>5, FS_Bijection DEF ExistsBijection
<1>7. Cardinality(A \ {k}) = IF k \in A THEN Cardinality(A) - 1 ELSE Cardinality(A)
  <2> HIDE DEF A
  <2> QED BY <1>1, FS_RemoveElement
<1>8. Cardinality(A) \in Nat /\ Cardinality(B) \in Nat
  <2> HIDE DEF A, B
  <2> QED BY <1>1, <1>a, FS_CardinalityType
<1>9. k \in A <=> s[k].token = t OBVIOUS
<1> HIDE DEF A, B
<1> QED BY <1>1, <1>a, <1>6, <1>7, <1>8, <1>9

LEMMA BehindTail ==
  ASSUME NEW S, NEW s, s \in Seq(S), s # <<>>, NEW t
  PROVE  /\ Tail(s) \in Seq(S) /\ Head(s) \in S /\ Len(Tail(s)) = Len(s) - 1
         /\ Behind(s, t) = Behind(Tail(s), t) + (IF Head(s).token = t THEN 1 ELSE 0)
<1>1. /\ Tail(s) \in Seq(S) /\ Len(Tail(s)) = Len(s) - 1 /\ 1 \in DOMAIN s
      /\ \A i \in DOMAIN Tail(s) : Tail(s)[i] = s[i + 1]
      /\ Head(s) = s[1] /\ s[1] \in S
  OBVIOUS
<1>2. Cut(s, Tail(s), 1) BY <1>1 DEF Cut
<1>3. Behind(s, t) = Behind(Tail(s), t) + (IF s[1].token = t THEN 1 ELSE 0)
  <2> DEFINE u == Tail(s)
  <2>1. u \in Seq(S) /\ Cut(s, u, 1) /\ 1 \in DOMAIN s BY <1>1, <1>2
  <2> HIDE DEF u
  <2>2. \A k \in DOMAIN s :
          Cut(s, u, k) => Behind(s, t) = Behind(u, t) + (IF s[k].token = t THEN 1 ELSE 0)
    BY <2>1, BehindOneLess
  <2>3. Behind(s, t) = Behind(u, t) + (IF s[1].token = t THEN 1 ELSE 0) BY <2>1, <2>2
  <2> QED BY <2>3 DEF u
<1> QED BY <1>1, <1>3

LEMMA BehindRemoved ==
  ASSUME NEW S, NEW s, s \in Seq(S), NEW k \in DOMAIN s, NEW t
  PROVE  /\ RemoveAt(s, k) \in Seq(S) /\ Len(RemoveAt(s, k)) = Len(s) - 1
         /\ Behind(s, t) = Behind(RemoveAt(s, k), t) + (IF s[k].token = t THEN 1 ELSE 0)
<1> DEFINE u == RemoveAt(s, k)
<1>1. /\ u \in Seq(S) /\ Len(u) = Len(s) - 1
      /\ \A i \in DOMAIN u : u[i] = IF i < k THEN s[i] ELSE s[i + 1]
  <2> DEFINE a == SubSeq(s, 1, k - 1)
             b == SubSeq(s, k + 1, Len(s))
  <2>0. k \in 1 .. Len(s) /\ Len(s) \in Nat OBVIOUS
  <2>1. a \in Seq(S) /\ Len(a) = k - 1 /\ \A i \in 1 .. k - 1 : a[i] = s[i] BY <2>0
  <2>2. b \in Seq(S) /\ Len(b) = Len(s) - k /\ \A i \in 1 .. Len(s) - k : b[i] = s[k + i] BY <2>0
  <2>3. u = a \o b BY DEF RemoveAt
  <2> HIDE DEF a, b, u
  <2>4. u \in Seq(S) /\ Len(u) = Len(s) - 1 BY <2>0, <2>1, <2>2, <2>3
  <2>5. ASSUME NEW i \in DOMAIN u PROVE u[i] = IF i < k THEN s[i] ELSE s[i + 1]
    <3>1. i \in 1 .. Len(s) - 1 BY <2>4
    <3>2. CASE i < k BY <2>0, <2>1, <2>2, <2>3, <3>1, <3>2
    <3>3. CASE i >= k
      <4>1. i - (k - 1) \in 1 .. Len(s) - k BY <2>0, <3>1, <3>3
      <4>2. u[i] = b[i - (k - 1)] BY <2>0, <2>1, <2>2, <2>3, <3>1, <3>3
      <4>3. k + (i - (k - 1)) = i + 1 BY <2>0, <3>1
      <4>4. ~ (i < k) BY <2>0, <3>1, <3>3
      <4> QED BY <2>2, <4>1, <4>2, <4>3, <4>4
    <3> QED BY <2>0, <3>1, <3>2, <3>3
  <2> QED BY <2>4, <2>5
<1> HIDE DEF u
<1>2. Cut(s, u, k) BY <1>1 DEF Cut
<1>3. Behind(s, t) = Behind(u, t) + (IF s[k].token = t THEN 1 ELSE 0)
  BY <1>1, <1>2, BehindOneLess
<1> QED BY <1>1, <1>3 DEF u

LEMMA Added ==
  ASSUME NEW S, NEW s, s \in Seq(S), NEW x \in S
  PROVE  /\ Append(s, x) \in Seq(S) /\ ToSet(Append(s, x)) = ToSet(s) \cup {x}
         /\ Len(Append(s, x)) = Len(s) + 1
         /\ \A t : Behind(Append(s, x), t) = Behind(s, t) + (IF x.token = t THEN 1 ELSE 0)
<1>1. \A t : Behind(Append(s, x), t) = Behind(s, t) + (IF x.token = t THEN 1 ELSE 0)
  BY BehindOneMore
<1> DEFINE u == Append(s, x)
<1>2. /\ u \in Seq(S) /\ DOMAIN u = DOMAIN s \cup {Len(s) + 1} /\ u[Len(s) + 1] = x
      /\ Len(u) = Len(s) + 1 /\ \A i \in DOMAIN s : u[i] = s[i]
  OBVIOUS
<1> HIDE DEF u
<1>3. ToSet(u) = ToSet(s) \cup {x} BY <1>2 DEF ToSet
<1> QED BY <1>1, <1>2, <1>3 DEF u

LEMMA Taken ==
  ASSUME NEW S, NEW s, s \in Seq(S), s # <<>>
  PROVE  /\ Tail(s) \in Seq(S) /\ Head(s) \in S /\ Len(Tail(s)) = Len(s) - 1
         /\ Head(s) \in ToSet(s) /\ ToSet(Tail(s)) \subseteq ToSet(s)
         /\ \A t : Behind(s, t) = Behind(Tail(s), t) + (IF Head(s).token = t THEN 1 ELSE 0)
<1>1. \A t : Behind(s, t) = Behind(Tail(s), t) + (IF Head(s).token = t THEN 1 ELSE 0)
  BY BehindTail
<1> DEFINE u == Tail(s)
<1>2. /\ u \in Seq(S) /\ Len(u) = Len(s) - 1 /\ Head(s) = s[1] /\ 1 \in DOMAIN s
      /\ \A i \in DOMAIN u : i + 1 \in DOMAIN s /\ u[i] = s[i + 1]
      /\ s[1] \in S
  OBVIOUS
<1> HIDE DEF u
<1>3. ToSet(u) \subseteq ToSet(s) /\ Head(s) \in ToSet(s) BY <1>2 DEF ToSet
<1> QED BY <1>1, <1>2, <1>3 DEF u

LEMMA Removed ==
  ASSUME NEW S, NEW s, s \in Seq(S), NEW k \in DOMAIN s
  PROVE  /\ RemoveAt(s, k) \in Seq(S) /\ s[k] \in S /\ s[k] \in ToSet(s)
         /\ ToSet(RemoveAt(s, k)) \subseteq ToSet(s)
         /\ \A t : Behind(s, t) = Behind(RemoveAt(s, k), t) + (IF s[k].token = t THEN 1 ELSE 0)
<1>1. \A t : Behind(s, t) = Behind(RemoveAt(s, k), t) + (IF s[k].token = t THEN 1 ELSE 0)
  BY BehindRemoved
<1>2. RemoveAt(s, k) \in Seq(S) BY BehindRemoved
<1>3. ToSet(RemoveAt(s, k)) \subseteq ToSet(s)
  <2> DEFINE a == SubSeq(s, 1, k - 1)
             b == SubSeq(s, k + 1, Len(s))
  <2>1. a \in Seq(S) /\ \A i \in DOMAIN a : i \in DOMAIN s /\ a[i] = s[i] OBVIOUS
  <2>2. b \in Seq(S) /\ \A i \in DOMAIN b : k + i \in DOMAIN s /\ b[i] = s[k + i] OBVIOUS
  <2>3. RemoveAt(s, k) = a \o b BY DEF RemoveAt
  <2> HIDE DEF a, b
  <2>4. \A i \in DOMAIN (a \o b) : \/ i \in DOMAIN a /\ (a \o b)[i] = a[i]
                                   \/ i - Len(a) \in DOMAIN b /\ (a \o b)[i] = b[i - Len(a)]
    BY <2>1, <2>2
  <2> QED BY <2>1, <2>2, <2>3, <2>4 DEF ToSet
<1>4. s[k] \in S /\ s[k] \in ToSet(s) BY DEF ToSet
<1> QED BY <1>1, <1>2, <1>3, <1>4

LEMMA EmptyQueue == ToSet(<<>>) = {} /\ \A S : <<>> \in Seq(S)
  BY DEF ToSet

Run(t) == IF running.token = t THEN 1 ELSE 0
Mine(t) == Behind(urgent, t) + Behind(regular, t) + Behind(timers, t)

LEMMA Counted ==
  ASSUME Shape, NEW t
  PROVE  /\ InFlight(t) = Mine(t) + Behind(commands, t) + Run(t)
         /\ Behind(urgent, t) \in Nat /\ Behind(regular, t) \in Nat /\ Behind(timers, t) \in Nat
         /\ Behind(commands, t) \in Nat /\ Run(t) \in {0, 1} /\ Mine(t) \in Nat
         /\ InFlight(t) \in Nat
<1>1. Behind(urgent, t) \in Nat BY BehindType DEF Shape
<1>2. Behind(regular, t) \in Nat BY BehindType DEF Shape
<1>3. Behind(timers, t) \in Nat BY BehindType DEF Shape
<1>4. Behind(commands, t) \in Nat BY BehindType DEF Shape
<1> QED BY <1>1, <1>2, <1>3, <1>4 DEF InFlight, Mine, Run

-----------------------------------------------------------------------------
(* A chain that begins has one worker: its operation, or its timer.        *)
LEMMA OpType ==
  ASSUME NEW o \in Nat, NEW type \in {"start", "switch", "resume", "pause", "shutdown"}
  PROVE  /\ Op(type, o) \in Ops /\ Op(type, o).token = 0 /\ Op(type, o).out = o
         /\ Op(type, o).type = type
  BY DEF Op, Ops

LEMMA ReconnectOpType ==
  ASSUME NEW t \in Nat, NEW o \in Nat, NEW b \in BOOLEAN
  PROVE  /\ ReconnectOp(t, o, b) \in Ops /\ ReconnectOp(t, o, b).token = t
         /\ ReconnectOp(t, o, b).out = o /\ ReconnectOp(t, o, b).type = "reconnect"
  BY DEF ReconnectOp, Ops

LEMMA BeginEffect ==
  ASSUME Shape, NEW c \in Controls, NEW lane \in {"urgent", "regular"}, BeginChain(c, lane)
  PROVE  /\ ctl' = [c EXCEPT !.token = tokens.token + 1, !.bound = c.out, !.manual = FALSE]
         /\ tokens' = [tokens EXCEPT !.token = tokens.token + 1]
         /\ shared' = [token |-> tokens.token + 1, done |-> 0]
         /\ urgent' \in Seq(Ops) /\ regular' \in Seq(Ops) /\ timers' \in Seq(Timers)
         /\ left' \in [commands : Nat, drops : Nat, faults : Nat]
         /\ \A op \in ToSet(urgent') : \/ op \in ToSet(urgent)
                                       \/ op.out = c.out /\ op.type = "reconnect"
         /\ \A op \in ToSet(regular') : op \in ToSet(regular) \/ op.out = c.out
         /\ \A m \in ToSet(timers') : m \in ToSet(timers) \/ m.out = c.out
         /\ \A t \in Nat \ {0} :
              Mine(t)' = Mine(t) + (IF t = tokens.token + 1 THEN 1 ELSE 0)
<1> DEFINE token == tokens.token + 1
           op == ReconnectOp(token, c.out, FALSE)
           res == Op("resume", c.out)
           tm == [token |-> token, out |-> c.out]
<1>1. token \in Nat /\ c.out \in Nat
  <2>1. tokens.token \in Nat BY DEF Shape
  <2>2. c.out \in Nat BY DEF Controls
  <2> QED BY <2>1, <2>2
<1> HIDE DEF token
<1>2. /\ op \in Ops /\ op.token = token /\ op.out = c.out /\ op.type = "reconnect"
      /\ res \in Ops /\ res.token = 0 /\ res.out = c.out
      /\ tm \in Timers /\ tm.token = token /\ tm.out = c.out
  <2>1. op \in Ops /\ op.token = token /\ op.out = c.out /\ op.type = "reconnect"
    BY <1>1 DEF ReconnectOp, Ops
  <2>2. res \in Ops /\ res.token = 0 /\ res.out = c.out
    BY <1>1, OpType
  <2>3. tm \in Timers /\ tm.token = token /\ tm.out = c.out
    BY <1>1 DEF Timers
  <2> QED BY <2>1, <2>2, <2>3
<1>3. /\ ctl' = [c EXCEPT !.token = token, !.bound = c.out, !.manual = FALSE]
      /\ tokens' = [tokens EXCEPT !.token = token]
      /\ shared' = [token |-> token, done |-> 0]
      /\ \/ /\ urgent' = IF lane = "urgent" THEN Append(urgent, op) ELSE urgent
            /\ regular' = IF lane = "regular" THEN regular \o <<res, op>> ELSE regular
            /\ timers' = timers /\ left' = left
         \/ /\ timers' = Append(timers, tm)
            /\ left.faults > 0 /\ left' = [left EXCEPT !.faults = @ - 1]
            /\ regular' = IF lane = "regular" THEN Append(regular, res) ELSE regular
            /\ urgent' = urgent
  BY DEF BeginChain, Spend, token
<1> HIDE DEF op, res, tm
<1>5. left' \in [commands : Nat, drops : Nat, faults : Nat]
  <2>1. left \in [commands : Nat, drops : Nat, faults : Nat] BY DEF Shape
  <2>2. left' = left \/ (left.faults > 0 /\ left' = [left EXCEPT !.faults = @ - 1]) BY <1>3
  <2>3. CASE left' = left BY <2>1, <2>3
  <2>4. CASE left.faults > 0 /\ left' = [left EXCEPT !.faults = @ - 1]
    <3>1. left.faults - 1 \in Nat BY <2>1, <2>4
    <3> QED BY <2>1, <2>4, <3>1
  <2> QED BY <2>2, <2>3, <2>4
<1>6. urgent \in Seq(Ops) /\ regular \in Seq(Ops) /\ timers \in Seq(Timers) BY DEF Shape
<1>4. regular \o <<res, op>> = Append(Append(regular, res), op)
  BY <1>2, <1>6
<1>7. /\ Append(urgent, op) \in Seq(Ops) /\ ToSet(Append(urgent, op)) = ToSet(urgent) \cup {op}
      /\ \A t : Behind(Append(urgent, op), t) = Behind(urgent, t) + (IF token = t THEN 1 ELSE 0)
  BY <1>2, <1>6, Added
<1>8. /\ Append(regular, res) \in Seq(Ops)
      /\ ToSet(Append(regular, res)) = ToSet(regular) \cup {res}
      /\ \A t : Behind(Append(regular, res), t) = Behind(regular, t) + (IF 0 = t THEN 1 ELSE 0)
  BY <1>2, <1>6, Added
<1>9. LET r == regular \o <<res, op>>
      IN  /\ r \in Seq(Ops) /\ ToSet(r) = ToSet(regular) \cup {res, op}
          /\ \A t : Behind(r, t) =
               Behind(Append(regular, res), t) + (IF token = t THEN 1 ELSE 0)
  <2> DEFINE a == Append(regular, res)
  <2>1. a \in Seq(Ops) /\ ToSet(a) = ToSet(regular) \cup {res} BY <1>8
  <2> HIDE DEF a
  <2>2. /\ Append(a, op) \in Seq(Ops) /\ ToSet(Append(a, op)) = ToSet(a) \cup {op}
        /\ \A t : Behind(Append(a, op), t) = Behind(a, t) + (IF token = t THEN 1 ELSE 0)
    BY <1>2, <2>1, Added
  <2>3. regular \o <<res, op>> = Append(a, op) BY <1>4 DEF a
  <2>4. ToSet(Append(a, op)) = ToSet(regular) \cup {res, op} BY <2>1, <2>2
  <2>5. \A t : Behind(Append(a, op), t) =
                 Behind(Append(regular, res), t) + (IF token = t THEN 1 ELSE 0)
    BY <2>2 DEF a
  <2> QED BY <2>2, <2>3, <2>4, <2>5
<1>10. /\ Append(timers, tm) \in Seq(Timers) /\ ToSet(Append(timers, tm)) = ToSet(timers) \cup {tm}
       /\ \A t : Behind(Append(timers, tm), t) = Behind(timers, t) + (IF token = t THEN 1 ELSE 0)
  BY <1>2, <1>6, Added
<1>11. /\ urgent' \in Seq(Ops) /\ regular' \in Seq(Ops) /\ timers' \in Seq(Timers)
       /\ ToSet(urgent') \subseteq ToSet(urgent) \cup {op}
       /\ ToSet(regular') \subseteq ToSet(regular) \cup {op, res}
       /\ ToSet(timers') \subseteq ToSet(timers) \cup {tm}
  BY <1>3, <1>6, <1>7, <1>8, <1>9, <1>10
<1>12. ASSUME NEW t \in Nat, t # 0
       PROVE  Mine(t)' = Mine(t) + (IF t = token THEN 1 ELSE 0)
  <2>1. /\ Behind(urgent, t) \in Nat /\ Behind(regular, t) \in Nat /\ Behind(timers, t) \in Nat
    BY Counted
  <2>2. Mine(t)' = Behind(urgent', t) + Behind(regular', t) + Behind(timers', t) BY DEF Mine
  <2>3. Mine(t) = Behind(urgent, t) + Behind(regular, t) + Behind(timers, t) BY DEF Mine
  <2> DEFINE one == IF token = t THEN 1 ELSE 0
  <2>4. Behind(Append(regular, res), t) = Behind(regular, t) BY <1>8, <1>12, <2>1
  <2>5. /\ Behind(Append(urgent, op), t) = Behind(urgent, t) + one
        /\ Behind(regular \o <<res, op>>, t) = Behind(regular, t) + one
        /\ Behind(Append(timers, tm), t) = Behind(timers, t) + one
    BY <1>7, <1>9, <1>10, <2>4
  <2>6. one \in Nat OBVIOUS
  <2> SUFFICES Mine(t)' = Mine(t) + one BY DEF one
  <2> HIDE DEF one
  <2>7. CASE urgent' = Append(urgent, op) /\ regular' = regular /\ timers' = timers
    BY <2>1, <2>2, <2>3, <2>5, <2>6, <2>7
  <2>8. CASE urgent' = urgent /\ regular' = regular \o <<res, op>> /\ timers' = timers
    BY <2>1, <2>2, <2>3, <2>5, <2>6, <2>8
  <2>9. CASE /\ urgent' = urgent /\ timers' = Append(timers, tm)
             /\ regular' = regular \/ regular' = Append(regular, res)
    <3>1. Behind(regular', t) = Behind(regular, t) BY <2>4, <2>9
    <3>2. Behind(timers', t) = Behind(timers, t) + one BY <2>5, <2>9
    <3>3. Behind(urgent', t) = Behind(urgent, t) BY <2>9
    <3> QED BY <2>1, <2>2, <2>3, <2>6, <3>1, <3>2, <3>3
  <2> QED BY <1>3, <2>7, <2>8, <2>9
<1> QED BY <1>2, <1>3, <1>5, <1>11, <1>12 DEF token

-----------------------------------------------------------------------------
(* What is sent, and what a step does to the counts.                       *)
LEMMA Members ==
  ASSUME Shape
  PROVE  /\ \A op \in ToSet(urgent) \cup ToSet(regular) : op \in Ops
         /\ \A m \in ToSet(commands) : m \in Msgs
         /\ \A m \in ToSet(results) : m \in Outcomes
         /\ \A tm \in ToSet(timers) : tm \in Timers
<1>1. urgent \in Seq(Ops) /\ regular \in Seq(Ops) /\ commands \in Seq(Msgs)
      /\ results \in Seq(Outcomes) /\ timers \in Seq(Timers)
  BY DEF Shape
<1>2. ASSUME NEW S, NEW s \in Seq(S) PROVE \A x \in ToSet(s) : x \in S
  BY DEF ToSet
<1> QED BY <1>1, <1>2

LEMMA OutNumbers ==
  /\ \A op \in Ops : op.out \in Nat /\ op.token \in Nat
                     /\ (op.type # "reconnect" => op.token = 0)
  /\ \A m \in Msgs : m.out \in Nat /\ m.token \in Nat /\ m.ok \in BOOLEAN
                     /\ (m.type \notin {"retry", "finished"} => m.token = 0)
  /\ \A m \in Outcomes : m.out \in Nat /\ m.token = 0 /\ m \in Msgs
  /\ \A tm \in Timers : tm.out \in Nat /\ tm.token \in Nat
  BY DEF Ops, Msgs, Outcomes, Timers

LEMMA RegularSent ==
  ASSUME Shape, NEW op \in Ops, regular' = Append(regular, op), urgent' = urgent, timers' = timers
  PROVE  /\ urgent' \in Seq(Ops) /\ regular' \in Seq(Ops) /\ timers' \in Seq(Timers)
         /\ ToSet(regular') = ToSet(regular) \cup {op}
         /\ \A t : Mine(t)' = Mine(t) + (IF op.token = t THEN 1 ELSE 0)
<1>1. regular \in Seq(Ops) /\ urgent \in Seq(Ops) /\ timers \in Seq(Timers) BY DEF Shape
<1>2. /\ Append(regular, op) \in Seq(Ops) /\ ToSet(Append(regular, op)) = ToSet(regular) \cup {op}
      /\ \A t : Behind(Append(regular, op), t)
                  = Behind(regular, t) + (IF op.token = t THEN 1 ELSE 0)
  BY <1>1, Added
<1>3. ASSUME NEW t PROVE Mine(t)' = Mine(t) + (IF op.token = t THEN 1 ELSE 0)
  <2>1. Behind(urgent, t) \in Nat /\ Behind(regular, t) \in Nat /\ Behind(timers, t) \in Nat
    BY Counted
  <2>2. Behind(regular', t) = Behind(regular, t) + (IF op.token = t THEN 1 ELSE 0)
        /\ Behind(urgent', t) = Behind(urgent, t) /\ Behind(timers', t) = Behind(timers, t)
    BY <1>2
  <2> QED BY <2>1, <2>2 DEF Mine
<1> QED BY <1>1, <1>2, <1>3

LEMMA UrgentSent ==
  ASSUME Shape, NEW op \in Ops, urgent' = Append(urgent, op), regular' = regular, timers' = timers
  PROVE  /\ urgent' \in Seq(Ops) /\ regular' \in Seq(Ops) /\ timers' \in Seq(Timers)
         /\ ToSet(urgent') = ToSet(urgent) \cup {op}
         /\ \A t : Mine(t)' = Mine(t) + (IF op.token = t THEN 1 ELSE 0)
<1>1. regular \in Seq(Ops) /\ urgent \in Seq(Ops) /\ timers \in Seq(Timers) BY DEF Shape
<1>2. /\ Append(urgent, op) \in Seq(Ops) /\ ToSet(Append(urgent, op)) = ToSet(urgent) \cup {op}
      /\ \A t : Behind(Append(urgent, op), t)
                  = Behind(urgent, t) + (IF op.token = t THEN 1 ELSE 0)
  BY <1>1, Added
<1>3. ASSUME NEW t PROVE Mine(t)' = Mine(t) + (IF op.token = t THEN 1 ELSE 0)
  <2>1. Behind(urgent, t) \in Nat /\ Behind(regular, t) \in Nat /\ Behind(timers, t) \in Nat
    BY Counted
  <2>2. Behind(urgent', t) = Behind(urgent, t) + (IF op.token = t THEN 1 ELSE 0)
        /\ Behind(regular', t) = Behind(regular, t) /\ Behind(timers', t) = Behind(timers, t)
    BY <1>2
  <2> QED BY <2>1, <2>2 DEF Mine
<1> QED BY <1>1, <1>2, <1>3

LEMMA TimerSet ==
  ASSUME Shape, NEW tm \in Timers, timers' = Append(timers, tm), urgent' = urgent,
         regular' = regular
  PROVE  /\ urgent' \in Seq(Ops) /\ regular' \in Seq(Ops) /\ timers' \in Seq(Timers)
         /\ ToSet(timers') = ToSet(timers) \cup {tm}
         /\ \A t : Mine(t)' = Mine(t) + (IF tm.token = t THEN 1 ELSE 0)
<1>1. regular \in Seq(Ops) /\ urgent \in Seq(Ops) /\ timers \in Seq(Timers) BY DEF Shape
<1>2. /\ Append(timers, tm) \in Seq(Timers) /\ ToSet(Append(timers, tm)) = ToSet(timers) \cup {tm}
      /\ \A t : Behind(Append(timers, tm), t)
                  = Behind(timers, t) + (IF tm.token = t THEN 1 ELSE 0)
  BY <1>1, Added
<1>3. ASSUME NEW t PROVE Mine(t)' = Mine(t) + (IF tm.token = t THEN 1 ELSE 0)
  <2>1. Behind(urgent, t) \in Nat /\ Behind(regular, t) \in Nat /\ Behind(timers, t) \in Nat
    BY Counted
  <2>2. Behind(timers', t) = Behind(timers, t) + (IF tm.token = t THEN 1 ELSE 0)
        /\ Behind(urgent', t) = Behind(urgent, t) /\ Behind(regular', t) = Behind(regular, t)
    BY <1>2
  <2> QED BY <2>1, <2>2 DEF Mine
<1> QED BY <1>1, <1>2, <1>3

LEMMA LanesKept ==
  ASSUME Shape, UNCHANGED <<urgent, regular, timers>>
  PROVE  /\ urgent' \in Seq(Ops) /\ regular' \in Seq(Ops) /\ timers' \in Seq(Timers)
         /\ \A t : Mine(t)' = Mine(t)
  BY DEF Shape, Mine

LEMMA CountedNext ==
  ASSUME Shape', NEW t
  PROVE  /\ InFlight(t)' = Mine(t)' + Behind(commands, t)' + Run(t)'
         /\ Mine(t)' \in Nat /\ Behind(commands, t)' \in Nat /\ Run(t)' \in {0, 1}
         /\ InFlight(t)' \in Nat
<1>1. Behind(urgent', t) \in Nat BY BehindType DEF Shape
<1>2. Behind(regular', t) \in Nat BY BehindType DEF Shape
<1>3. Behind(timers', t) \in Nat BY BehindType DEF Shape
<1>4. Behind(commands', t) \in Nat BY BehindType DEF Shape
<1> QED BY <1>1, <1>2, <1>3, <1>4 DEF InFlight, Mine, Run

(* No step but the beginning of a chain adds a worker, and a chain that    *)
(* goes on keeps the one it has.                                           *)
LEMMA NoneAdded ==
  ASSUME Shape, Shape', Handed, ActiveChainHasOneWorker,
         tokens'.token = tokens.token, shared'.token = ctl'.token,
         {shared'.done, running'.token} \subseteq 0 .. tokens.token,
         \A t \in Nat \ {0} : InFlight(t)' <= InFlight(t),
         \/ ctl'.token = 0
         \/ /\ ctl'.token = ctl.token
            /\ \A t \in Nat \ {0} : t = ctl.token => InFlight(t)' = InFlight(t)
  PROVE  Handed' /\ ActiveChainHasOneWorker'
<1>1. tokens.token \in Nat /\ ctl.token \in Nat /\ ctl'.token \in Nat BY DEF Shape, Controls
<1>2. ActiveChainHasOneWorker'
  <2> SUFFICES ASSUME ctl'.token # 0 PROVE \A t \in Nat : t = ctl'.token => InFlight(t)' = 1
    BY <1>1 DEF ActiveChainHasOneWorker
  <2>1. ctl'.token = ctl.token /\ ctl.token \in Nat \ {0} BY <1>1
  <2>2. InFlight(ctl.token) = 1 BY <2>1 DEF ActiveChainHasOneWorker
  <2>3. \A t \in Nat \ {0} : t = ctl.token => InFlight(t)' = InFlight(t) BY <2>1
  <2>4. \A t \in Nat : t = ctl.token => InFlight(t) = 1 BY <2>2
  <2> QED BY <2>1, <2>3, <2>4
<1>3. ctl'.token \in 0 .. tokens'.token BY <1>1 DEF Handed
<1>4. ASSUME NEW t \in Nat, t > tokens.token PROVE InFlight(t)' = 0
  <2>1. InFlight(t)' \in Nat BY CountedNext
  <2>2. InFlight(t) = 0 BY <1>4 DEF Handed
  <2>3. t # 0 BY <1>1, <1>4
  <2>4. InFlight(t)' <= InFlight(t) BY <2>3
  <2> QED BY <2>1, <2>2, <2>4
<1> QED BY <1>2, <1>3, <1>4 DEF Handed

LEMMA OneBegun ==
  ASSUME Shape, Shape', Handed,
         tokens'.token = tokens.token + 1, shared' = [token |-> tokens.token + 1, done |-> 0],
         ctl'.token = tokens.token + 1, running' = running,
         \A t \in Nat \ {0} :
           InFlight(t)' = InFlight(t) + (IF t = tokens.token + 1 THEN 1 ELSE 0)
  PROVE  Handed' /\ ActiveChainHasOneWorker'
<1>1. tokens.token \in Nat BY DEF Shape
<1>2. running.token \in 0 .. tokens.token BY DEF Handed
<1>3. {ctl'.token, shared'.done, running'.token} \subseteq 0 .. tokens'.token BY <1>1, <1>2
<1>4. InFlight(tokens.token + 1) = 0 BY <1>1 DEF Handed
<1>5. \A t \in Nat : t = tokens.token + 1 => InFlight(t)' = 1
  BY <1>1, <1>4
<1>6. ActiveChainHasOneWorker'
  <2>1. ctl'.token = tokens.token + 1 /\ ctl'.token \in Nat BY <1>1
  <2>2. \A t \in Nat : t = ctl'.token => InFlight(t)' = 1 BY <2>1, <1>5
  <2> QED BY <2>1, <2>2 DEF ActiveChainHasOneWorker
<1>7. ASSUME NEW t \in Nat, t > tokens'.token PROVE InFlight(t)' = 0
  <2>1. t \in Nat \ {0} /\ t # tokens.token + 1 /\ t > tokens.token BY <1>1, <1>7
  <2>2. InFlight(t) = 0 BY <2>1 DEF Handed
  <2> QED BY <2>1, <2>2
<1> QED BY <1>3, <1>6, <1>7 DEF Handed

LEMMA OutsKept ==
  ASSUME Shape, Outs, Shape', tokens.out <= tokens'.out,
         {ctl'.out, ctl'.known, ctl'.bound} \subseteq 0 .. tokens'.out,
         \A op \in ToSet(urgent') : op \in ToSet(urgent) \/ op.out <= tokens'.out,
         \A op \in ToSet(regular') : op \in ToSet(regular) \/ op.out <= tokens'.out,
         \A m \in ToSet(commands') : m \in ToSet(commands) \/ m.out <= tokens'.out,
         \A m \in ToSet(results') : m \in ToSet(results) \/ m.out <= tokens'.out,
         \A tm \in ToSet(timers') : tm \in ToSet(timers) \/ tm.out <= tokens'.out,
         running'.out <= tokens'.out
  PROVE  Outs'
<1>1. tokens.out \in Nat /\ tokens'.out \in Nat BY DEF Shape
<1>2. ASSUME NEW n \in Nat, n <= tokens.out PROVE n <= tokens'.out BY <1>1, <1>2
<1>3. \A op \in ToSet(urgent) \cup ToSet(regular) : op.out <= tokens'.out
  BY <1>2, Members, OutNumbers DEF Outs
<1>4. \A m \in ToSet(commands) \cup ToSet(results) : m.out <= tokens'.out
  BY <1>2, Members, OutNumbers DEF Outs
<1>5. \A tm \in ToSet(timers) : tm.out <= tokens'.out
  BY <1>2, Members, OutNumbers DEF Outs
<1> QED BY <1>3, <1>4, <1>5 DEF Outs

-----------------------------------------------------------------------------
(* Commands.                                                               *)
Taking(m) ==
  /\ Alive /\ commands # <<>> /\ m = Head(commands) /\ commands' = Tail(commands)
  /\ UNCHANGED <<events, running, results, pipe>>

LEMMA TakingTypes ==
  ASSUME Shape, Outs, Handed, NEW m, Taking(m)
  PROVE  /\ m \in Msgs /\ m.out \in Nat /\ m.out <= tokens.out /\ m.token \in Nat
         /\ m.ok \in BOOLEAN
         /\ m.type \notin {"retry", "finished"} => m.token = 0
         /\ commands' \in Seq(Msgs) /\ Len(commands') <= Capacity
         /\ ToSet(commands') \subseteq ToSet(commands)
         /\ \A t : Behind(commands, t) = Behind(commands', t) + (IF m.token = t THEN 1 ELSE 0)
         /\ events' \in Seq(Nat) /\ results' \in Seq(Outcomes) /\ results' = results
         /\ running' = running /\ running.out <= tokens.out /\ running.out \in Nat
         /\ running' \in Runs
         /\ running.token \in 0 .. tokens.token
         /\ pipe' = [state |-> pipe'.state, out |-> pipe'.out, sink |-> pipe'.sink]
         /\ pipe'.out \in Nat
<1>1. commands \in Seq(Msgs) /\ commands # <<>> /\ Len(commands) <= Capacity
      /\ commands' = Tail(commands) /\ m = Head(commands)
  BY DEF Shape, Taking
<1>2. /\ commands' \in Seq(Msgs) /\ m \in Msgs /\ Len(commands') = Len(commands) - 1
      /\ m \in ToSet(commands) /\ ToSet(commands') \subseteq ToSet(commands)
      /\ \A t : Behind(commands, t) = Behind(commands', t) + (IF m.token = t THEN 1 ELSE 0)
  BY <1>1, Taken
<1>3. Capacity \in Nat /\ Len(commands) \in Nat BY <1>1, ReconnectAssumption
<1>4. Len(commands') <= Capacity BY <1>1, <1>2, <1>3
<1>5. m.out <= tokens.out BY <1>2 DEF Outs
<1>6. /\ m.out \in Nat /\ m.token \in Nat /\ m.ok \in BOOLEAN
      /\ m.type \notin {"retry", "finished"} => m.token = 0
  BY <1>2, OutNumbers
<1>7. running.out <= tokens.out /\ running.token \in 0 .. tokens.token BY DEF Outs, Handed
<1>9. running.out \in Nat BY DEF Shape, Runs
<1>8. /\ events' = events /\ running' = running /\ results' = results /\ pipe' = pipe
  BY DEF Taking
<1> QED BY <1>2, <1>4, <1>5, <1>6, <1>7, <1>8, <1>9 DEF Shape

(* A step of the loop: what it does to the workers of a token.             *)
LEMMA TakingCount ==
  ASSUME Shape, Shape', Outs, Handed, NEW m, Taking(m), NEW t, NEW k \in Nat,
         Mine(t)' = Mine(t) + k
  PROVE  InFlight(t)' = InFlight(t) + k - (IF m.token = t THEN 1 ELSE 0)
<1>1. Behind(commands, t) = Behind(commands', t) + (IF m.token = t THEN 1 ELSE 0)
  BY TakingTypes
<1>2. Run(t)' = Run(t) BY DEF Run, Taking
<1>3. /\ InFlight(t) = Mine(t) + Behind(commands, t) + Run(t)
      /\ Mine(t) \in Nat /\ Behind(commands, t) \in Nat /\ Run(t) \in Nat
  BY Counted
<1>4. /\ InFlight(t)' = Mine(t)' + Behind(commands', t) + Run(t)'
      /\ Behind(commands', t) \in Nat
  BY CountedNext
<1> QED BY <1>1, <1>2, <1>3, <1>4

LEMMA TakingOuts ==
  ASSUME Shape, Outs, Handed, NEW m, Taking(m), Shape', tokens.out <= tokens'.out,
         {ctl'.out, ctl'.known, ctl'.bound} \subseteq 0 .. tokens'.out,
         \A op \in ToSet(urgent') : op \in ToSet(urgent) \/ op.out <= tokens'.out,
         \A op \in ToSet(regular') : op \in ToSet(regular) \/ op.out <= tokens'.out,
         \A tm \in ToSet(timers') : tm \in ToSet(timers) \/ tm.out <= tokens'.out
  PROVE  Outs'
<1>1. ToSet(commands') \subseteq ToSet(commands) /\ results' = results BY TakingTypes
<1>2. running' = running /\ running.out <= tokens.out /\ running.out \in Nat BY TakingTypes
<1>3. tokens.out \in Nat /\ tokens'.out \in Nat BY DEF Shape
<1>4. running'.out <= tokens'.out BY <1>2, <1>3
<1>5. \A x \in ToSet(commands') : x \in ToSet(commands) \/ x.out <= tokens'.out BY <1>1
<1>6. \A x \in ToSet(results') : x \in ToSet(results) \/ x.out <= tokens'.out BY <1>1
<1> QED BY <1>4, <1>5, <1>6, OutsKept

LEMMA ControlType ==
  ASSUME Shape
  PROVE  /\ ctl \in Controls /\ Unchained(ctl) \in Controls
         /\ \A out \in Nat : NewIdentity(ctl, out) \in Controls
  BY DEF Shape, Controls, Unchained, NewIdentity

LEMMA SharedNext ==
  ASSUME Shape, Handed, ctl'.token \in {0, ctl.token}, Share(ctl')
  PROVE  /\ shared' \in [token : Nat, done : Nat] /\ shared'.token = ctl'.token
         /\ shared'.done \in 0 .. tokens.token
<1>1. shared \in [token : Nat, done : Nat] /\ tokens.token \in Nat BY DEF Shape
<1>2. shared.token = ctl.token /\ shared.done \in 0 .. tokens.token BY DEF Handed
<1>3. shared' = IF ctl'.token = 0 /\ ctl' # ctl THEN [token |-> 0, done |-> 0] ELSE shared
  BY DEF Share
<1>4. CASE ctl'.token = 0 /\ ctl' # ctl BY <1>1, <1>3, <1>4
<1>5. CASE ~ (ctl'.token = 0 /\ ctl' # ctl)
  <2>1. ctl'.token = ctl.token BY <1>5
  <2> QED BY <1>1, <1>2, <1>3, <1>5, <2>1
<1> QED BY <1>4, <1>5

LEMMA PauseStep ==
  ASSUME IInv, NEW m, Taking(m), m.type = "pause", Pause
  PROVE  IInv'
<1> USE DEF IInv
<1>1. /\ ctl' = [Unchained(ctl) EXCEPT !.state = "paused",
                                       !.pending = IF @ = "play" THEN "none" ELSE @]
      /\ Share(ctl')
      /\ regular' = Append(regular, Op("pause", ctl.out))
      /\ tokens' = tokens /\ urgent' = urgent /\ timers' = timers
      /\ unheard' = unheard /\ left' = left
  BY DEF Pause
<1>2. ctl \in Controls /\ tokens \in [token : Nat, out : Nat] BY DEF Shape
<1>3. /\ ctl' \in Controls /\ ctl'.token = 0 /\ ctl'.bound = 0 /\ ctl'.manual = FALSE
      /\ ctl'.state = "paused" /\ ctl'.out = ctl.out /\ ctl'.known = ctl.known
      /\ ctl'.pending = IF ctl.pending = "play" THEN "none" ELSE ctl.pending
  BY <1>1, <1>2 DEF Controls, Unchained
<1> DEFINE op == Op("pause", ctl.out)
<1>4. op \in Ops /\ op.token = 0 /\ op.out = ctl.out BY <1>2, OpType DEF Controls
<1> HIDE DEF op
<1>5. regular' = Append(regular, op) BY <1>1 DEF op
<1>6. /\ urgent' \in Seq(Ops) /\ regular' \in Seq(Ops) /\ timers' \in Seq(Timers)
      /\ ToSet(regular') = ToSet(regular) \cup {op}
      /\ \A t : Mine(t)' = Mine(t) + (IF op.token = t THEN 1 ELSE 0)
  BY <1>1, <1>4, <1>5, RegularSent
<1>7. shared' \in [token : Nat, done : Nat] /\ shared'.token = 0
      /\ shared'.done \in 0 .. tokens.token
  BY <1>1, <1>3, SharedNext
<1>8. Shape' BY <1>1, <1>3, <1>6, <1>7, TakingTypes DEF Shape
<1>9. Outs' BY <1>1, <1>3, <1>4, <1>6, <1>8, <1>2, TakingOuts DEF Outs
<1>10. ASSUME NEW t \in Nat \ {0} PROVE InFlight(t)' <= InFlight(t)
  <2>1. Mine(t)' = Mine(t) + 0 BY <1>4, <1>6, Counted
  <2>2. m.token # t BY TakingTypes
  <2> QED BY <1>8, <2>1, <2>2, TakingCount, Counted
<1>11. Handed' /\ ActiveChainHasOneWorker'
  BY <1>1, <1>3, <1>7, <1>8, <1>10, NoneAdded, TakingTypes
<1>12. Phases' BY <1>1, <1>3 DEF Phases
<1>13. AutomaticChainIsForThePlayingOutput' BY <1>3 DEF AutomaticChainIsForThePlayingOutput
<1> QED BY <1>8, <1>9, <1>11, <1>12, <1>13

LEMMA ShutdownStep ==
  ASSUME IInv, NEW m, Taking(m), m.type = "shutdown", Shutdown
  PROVE  IInv'
<1> USE DEF IInv
<1> DEFINE op == Op("shutdown", 0)
<1>1. /\ ctl' = [Unchained(ctl) EXCEPT !.state = "stopped", !.known = 0, !.pending = "shutdown"]
      /\ Share(ctl')
      /\ urgent' = Append(urgent, op)
      /\ tokens' = tokens /\ regular' = regular /\ timers' = timers
      /\ unheard' = unheard /\ left' = left
  BY DEF Shutdown
<1>2. ctl \in Controls /\ tokens \in [token : Nat, out : Nat] BY DEF Shape
<1>3. /\ ctl' \in Controls /\ ctl'.token = 0 /\ ctl'.bound = 0 /\ ctl'.manual = FALSE
      /\ ctl'.state = "stopped" /\ ctl'.out = ctl.out /\ ctl'.known = 0
      /\ ctl'.pending = "shutdown"
  BY <1>1, <1>2 DEF Controls, Unchained
<1>4. op \in Ops /\ op.token = 0 /\ op.out = 0 BY OpType
<1> HIDE DEF op
<1>6. /\ urgent' \in Seq(Ops) /\ regular' \in Seq(Ops) /\ timers' \in Seq(Timers)
      /\ ToSet(urgent') = ToSet(urgent) \cup {op}
      /\ \A t : Mine(t)' = Mine(t) + (IF op.token = t THEN 1 ELSE 0)
  BY <1>1, <1>4, UrgentSent
<1>7. shared' \in [token : Nat, done : Nat] /\ shared'.token = 0
      /\ shared'.done \in 0 .. tokens.token
  BY <1>1, <1>3, SharedNext
<1>8. Shape' BY <1>1, <1>3, <1>6, <1>7, TakingTypes DEF Shape
<1>9. Outs' BY <1>1, <1>3, <1>4, <1>6, <1>8, <1>2, TakingOuts DEF Outs
<1>10. ASSUME NEW t \in Nat \ {0} PROVE InFlight(t)' <= InFlight(t)
  <2>1. Mine(t)' = Mine(t) + 0 BY <1>4, <1>6, Counted
  <2>2. m.token # t BY TakingTypes
  <2> QED BY <1>8, <2>1, <2>2, TakingCount, Counted
<1>11. Handed' /\ ActiveChainHasOneWorker'
  BY <1>1, <1>3, <1>7, <1>8, <1>10, NoneAdded, TakingTypes
<1>12. Phases' BY <1>1, <1>3 DEF Phases
<1>13. AutomaticChainIsForThePlayingOutput' BY <1>3 DEF AutomaticChainIsForThePlayingOutput
<1> QED BY <1>8, <1>9, <1>11, <1>12, <1>13

LEMMA SkipStep ==
  ASSUME IInv, NEW m, Taking(m), m.type = "skip", Skip
  PROVE  IInv'
<1> USE DEF IInv
<1> DEFINE op == Op("switch", tokens.out + 1)
<1>1. /\ \/ ctl' = ctl /\ tokens' = tokens /\ regular' = regular
         \/ /\ ctl.state # "stopped" /\ ctl.pending = "none"
            /\ tokens' = [tokens EXCEPT !.out = @ + 1] /\ regular' = Append(regular, op)
            /\ ctl' = [ctl EXCEPT !.pending = "skip"]
      /\ shared' = shared /\ urgent' = urgent /\ timers' = timers
      /\ unheard' = unheard /\ left' = left
  <2>1. tokens \in [token : Nat, out : Nat] BY DEF Shape
  <2> QED BY <2>1 DEF Skip
<1>2. ctl \in Controls /\ tokens \in [token : Nat, out : Nat] /\ tokens.out \in Nat BY DEF Shape
<1>3. /\ ctl' \in Controls /\ ctl'.token = ctl.token /\ ctl'.bound = ctl.bound
      /\ ctl'.manual = ctl.manual /\ ctl'.state = ctl.state /\ ctl'.out = ctl.out
      /\ ctl'.known = ctl.known /\ (ctl'.pending = ctl.pending \/ ctl'.pending = "skip")
      /\ ctl.pending = "shutdown" => ctl'.pending = "shutdown"
  BY <1>1, <1>2 DEF Controls
<1>4. op \in Ops /\ op.token = 0 /\ op.out = tokens.out + 1 /\ op.out \in Nat BY <1>2, OpType
<1> HIDE DEF op
<1>5. /\ tokens' \in [token : Nat, out : Nat] /\ tokens'.token = tokens.token
      /\ tokens.out <= tokens'.out
  BY <1>1, <1>2
<1>6. /\ urgent' \in Seq(Ops) /\ regular' \in Seq(Ops) /\ timers' \in Seq(Timers)
      /\ ToSet(regular') \subseteq ToSet(regular) \cup {op}
      /\ op \in ToSet(regular') => op \in ToSet(regular) \/ op.out <= tokens'.out
      /\ \A t \in Nat \ {0} : Mine(t)' = Mine(t)
  <2>1. CASE regular' = regular BY <1>1, <2>1, LanesKept
  <2>2. CASE regular' = Append(regular, op) /\ tokens' = [tokens EXCEPT !.out = @ + 1]
    <3>1. /\ urgent' \in Seq(Ops) /\ regular' \in Seq(Ops) /\ timers' \in Seq(Timers)
          /\ ToSet(regular') = ToSet(regular) \cup {op}
          /\ \A t : Mine(t)' = Mine(t) + (IF op.token = t THEN 1 ELSE 0)
      BY <1>1, <1>4, <2>2, RegularSent
    <3>2. \A t \in Nat \ {0} : Mine(t)' = Mine(t) BY <1>4, <3>1, Counted
    <3>3. op.out <= tokens'.out BY <1>2, <1>4, <2>2
    <3> QED BY <3>1, <3>2, <3>3
  <2> QED BY <1>1, <2>1, <2>2
<1>7. shared' \in [token : Nat, done : Nat] /\ shared'.token = ctl'.token
      /\ shared'.done \in 0 .. tokens.token
  BY <1>1, <1>3 DEF Shape, Handed
<1>8. Shape' BY <1>1, <1>3, <1>5, <1>6, <1>7, TakingTypes DEF Shape
<1>9. Outs'
  <2>1. {ctl'.out, ctl'.known, ctl'.bound} \subseteq 0 .. tokens'.out
    BY <1>2, <1>3, <1>5 DEF Outs
  <2>2. running'.out <= tokens'.out
    <3>1. running'.out <= tokens.out /\ running'.out \in Nat BY TakingTypes
    <3> QED BY <3>1, <1>2, <1>5
  <2>3. \A o \in ToSet(regular') : o \in ToSet(regular) \/ o.out <= tokens'.out BY <1>6
  <2> QED BY <1>1, <1>5, <1>8, <2>1, <2>2, <2>3, TakingOuts
<1>10. ASSUME NEW t \in Nat \ {0} PROVE InFlight(t)' = InFlight(t)
  <2>1. Mine(t)' = Mine(t) + 0 BY <1>6, Counted
  <2>2. m.token # t BY TakingTypes
  <2> QED BY <1>8, <2>1, <2>2, TakingCount, Counted
<1>11. Handed' /\ ActiveChainHasOneWorker'
  <2>1. \A t \in Nat \ {0} : InFlight(t)' <= InFlight(t) BY <1>10, Counted
  <2> QED BY <1>3, <1>5, <1>7, <1>8, <1>10, <2>1, NoneAdded, TakingTypes
<1>12. Phases' BY <1>1, <1>3 DEF Phases
<1>13. AutomaticChainIsForThePlayingOutput'
  BY <1>3 DEF AutomaticChainIsForThePlayingOutput
<1> QED BY <1>8, <1>9, <1>11, <1>12, <1>13

LEMMA StartStep ==
  ASSUME IInv, NEW m, Taking(m), m.type = "play", Play, ctl.state = "stopped"
  PROVE  IInv'
<1> USE DEF IInv
<1> DEFINE op == Op("start", tokens.out + 1)
<1>2. ctl \in Controls /\ tokens \in [token : Nat, out : Nat] /\ tokens.out \in Nat BY DEF Shape
<1>1. /\ \/ ctl' = ctl /\ tokens' = tokens /\ regular' = regular /\ shared' = shared
         \/ /\ ctl.pending = "none"
            /\ tokens' = [tokens EXCEPT !.out = @ + 1] /\ regular' = Append(regular, op)
            /\ ctl' = [NewIdentity(ctl, tokens.out + 1) EXCEPT !.pending = "play"]
            /\ Share(ctl')
      /\ urgent' = urgent /\ timers' = timers
      /\ unheard' = unheard /\ left' = left
  BY <1>2 DEF Play
<1>3. /\ ctl' \in Controls /\ (ctl' = ctl \/ (ctl'.token = 0 /\ ctl'.bound = 0 /\ ctl'.known = 0))
      /\ ctl'.state = "stopped" /\ ctl'.token \in {0, ctl.token}
      /\ ctl'.out = ctl.out \/ (ctl'.out = tokens.out + 1 /\ ctl'.out = tokens'.out)
      /\ (ctl'.pending = ctl.pending \/ (ctl'.pending = "play" /\ ctl.pending = "none"))
  <2>1. CASE ctl' = ctl /\ tokens' = tokens BY <1>2, <2>1
  <2>2. CASE /\ ctl.pending = "none" /\ tokens' = [tokens EXCEPT !.out = @ + 1]
             /\ ctl' = [NewIdentity(ctl, tokens.out + 1) EXCEPT !.pending = "play"]
    <3>1. tokens'.out = tokens.out + 1 /\ tokens.out + 1 \in Nat BY <1>2, <2>2
    <3>2. ctl' = [ctl EXCEPT !.token = 0, !.bound = 0, !.manual = FALSE, !.known = 0,
                             !.out = tokens.out + 1, !.pending = "play"]
      BY <1>2, <2>2 DEF Controls, NewIdentity, Unchained
    <3>3. /\ ctl' \in Controls /\ ctl'.token = 0 /\ ctl'.bound = 0 /\ ctl'.known = 0
          /\ ctl'.state = ctl.state /\ ctl'.out = tokens.out + 1 /\ ctl'.pending = "play"
      BY <1>2, <3>1, <3>2 DEF Controls
    <3> QED BY <2>2, <3>1, <3>3
  <2> QED BY <1>1, <2>1, <2>2
<1>4. op \in Ops /\ op.token = 0 /\ op.out = tokens.out + 1 /\ op.out \in Nat BY <1>2, OpType
<1> HIDE DEF op
<1>5. /\ tokens' \in [token : Nat, out : Nat] /\ tokens'.token = tokens.token
      /\ tokens.out <= tokens'.out
  BY <1>1, <1>2
<1>6. /\ urgent' \in Seq(Ops) /\ regular' \in Seq(Ops) /\ timers' \in Seq(Timers)
      /\ ToSet(regular') \subseteq ToSet(regular) \cup {op}
      /\ op \in ToSet(regular') => op \in ToSet(regular) \/ op.out <= tokens'.out
      /\ \A t \in Nat \ {0} : Mine(t)' = Mine(t)
  <2>1. CASE regular' = regular BY <1>1, <2>1, LanesKept
  <2>2. CASE regular' = Append(regular, op) /\ tokens' = [tokens EXCEPT !.out = @ + 1]
    <3>1. /\ urgent' \in Seq(Ops) /\ regular' \in Seq(Ops) /\ timers' \in Seq(Timers)
          /\ ToSet(regular') = ToSet(regular) \cup {op}
          /\ \A t : Mine(t)' = Mine(t) + (IF op.token = t THEN 1 ELSE 0)
      BY <1>1, <1>4, <2>2, RegularSent
    <3>2. \A t \in Nat \ {0} : Mine(t)' = Mine(t) BY <1>4, <3>1, Counted
    <3>3. op.out <= tokens'.out BY <1>2, <1>4, <2>2
    <3> QED BY <3>1, <3>2, <3>3
  <2> QED BY <1>1, <2>1, <2>2
<1>7. shared' \in [token : Nat, done : Nat] /\ shared'.token = ctl'.token
      /\ shared'.done \in 0 .. tokens.token
  <2>1. CASE Share(ctl') BY <1>3, <2>1, SharedNext
  <2>2. CASE ctl' = ctl /\ shared' = shared BY <2>2 DEF Shape, Handed
  <2> QED BY <1>1, <2>1, <2>2
<1>8. Shape' BY <1>1, <1>3, <1>5, <1>6, <1>7, TakingTypes DEF Shape
<1>9. Outs'
  <2>1. {ctl'.out, ctl'.known, ctl'.bound} \subseteq 0 .. tokens'.out
    BY <1>2, <1>3, <1>5 DEF Outs
  <2>2. running'.out <= tokens'.out
    <3>1. running'.out <= tokens.out /\ running'.out \in Nat BY TakingTypes
    <3> QED BY <3>1, <1>2, <1>5
  <2>3. \A o \in ToSet(regular') : o \in ToSet(regular) \/ o.out <= tokens'.out BY <1>6
  <2> QED BY <1>1, <1>5, <1>8, <2>1, <2>2, <2>3, TakingOuts
<1>10. ASSUME NEW t \in Nat \ {0} PROVE InFlight(t)' = InFlight(t)
  <2>1. Mine(t)' = Mine(t) + 0 BY <1>6, Counted
  <2>2. m.token # t BY TakingTypes
  <2> QED BY <1>8, <2>1, <2>2, TakingCount, Counted
<1>11. Handed' /\ ActiveChainHasOneWorker'
  <2>1. \A t \in Nat \ {0} : InFlight(t)' <= InFlight(t) BY <1>10, Counted
  <2> QED BY <1>3, <1>5, <1>7, <1>8, <1>10, <2>1, NoneAdded, TakingTypes
<1>12. Phases' BY <1>1, <1>3 DEF Phases
<1>13. AutomaticChainIsForThePlayingOutput'
  BY <1>3 DEF AutomaticChainIsForThePlayingOutput
<1> QED BY <1>8, <1>9, <1>11, <1>12, <1>13

(* The channel has as many messages of every chain as before.              *)
ChannelKept == \A t \in Nat \ {0} : Behind(commands', t) = Behind(commands, t)

(* The controller begins a chain for a playing station: shared by Play and *)
(* by the break of the output.                                             *)
LEMMA ChainBegins ==
  ASSUME IInv, Alive,
         NEW c \in Controls, NEW lane \in {"urgent", "regular"}, BeginChain(c, lane),
         c.state = "playing", c.pending = ctl.pending, c.pending # "play", c.out = ctl.out,
         c.known \in {ctl.known, ctl.out}, unheard' \in Reasons,
         running' = running, results' = results, pipe' = pipe,
         commands' \in Seq(Msgs), Len(commands') <= Capacity, events' \in Seq(Nat),
         ToSet(commands') \subseteq ToSet(commands),
         ChannelKept
  PROVE  IInv'
<1> USE DEF IInv
<1>1. /\ ctl' = [c EXCEPT !.token = tokens.token + 1, !.bound = c.out, !.manual = FALSE]
      /\ tokens' = [tokens EXCEPT !.token = tokens.token + 1]
      /\ shared' = [token |-> tokens.token + 1, done |-> 0]
      /\ urgent' \in Seq(Ops) /\ regular' \in Seq(Ops) /\ timers' \in Seq(Timers)
      /\ left' \in [commands : Nat, drops : Nat, faults : Nat]
      /\ \A op \in ToSet(urgent') : \/ op \in ToSet(urgent)
                                    \/ op.out = c.out /\ op.type = "reconnect"
      /\ \A op \in ToSet(regular') : op \in ToSet(regular) \/ op.out = c.out
      /\ \A tm \in ToSet(timers') : tm \in ToSet(timers) \/ tm.out = c.out
      /\ \A t \in Nat \ {0} :
           Mine(t)' = Mine(t) + (IF t = tokens.token + 1 THEN 1 ELSE 0)
  BY BeginEffect
<1>2. tokens \in [token : Nat, out : Nat] /\ tokens.token \in Nat /\ tokens.out \in Nat BY DEF Shape
<1>3. /\ ctl' \in Controls /\ ctl'.token = tokens.token + 1 /\ ctl'.bound = ctl.out
      /\ ctl'.out = ctl.out /\ ctl'.manual = FALSE /\ ctl'.state = "playing"
      /\ ctl'.pending = ctl.pending /\ ctl'.known \in {ctl.known, ctl.out}
  <2>1. ctl' = [c EXCEPT !.token = tokens.token + 1, !.bound = c.out, !.manual = FALSE]
    BY <1>1
  <2>2. tokens.token + 1 \in Nat /\ c.out \in Nat BY <1>2 DEF Controls
  <2>3. /\ ctl' \in Controls /\ ctl'.token = tokens.token + 1 /\ ctl'.bound = c.out
        /\ ctl'.out = c.out /\ ctl'.manual = FALSE /\ ctl'.state = c.state
        /\ ctl'.pending = c.pending /\ ctl'.known = c.known
    BY <2>1, <2>2 DEF Controls
  <2> QED BY <2>3
<1>4. /\ tokens' \in [token : Nat, out : Nat] /\ tokens'.token = tokens.token + 1
      /\ tokens'.out = tokens.out
      /\ shared' \in [token : Nat, done : Nat] /\ shared'.token = tokens.token + 1
  <2>1. tokens' = [tokens EXCEPT !.token = tokens.token + 1] BY <1>1
  <2>2. shared' = [token |-> tokens.token + 1, done |-> 0] BY <1>1
  <2>3. tokens.token + 1 \in Nat /\ 0 \in Nat BY <1>2
  <2>4. tokens = [token |-> tokens.token, out |-> tokens.out] BY <1>2
  <2>5. tokens' = [token |-> tokens.token + 1, out |-> tokens.out] BY <2>1, <2>4
  <2> QED BY <1>2, <2>2, <2>3, <2>5
<1>5. Shape' BY <1>1, <1>3, <1>4 DEF Shape
<1>6. c.out <= tokens'.out /\ {ctl'.out, ctl'.known, ctl'.bound} \subseteq 0 .. tokens'.out
  BY <1>3, <1>4 DEF Outs
<1>7. Outs'
  <2>1. running'.out <= tokens'.out BY <1>4 DEF Outs
  <2>2. tokens.out <= tokens'.out BY <1>2, <1>4
  <2> QED BY <1>1, <1>5, <1>6, <2>1, <2>2, OutsKept
<1>8. ASSUME NEW t \in Nat \ {0}
      PROVE  InFlight(t)' = InFlight(t) + (IF t = tokens.token + 1 THEN 1 ELSE 0)
  <2>1. Mine(t)' = Mine(t) + (IF t = tokens.token + 1 THEN 1 ELSE 0) BY <1>1
  <2>2. Run(t)' = Run(t) /\ Behind(commands', t) = Behind(commands, t) BY DEF Run, ChannelKept
  <2>3. /\ InFlight(t) = Mine(t) + Behind(commands, t) + Run(t)
        /\ Mine(t) \in Nat /\ Behind(commands, t) \in Nat /\ Run(t) \in Nat
    <3>1. Shape OBVIOUS
    <3> QED BY <3>1, Counted
  <2>4. InFlight(t)' = Mine(t)' + Behind(commands', t) + Run(t)' BY <1>5, CountedNext
  <2> QED BY <2>1, <2>2, <2>3, <2>4
<1>9. Handed' /\ ActiveChainHasOneWorker'
  BY <1>1, <1>3, <1>4, <1>5, <1>8, OneBegun
<1>10. Phases' BY <1>1, <1>3 DEF Phases, Alive
<1>11. AutomaticChainIsForThePlayingOutput' BY <1>3 DEF AutomaticChainIsForThePlayingOutput
<1> QED BY <1>5, <1>7, <1>9, <1>10, <1>11

LEMMA ResumeStep ==
  ASSUME IInv, NEW m, Taking(m), m.type = "play", Play, ctl.state # "stopped"
  PROVE  IInv'
<1> USE DEF IInv
<1> DEFINE c == [ctl EXCEPT !.state = "playing"]
           chain == c.known = c.out /\ c.known # 0 /\ ~ Covered
           op == Op("resume", c.out)
<1>1. /\ IF chain THEN BeginChain(c, "regular")
         ELSE /\ ctl' = c /\ regular' = Append(regular, op)
              /\ tokens' = tokens /\ shared' = shared /\ urgent' = urgent
              /\ timers' = timers /\ left' = left
      /\ unheard' = IF chain THEN Lost("no") ELSE unheard
  BY DEF Play
<1>2. ctl \in Controls /\ tokens \in [token : Nat, out : Nat] /\ unheard \in Reasons BY DEF Shape
<1>3. /\ c \in Controls /\ c.state = "playing" /\ c.pending = ctl.pending /\ c.out = ctl.out
      /\ c.known = ctl.known /\ c.token = ctl.token /\ c.bound = ctl.bound
      /\ c.manual = ctl.manual /\ c.out \in Nat
  BY <1>2 DEF Controls
<1>4. op \in Ops /\ op.token = 0 /\ op.out = c.out BY <1>3, OpType
<1>5. c.pending # "play" BY <1>3 DEF Phases
<1>6. unheard' \in Reasons BY <1>1, <1>2 DEF Lost, Reasons
<1> HIDE DEF op, c, chain
<1>7. CASE chain
  <2>1. BeginChain(c, "regular") BY <1>1, <1>7
  <2>2. ChannelKept
    <3> SUFFICES ASSUME NEW t \in Nat \ {0} PROVE Behind(commands', t) = Behind(commands, t)
      BY DEF ChannelKept
    <3>1. m.token = 0 /\ commands' \in Seq(Msgs) BY TakingTypes
    <3>2. Behind(commands, t) = Behind(commands', t) + (IF m.token = t THEN 1 ELSE 0)
      BY TakingTypes
    <3>3. Behind(commands', t) \in Nat BY <3>1, BehindType
    <3> QED BY <3>1, <3>2, <3>3
  <2>3. Alive /\ running' = running /\ results' = results /\ pipe' = pipe BY DEF Taking
  <2> QED BY <1>3, <1>5, <1>6, <2>1, <2>2, <2>3, ChainBegins, TakingTypes
<1>8. CASE ~ chain
  <2>1. /\ ctl' = c /\ regular' = Append(regular, op)
        /\ tokens' = tokens /\ shared' = shared /\ urgent' = urgent
        /\ timers' = timers /\ left' = left /\ unheard' = unheard
    BY <1>1, <1>8
  <2>2. /\ urgent' \in Seq(Ops) /\ regular' \in Seq(Ops) /\ timers' \in Seq(Timers)
        /\ ToSet(regular') = ToSet(regular) \cup {op}
        /\ \A t : Mine(t)' = Mine(t) + (IF op.token = t THEN 1 ELSE 0)
    BY <1>4, <2>1, RegularSent
  <2>3. shared' \in [token : Nat, done : Nat] /\ shared'.token = ctl'.token
        /\ shared'.done \in 0 .. tokens.token
    BY <1>3, <2>1 DEF Shape, Handed
  <2>4. Shape' BY <1>3, <2>1, <2>2, <2>3, TakingTypes DEF Shape
  <2>5. Outs'
    BY <1>2, <1>3, <1>4, <2>1, <2>2, <2>4, TakingOuts DEF Outs
  <2>6. ASSUME NEW t \in Nat \ {0} PROVE InFlight(t)' = InFlight(t)
    <3>1. Mine(t)' = Mine(t) + 0 BY <1>4, <2>2, Counted
    <3>2. m.token # t BY TakingTypes
    <3> QED BY <2>4, <3>1, <3>2, TakingCount, Counted
  <2>7. Handed' /\ ActiveChainHasOneWorker'
    <3>1. \A t \in Nat \ {0} : InFlight(t)' <= InFlight(t) BY <2>6, Counted
    <3>2. tokens'.token = tokens.token /\ ctl'.token = ctl.token BY <1>3, <2>1
    <3> QED BY <2>3, <2>4, <2>6, <3>1, <3>2, NoneAdded, TakingTypes
  <2>8. Phases' BY <1>3, <1>5, <2>1 DEF Phases
  <2>9. AutomaticChainIsForThePlayingOutput'
    BY <1>3, <2>1 DEF AutomaticChainIsForThePlayingOutput
  <2> QED BY <2>4, <2>5, <2>7, <2>8, <2>9
<1> QED BY <1>7, <1>8

LEMMA ManualStep ==
  ASSUME IInv, NEW m, Taking(m), m.type = "reconnect", ManualReconnect
  PROVE  IInv'
<1>0. Shape /\ Outs /\ Handed BY DEF IInv
<1> DEFINE op == ReconnectOp(tokens.token + 1, ctl.out, TRUE)
<1>1. \/ /\ tokens' = [tokens EXCEPT !.token = tokens.token + 1]
         /\ ctl' = [ctl EXCEPT !.token = tokens.token + 1, !.bound = ctl.out, !.manual = TRUE]
         /\ shared' = [token |-> tokens.token + 1, done |-> 0]
         /\ regular' = Append(regular, op)
         /\ urgent' = urgent /\ timers' = timers /\ unheard' = unheard /\ left' = left
      \/ /\ left.faults > 0 /\ left' = [left EXCEPT !.faults = @ - 1]
         /\ ctl' = ctl /\ tokens' = tokens /\ shared' = shared /\ urgent' = urgent
         /\ regular' = regular /\ timers' = timers /\ unheard' = unheard
  BY DEF ManualReconnect, Spend
<1>2. /\ ctl \in Controls /\ tokens \in [token : Nat, out : Nat] /\ unheard \in Reasons
      /\ left \in [commands : Nat, drops : Nat, faults : Nat] /\ tokens.token + 1 \in Nat
      /\ tokens.out \in Nat
  BY <1>0 DEF Shape
<1>3. m.token = 0 BY <1>0, TakingTypes
<1>4. op \in Ops /\ op.token = tokens.token + 1 /\ op.out = ctl.out /\ ctl.out \in Nat
  <2>1. ctl.out \in Nat BY <1>2 DEF Controls
  <2> DEFINE n == tokens.token + 1
             o == ctl.out
  <2>2. n \in Nat /\ o \in Nat BY <1>2, <2>1
  <2> HIDE DEF n, o
  <2>3. /\ ReconnectOp(n, o, TRUE) \in Ops /\ ReconnectOp(n, o, TRUE).token = n
        /\ ReconnectOp(n, o, TRUE).out = o
    BY <2>2, ReconnectOpType
  <2> QED BY <2>1, <2>3 DEF n, o
<1> HIDE DEF op
<1>5. CASE /\ tokens' = [tokens EXCEPT !.token = tokens.token + 1]
           /\ ctl' = [ctl EXCEPT !.token = tokens.token + 1, !.bound = ctl.out, !.manual = TRUE]
           /\ shared' = [token |-> tokens.token + 1, done |-> 0]
           /\ regular' = Append(regular, op)
           /\ urgent' = urgent /\ timers' = timers /\ unheard' = unheard /\ left' = left
  <2>1. /\ ctl' \in Controls /\ ctl'.token = tokens.token + 1 /\ ctl'.bound = ctl.out
        /\ ctl'.out = ctl.out /\ ctl'.manual = TRUE /\ ctl'.state = ctl.state
        /\ ctl'.pending = ctl.pending /\ ctl'.known = ctl.known
    BY <1>2, <1>4, <1>5 DEF Controls
  <2>2. /\ urgent' \in Seq(Ops) /\ regular' \in Seq(Ops) /\ timers' \in Seq(Timers)
        /\ ToSet(regular') = ToSet(regular) \cup {op}
        /\ \A t : Mine(t)' = Mine(t) + (IF op.token = t THEN 1 ELSE 0)
    BY <1>0, <1>4, <1>5, RegularSent
  <2>3. /\ tokens' \in [token : Nat, out : Nat] /\ tokens'.token = tokens.token + 1
        /\ tokens'.out = tokens.out
        /\ shared' \in [token : Nat, done : Nat] /\ shared'.token = tokens.token + 1
    BY <1>2, <1>5
  <2>4. Shape' BY <1>0, <1>2, <1>5, <2>1, <2>2, <2>3, TakingTypes DEF Shape
  <2>5. Outs'
    <3>1. {ctl'.out, ctl'.known, ctl'.bound} \subseteq 0 .. tokens'.out /\ op.out <= tokens'.out
      BY <1>0, <1>4, <2>1, <2>3 DEF Outs
    <3>2. running'.out <= tokens'.out /\ tokens.out <= tokens'.out
      BY <1>0, <1>2, <2>3, TakingTypes
    <3> QED BY <1>0, <1>5, <2>2, <2>4, <3>1, <3>2, TakingOuts
  <2>6. ASSUME NEW t \in Nat \ {0}
        PROVE  InFlight(t)' = InFlight(t) + (IF t = tokens.token + 1 THEN 1 ELSE 0)
    <3> DEFINE k == IF t = tokens.token + 1 THEN 1 ELSE 0
    <3>1. Mine(t)' = Mine(t) + k BY <1>4, <2>2
    <3>2. k \in Nat OBVIOUS
    <3> HIDE DEF k
    <3>3. InFlight(t)' = InFlight(t) + k - (IF m.token = t THEN 1 ELSE 0)
      BY <1>0, <2>4, <3>1, <3>2, TakingCount
    <3>4. InFlight(t) \in Nat BY <1>0, Counted
    <3>5. InFlight(t)' = InFlight(t) + k BY <1>3, <3>2, <3>3, <3>4
    <3> QED BY <3>5 DEF k
  <2>7. Handed' /\ ActiveChainHasOneWorker'
    BY <1>0, <1>5, <2>1, <2>3, <2>4, <2>6, OneBegun, TakingTypes
  <2>8. Phases' BY <1>5, <2>1 DEF Phases, IInv, Taking, Alive
  <2>9. AutomaticChainIsForThePlayingOutput'
    BY <2>1 DEF AutomaticChainIsForThePlayingOutput
  <2> QED BY <2>4, <2>5, <2>7, <2>8, <2>9 DEF IInv
<1>6. CASE /\ left.faults > 0 /\ left' = [left EXCEPT !.faults = @ - 1]
           /\ ctl' = ctl /\ tokens' = tokens /\ shared' = shared /\ urgent' = urgent
           /\ regular' = regular /\ timers' = timers /\ unheard' = unheard
  <2>1. left' \in [commands : Nat, drops : Nat, faults : Nat] BY <1>2, <1>6
  <2>2. Shape' BY <1>0, <1>6, <2>1, TakingTypes DEF Shape
  <2>3. Outs' BY <1>0, <1>2, <1>6, <2>2, TakingOuts DEF Outs
  <2>4. ASSUME NEW t \in Nat \ {0} PROVE InFlight(t)' = InFlight(t)
    <3>1. Mine(t)' = Mine(t) + 0 BY <1>0, <1>6, LanesKept, Counted
    <3> QED BY <1>0, <1>3, <2>2, <3>1, TakingCount, Counted
  <2>5. Handed' /\ ActiveChainHasOneWorker'
    <3>1. \A t \in Nat \ {0} : InFlight(t)' <= InFlight(t) BY <1>0, <2>4, Counted
    <3>2. shared'.token = ctl'.token /\ shared'.done \in 0 .. tokens.token
      BY <1>0, <1>6 DEF Handed
    <3> QED BY <1>0, <1>6, <2>2, <2>4, <3>1, <3>2, NoneAdded, TakingTypes DEF IInv
  <2>6. Phases' BY <1>6 DEF Phases, IInv
  <2>7. AutomaticChainIsForThePlayingOutput'
    BY <1>6 DEF AutomaticChainIsForThePlayingOutput, IInv
  <2> QED BY <2>2, <2>3, <2>5, <2>6, <2>7 DEF IInv
<1> QED BY <1>1, <1>5, <1>6

(* A message of a chain is the last of it, unless the chain goes on.       *)
LEMMA ChainEnds ==
  ASSUME IInv, NEW m, Taking(m), UNCHANGED <<tokens, urgent, regular, timers, left>>,
         unheard' \in Reasons, Share(ctl'),
         \/ ctl' = ctl /\ (m.token # ctl.token \/ m.token = 0)
         \/ /\ ctl' \in Controls /\ ctl'.token = 0 /\ ctl'.out \in 0 .. tokens.out
            /\ ctl'.known \in 0 .. tokens.out /\ ctl'.bound \in 0 .. tokens.out
            /\ ctl'.state = ctl.state /\ ctl'.pending = ctl.pending
  PROVE  IInv'
<1>0. Shape /\ Outs /\ Handed BY DEF IInv
<1>1. /\ ctl \in Controls /\ tokens \in [token : Nat, out : Nat] /\ tokens.out \in Nat
      /\ left \in [commands : Nat, drops : Nat, faults : Nat] /\ ctl.token \in Nat
  BY <1>0 DEF Shape, Controls
<1>2. ctl' \in Controls /\ ctl'.token \in {0, ctl.token}
      /\ ctl'.state = ctl.state /\ ctl'.pending = ctl.pending
  BY <1>1
<1>3. shared' \in [token : Nat, done : Nat] /\ shared'.token = ctl'.token
      /\ shared'.done \in 0 .. tokens.token
  BY <1>0, <1>2, SharedNext
<1>4. Shape' BY <1>0, <1>1, <1>2, <1>3, TakingTypes, LanesKept DEF Shape
<1>5. Outs' BY <1>0, <1>1, <1>4, TakingOuts DEF Outs
<1>6. ASSUME NEW t \in Nat \ {0}
      PROVE  InFlight(t)' = InFlight(t) - (IF m.token = t THEN 1 ELSE 0)
  <2>1. Mine(t)' = Mine(t) + 0 BY <1>0, LanesKept, Counted
  <2>2. InFlight(t)' = InFlight(t) + 0 - (IF m.token = t THEN 1 ELSE 0)
    BY <1>0, <1>4, <2>1, TakingCount
  <2> QED BY <1>0, <2>2, Counted
<1>7. \A t \in Nat \ {0} : InFlight(t)' <= InFlight(t) BY <1>0, <1>6, Counted
<1>8. CASE ctl' = ctl /\ (m.token # ctl.token \/ m.token = 0)
  <2>1. \A t \in Nat \ {0} : t = ctl.token => InFlight(t)' = InFlight(t)
    BY <1>0, <1>6, <1>8, Counted
  <2>2. Handed' /\ ActiveChainHasOneWorker'
    BY <1>0, <1>3, <1>4, <1>7, <1>8, <2>1, NoneAdded, TakingTypes DEF IInv
  <2>3. Phases' BY <1>8 DEF Phases, IInv
  <2>4. AutomaticChainIsForThePlayingOutput'
    BY <1>8 DEF AutomaticChainIsForThePlayingOutput, IInv
  <2> QED BY <1>4, <1>5, <2>2, <2>3, <2>4 DEF IInv
<1>9. CASE ctl'.token = 0
  <2>2. Handed' /\ ActiveChainHasOneWorker'
    BY <1>0, <1>3, <1>4, <1>7, <1>9, NoneAdded, TakingTypes DEF IInv
  <2>3. Phases' BY <1>2, <1>9 DEF Phases, IInv
  <2>4. AutomaticChainIsForThePlayingOutput'
    BY <1>9 DEF AutomaticChainIsForThePlayingOutput
  <2> QED BY <1>4, <1>5, <2>2, <2>3, <2>4 DEF IInv
<1> QED BY <1>8, <1>9

LEMMA EndOfChain ==
  ASSUME Shape, Outs, NEW n, ctl.token = n
  PROVE  /\ EndChain(ctl, n) = Unchained(ctl)
         /\ \A c \in {EndChain(ctl, n), Succeeded(ctl, n)} :
              /\ c \in Controls /\ c.token = 0 /\ c.out \in 0 .. tokens.out
              /\ c.known \in 0 .. tokens.out /\ c.bound \in 0 .. tokens.out
              /\ c.state = ctl.state /\ c.pending = ctl.pending
<1>1. ctl \in Controls /\ tokens.out \in Nat BY DEF Shape
<1>2. ctl.out \in 0 .. tokens.out /\ ctl.known \in 0 .. tokens.out BY DEF Outs
<1> DEFINE c == Unchained(ctl)
           known == IF ctl.known = c.bound THEN 0 ELSE ctl.known
<1>3. /\ c \in Controls /\ c.token = 0 /\ c.out = ctl.out /\ c.known = ctl.known
      /\ c.bound = 0 /\ c.state = ctl.state /\ c.pending = ctl.pending
  BY <1>1 DEF Unchained, Controls
<1>4. EndChain(ctl, n) = c BY DEF EndChain
<1>5. Succeeded(ctl, n) = [c EXCEPT !.known = IF c.known = ctl.bound THEN 0 ELSE c.known]
  BY <1>1, <1>3 DEF Succeeded, Controls
<1> HIDE DEF c
<1>6. LET d == Succeeded(ctl, n)
      IN  /\ d \in Controls /\ d.token = 0 /\ d.out = ctl.out /\ d.known \in {0, ctl.known}
          /\ d.bound = 0 /\ d.state = ctl.state /\ d.pending = ctl.pending
  BY <1>3, <1>5 DEF Controls
<1>7. 0 \in 0 .. tokens.out BY <1>1
<1> QED BY <1>2, <1>3, <1>4, <1>6, <1>7 DEF c

LEMMA FinishedStep ==
  ASSUME IInv, NEW m, Taking(m), m.type = "finished", ReconnectFinished(m)
  PROVE  IInv'
<1>0. Shape /\ Outs /\ Handed BY DEF IInv
<1>1. /\ ctl' = IF m.ok THEN Succeeded(ctl, m.token) ELSE EndChain(ctl, m.token)
      /\ Share(ctl') /\ UNCHANGED <<tokens, urgent, regular, timers, left>>
  BY DEF ReconnectFinished
<1>2. unheard' \in Reasons
  BY <1>0 DEF ReconnectFinished, Lost, Shape, Reasons
<1>3. CASE m.token # ctl.token
  <2>1. ctl' = ctl BY <1>1, <1>3 DEF Succeeded, EndChain
  <2> QED BY <1>1, <1>2, <1>3, <2>1, ChainEnds
<1>4. CASE m.token = ctl.token
  <2>1. /\ ctl' \in Controls /\ ctl'.token = 0 /\ ctl'.out \in 0 .. tokens.out
        /\ ctl'.known \in 0 .. tokens.out /\ ctl'.bound \in 0 .. tokens.out
        /\ ctl'.state = ctl.state /\ ctl'.pending = ctl.pending
    BY <1>0, <1>1, <1>4, EndOfChain
  <2> QED BY <1>1, <1>2, <2>1, ChainEnds
<1> QED BY <1>3, <1>4

LEMMA RetryStep ==
  ASSUME IInv, NEW m, Taking(m), m.type = "retry", RetryReconnect(m)
  PROVE  IInv'
<1>0. Shape /\ Outs /\ Handed BY DEF IInv
<1> DEFINE op == ReconnectOp(m.token, m.out, FALSE)
           tm == [token |-> m.token, out |-> m.out]
<1>1. \/ /\ ctl' = EndChain(ctl, m.token) /\ Share(ctl')
         /\ UNCHANGED <<tokens, urgent, regular, timers, unheard, left>>
      \/ /\ m.token = ctl.token
         /\ ctl' = ctl /\ tokens' = tokens /\ shared' = shared /\ urgent' = urgent
         /\ unheard' = unheard
         /\ \/ regular' = Append(regular, op) /\ timers' = timers /\ left' = left
            \/ /\ timers' = Append(timers, tm) /\ regular' = regular
               /\ left.faults > 0 /\ left' = [left EXCEPT !.faults = @ - 1]
  BY DEF RetryReconnect, Spend
<1>2. m.token \in Nat /\ m.out \in Nat /\ m.out <= tokens.out BY <1>0, TakingTypes
<1>3. op \in Ops /\ op.token = m.token /\ op.out = m.out BY <1>2 DEF ReconnectOp, Ops
<1>4. tm \in Timers /\ tm.token = m.token /\ tm.out = m.out BY <1>2 DEF Timers
<1> HIDE DEF op, tm
<1>5. CASE /\ ctl' = EndChain(ctl, m.token) /\ Share(ctl')
           /\ UNCHANGED <<tokens, urgent, regular, timers, unheard, left>>
  <2>1. unheard' \in Reasons BY <1>0, <1>5 DEF Shape
  <2>2. CASE m.token # ctl.token
    <3>1. ctl' = ctl BY <1>5, <2>2 DEF EndChain
    <3> QED BY <1>5, <2>1, <2>2, <3>1, ChainEnds
  <2>3. CASE m.token = ctl.token
    <3>1. /\ ctl' \in Controls /\ ctl'.token = 0 /\ ctl'.out \in 0 .. tokens.out
          /\ ctl'.known \in 0 .. tokens.out /\ ctl'.bound \in 0 .. tokens.out
          /\ ctl'.state = ctl.state /\ ctl'.pending = ctl.pending
      BY <1>0, <1>5, <2>3, EndOfChain
    <3> QED BY <1>5, <2>1, <3>1, ChainEnds
  <2> QED BY <2>2, <2>3
<1>6. CASE /\ m.token = ctl.token
           /\ ctl' = ctl /\ tokens' = tokens /\ shared' = shared /\ urgent' = urgent
           /\ unheard' = unheard
           /\ \/ regular' = Append(regular, op) /\ timers' = timers /\ left' = left
              \/ /\ timers' = Append(timers, tm) /\ regular' = regular
                 /\ left.faults > 0 /\ left' = [left EXCEPT !.faults = @ - 1]
  <2>1. /\ urgent' \in Seq(Ops) /\ regular' \in Seq(Ops) /\ timers' \in Seq(Timers)
        /\ ToSet(regular') \subseteq ToSet(regular) \cup {op}
        /\ ToSet(timers') \subseteq ToSet(timers) \cup {tm}
        /\ \A t : Mine(t)' = Mine(t) + (IF m.token = t THEN 1 ELSE 0)
    <3>1. CASE regular' = Append(regular, op) /\ timers' = timers
      BY <1>0, <1>3, <1>6, <3>1, RegularSent
    <3>2. CASE timers' = Append(timers, tm) /\ regular' = regular
      BY <1>0, <1>4, <1>6, <3>2, TimerSet
    <3> QED BY <1>6, <3>1, <3>2
  <2>2. left' \in [commands : Nat, drops : Nat, faults : Nat]
    <3>1. left \in [commands : Nat, drops : Nat, faults : Nat] BY <1>0 DEF Shape
    <3> QED BY <1>6, <3>1
  <2>3. Shape' BY <1>0, <1>6, <2>1, <2>2, TakingTypes DEF Shape
  <2>4. Outs'
    <3>1. tokens.out \in Nat /\ tokens.out <= tokens'.out BY <1>0, <1>6 DEF Shape
    <3>2. {ctl'.out, ctl'.known, ctl'.bound} \subseteq 0 .. tokens'.out
      BY <1>0, <1>6 DEF Outs
    <3> QED BY <1>0, <1>2, <1>3, <1>4, <1>6, <2>1, <2>3, <3>1, <3>2, TakingOuts
  <2>5. ASSUME NEW t \in Nat \ {0} PROVE InFlight(t)' = InFlight(t)
    <3> DEFINE k == IF m.token = t THEN 1 ELSE 0
    <3>1. Mine(t)' = Mine(t) + k BY <2>1
    <3>2. k \in Nat OBVIOUS
    <3>3. InFlight(t)' = InFlight(t) + k - k
      <4> HIDE DEF k
      <4>1. InFlight(t)' = InFlight(t) + k - (IF m.token = t THEN 1 ELSE 0)
        BY <1>0, <2>3, <3>1, <3>2, TakingCount
      <4> QED BY <4>1 DEF k
    <3>4. InFlight(t) \in Nat BY <1>0, Counted
    <3> HIDE DEF k
    <3> QED BY <3>2, <3>3, <3>4
  <2>6. Handed' /\ ActiveChainHasOneWorker'
    <3>1. \A t \in Nat \ {0} : InFlight(t)' <= InFlight(t) BY <1>0, <2>5, Counted
    <3>2. shared'.token = ctl'.token /\ shared'.done \in 0 .. tokens.token
      BY <1>0, <1>6 DEF Handed
    <3> QED BY <1>0, <1>6, <2>3, <2>5, <3>1, <3>2, NoneAdded, TakingTypes DEF IInv
  <2>7. Phases' BY <1>6 DEF Phases, IInv
  <2>8. AutomaticChainIsForThePlayingOutput'
    BY <1>6 DEF AutomaticChainIsForThePlayingOutput, IInv
  <2> QED BY <2>3, <2>4, <2>6, <2>7, <2>8 DEF IInv
<1> QED BY <1>1, <1>5, <1>6

LEMMA PlayResultStep ==
  ASSUME IInv, NEW m, Taking(m), m.type = "played", PlayResult(m)
  PROVE  IInv'
<1>0. Shape /\ Outs /\ Handed BY DEF IInv
<1>1. /\ ctl' = IF ctl.pending # "play" THEN ctl
                ELSE [ctl EXCEPT !.pending = "none",
                                 !.state = IF m.ok THEN "playing" ELSE "stopped"]
      /\ tokens' = tokens /\ shared' = shared /\ urgent' = urgent /\ regular' = regular
      /\ timers' = timers /\ left' = left
  BY DEF PlayResult
<1>2. unheard' \in Reasons
  BY <1>0 DEF PlayResult, Broken, Lost, Shape, Reasons
<1>3. /\ ctl \in Controls /\ tokens.out \in Nat BY <1>0 DEF Shape
<1>4. /\ ctl' \in Controls /\ ctl'.token = ctl.token /\ ctl'.bound = ctl.bound
      /\ ctl'.manual = ctl.manual /\ ctl'.out = ctl.out /\ ctl'.known = ctl.known
      /\ ctl.pending # "play" => ctl' = ctl
      /\ ctl.pending = "play" => ctl'.pending = "none"
  BY <1>1, <1>3 DEF Controls
<1>5. Shape' BY <1>0, <1>1, <1>2, <1>4, TakingTypes, LanesKept DEF Shape
<1>6. Outs'
  <2>1. {ctl'.out, ctl'.known, ctl'.bound} \subseteq 0 .. tokens'.out
    BY <1>0, <1>1, <1>4 DEF Outs
  <2> QED BY <1>0, <1>1, <1>3, <1>5, <2>1, TakingOuts
<1>7. ASSUME NEW t \in Nat \ {0} PROVE InFlight(t)' = InFlight(t)
  <2>1. Mine(t)' = Mine(t) + 0 BY <1>0, <1>1, LanesKept, Counted
  <2>2. m.token # t BY <1>0, TakingTypes
  <2> QED BY <1>0, <1>5, <2>1, <2>2, TakingCount, Counted
<1>8. Handed' /\ ActiveChainHasOneWorker'
  <2>1. \A t \in Nat \ {0} : InFlight(t)' <= InFlight(t) BY <1>0, <1>7, Counted
  <2>2. shared'.token = ctl'.token /\ shared'.done \in 0 .. tokens.token
    BY <1>0, <1>1, <1>4 DEF Handed
  <2> QED BY <1>0, <1>1, <1>4, <1>5, <1>7, <2>1, <2>2, NoneAdded, TakingTypes DEF IInv
<1>9. Phases'
  <2>1. Phases BY DEF IInv
  <2>2. CASE ctl.pending # "play" BY <1>1, <1>4, <2>1, <2>2 DEF Phases
  <2>3. CASE ctl.pending = "play" BY <1>1, <1>4, <2>1, <2>3 DEF Phases
  <2> QED BY <2>2, <2>3
<1>10. AutomaticChainIsForThePlayingOutput'
  <2>1. AutomaticChainIsForThePlayingOutput /\ Phases BY DEF IInv
  <2>2. CASE ctl.pending # "play"
    BY <1>4, <2>1, <2>2 DEF AutomaticChainIsForThePlayingOutput
  <2>3. CASE ctl.pending = "play"
    <3>1. ctl.state = "stopped" BY <2>1, <2>3 DEF Phases
    <3> QED BY <1>4, <2>1, <3>1 DEF AutomaticChainIsForThePlayingOutput
  <2> QED BY <2>2, <2>3
<1> QED BY <1>5, <1>6, <1>8, <1>9, <1>10 DEF IInv

LEMMA SkipResultStep ==
  ASSUME IInv, NEW m, Taking(m), m.type = "skipped", SkipResult(m)
  PROVE  IInv'
<1>0. Shape /\ Outs /\ Handed BY DEF IInv
<1>1. /\ ctl' = IF ctl.pending # "skip" THEN ctl
                ELSE IF m.ok THEN [NewIdentity(ctl, m.out) EXCEPT !.pending = "none"]
                ELSE [ctl EXCEPT !.pending = "none"]
      /\ tokens' = tokens /\ Share(ctl') /\ urgent' = urgent /\ regular' = regular
      /\ timers' = timers /\ left' = left
  BY DEF SkipResult
<1>2. unheard' \in Reasons
  BY <1>0 DEF SkipResult, Broken, Lost, Shape, Reasons
<1>3. /\ ctl \in Controls /\ tokens.out \in Nat BY <1>0 DEF Shape
<1>4. m.out \in Nat /\ m.out <= tokens.out /\ m.token = 0 BY <1>0, TakingTypes
<1>5. /\ ctl' \in Controls /\ ctl'.state = ctl.state
      /\ ctl.pending # "skip" => ctl'.pending = ctl.pending
      /\ ctl.pending = "skip" => ctl'.pending = "none"
      /\ \/ /\ ctl'.token = ctl.token /\ ctl'.bound = ctl.bound /\ ctl'.manual = ctl.manual
            /\ ctl'.out = ctl.out /\ ctl'.known = ctl.known
         \/ /\ ctl'.token = 0 /\ ctl'.bound = 0 /\ ctl'.out = m.out /\ ctl'.known = 0
  <2>1. CASE ctl' = ctl /\ ctl.pending # "skip" BY <1>3, <2>1
  <2>2. CASE ctl.pending = "skip" /\ ctl' = [ctl EXCEPT !.pending = "none"]
    BY <1>3, <2>2 DEF Controls
  <2>3. CASE ctl.pending = "skip" /\ ctl' = [NewIdentity(ctl, m.out) EXCEPT !.pending = "none"]
    <3>1. ctl' = [ctl EXCEPT !.token = 0, !.bound = 0, !.manual = FALSE, !.known = 0,
                             !.out = m.out, !.pending = "none"]
      BY <1>3, <2>3 DEF Controls, NewIdentity, Unchained
    <3>2. /\ ctl' \in Controls /\ ctl'.token = 0 /\ ctl'.bound = 0 /\ ctl'.known = 0
          /\ ctl'.state = ctl.state /\ ctl'.out = m.out /\ ctl'.pending = "none"
      BY <1>3, <1>4, <3>1 DEF Controls
    <3> QED BY <2>3, <3>2
  <2> QED BY <1>1, <2>1, <2>2, <2>3
<1>6. shared' \in [token : Nat, done : Nat] /\ shared'.token = ctl'.token
      /\ shared'.done \in 0 .. tokens.token
  BY <1>0, <1>1, <1>5, SharedNext
<1>7. Shape' BY <1>0, <1>1, <1>2, <1>5, <1>6, TakingTypes, LanesKept DEF Shape
<1>8. Outs'
  <2>1. {ctl'.out, ctl'.known, ctl'.bound} \subseteq 0 .. tokens'.out
    BY <1>0, <1>1, <1>3, <1>4, <1>5 DEF Outs
  <2> QED BY <1>0, <1>1, <1>3, <1>7, <2>1, TakingOuts
<1>9. ASSUME NEW t \in Nat \ {0} PROVE InFlight(t)' = InFlight(t)
  <2>1. Mine(t)' = Mine(t) + 0 BY <1>0, <1>1, LanesKept, Counted
  <2>2. m.token # t BY <1>4
  <2> QED BY <1>0, <1>7, <2>1, <2>2, TakingCount, Counted
<1>10. Handed' /\ ActiveChainHasOneWorker'
  <2>1. \A t \in Nat \ {0} : InFlight(t)' <= InFlight(t) BY <1>0, <1>9, Counted
  <2>2. ctl'.token = 0 \/ ctl'.token = ctl.token BY <1>5
  <2> QED BY <1>0, <1>1, <1>6, <1>7, <1>9, <2>1, <2>2, NoneAdded, TakingTypes DEF IInv
<1>11. Phases'
  <2>1. Phases BY DEF IInv
  <2>2. CASE ctl.pending # "skip"
    <3>1. ctl'.pending = ctl.pending /\ ctl'.state = ctl.state /\ ctl'.token \in {0, ctl.token}
      BY <1>5, <2>2
    <3> QED BY <1>1, <2>1, <3>1 DEF Phases
  <2>3. CASE ctl.pending = "skip"
    <3>1. ctl'.pending = "none" BY <1>5, <2>3
    <3>2. \A op \in ToSet(urgent) : op.type # "shutdown" BY <2>1, <2>3 DEF Phases
    <3> QED BY <1>1, <3>1, <3>2 DEF Phases
  <2> QED BY <2>2, <2>3
<1>12. AutomaticChainIsForThePlayingOutput'
  BY <1>5 DEF AutomaticChainIsForThePlayingOutput, IInv
<1> QED BY <1>7, <1>8, <1>10, <1>11, <1>12 DEF IInv

LEMMA HandleStep ==
  ASSUME IInv, Handle
  PROVE  IInv'
<1> DEFINE m == Head(commands)
<1>1. Taking(m) BY DEF Handle, Taking
<1>2. m \in Msgs BY <1>1, TakingTypes DEF IInv
<1> HIDE DEF m
<1>3. CASE m.type = "play"
  <2>1. Play BY <1>3 DEF Handle, m
  <2> QED BY <1>1, <1>3, <2>1, StartStep, ResumeStep
<1>4. CASE m.type = "pause"
  <2>1. Pause BY <1>4 DEF Handle, m
  <2> QED BY <1>1, <1>4, <2>1, PauseStep
<1>5. CASE m.type = "skip"
  <2>1. Skip BY <1>5 DEF Handle, m
  <2> QED BY <1>1, <1>5, <2>1, SkipStep
<1>6. CASE m.type = "reconnect"
  <2>1. ManualReconnect BY <1>6 DEF Handle, m
  <2> QED BY <1>1, <1>6, <2>1, ManualStep
<1>7. CASE m.type = "shutdown"
  <2>1. Shutdown BY <1>7 DEF Handle, m
  <2> QED BY <1>1, <1>7, <2>1, ShutdownStep
<1>8. CASE m.type = "retry"
  <2>1. RetryReconnect(m) BY <1>8 DEF Handle, m
  <2> QED BY <1>1, <1>8, <2>1, RetryStep
<1>9. CASE m.type = "finished"
  <2>1. ReconnectFinished(m) BY <1>9 DEF Handle, m
  <2> QED BY <1>1, <1>9, <2>1, FinishedStep
<1>10. CASE m.type = "played"
  <2>1. PlayResult(m) BY <1>10 DEF Handle, m
  <2> QED BY <1>1, <1>10, <2>1, PlayResultStep
<1>11. CASE m.type = "skipped"
  <2>1. SkipResult(m) BY <1>11 DEF Handle, m
  <2> QED BY <1>1, <1>11, <2>1, SkipResultStep
<1>12. m.type \in {"play", "pause", "skip", "reconnect", "shutdown", "retry", "finished",
                   "played", "skipped"}
  BY <1>2 DEF Msgs, Outcomes
<1> QED BY <1>3, <1>4, <1>5, <1>6, <1>7, <1>8, <1>9, <1>10, <1>11, <1>12

(* A break of the output.                                                  *)
LEMMA DropStep ==
  ASSUME IInv, HandleDrop
  PROVE  IInv'
<1>0. Shape /\ Outs /\ Handed BY DEF IInv
<1> DEFINE out == Head(events)
           c == [ctl EXCEPT !.known = out]
<1>1. /\ Alive /\ events # <<>> /\ events' = Tail(events)
      /\ \/ /\ ctl' = ctl \/ (out = ctl.out /\ ctl' = c)
            /\ tokens' = tokens /\ shared' = shared /\ urgent' = urgent /\ regular' = regular
            /\ timers' = timers /\ left' = left
         \/ out = ctl.out /\ ctl.state = "playing" /\ BeginChain(c, "urgent")
            /\ unheard' = unheard
      /\ commands' = commands /\ running' = running /\ results' = results /\ pipe' = pipe
  BY DEF HandleDrop
<1>2. unheard' \in Reasons
  <2>1. unheard \in Reasons BY <1>0 DEF Shape
  <2> QED BY <2>1 DEF HandleDrop, Lost, Reasons
<1>3. out \in Nat /\ events' \in Seq(Nat)
  <2>1. events \in Seq(Nat) /\ events # <<>> BY <1>0, <1>1 DEF Shape
  <2> QED BY <1>1, <2>1
<1>4. ctl \in Controls /\ tokens.out \in Nat BY <1>0 DEF Shape
<1>5. /\ c \in Controls /\ c.state = ctl.state /\ c.pending = ctl.pending /\ c.out = ctl.out
      /\ c.known = out /\ c.token = ctl.token /\ c.bound = ctl.bound /\ c.manual = ctl.manual
  BY <1>3, <1>4 DEF Controls
<1> HIDE DEF out, c
<1>6. CASE /\ ctl' = ctl \/ (out = ctl.out /\ ctl' = c)
           /\ tokens' = tokens /\ shared' = shared /\ urgent' = urgent /\ regular' = regular
           /\ timers' = timers /\ left' = left
  <2>1. /\ ctl' \in Controls /\ ctl'.state = ctl.state /\ ctl'.pending = ctl.pending
        /\ ctl'.out = ctl.out /\ ctl'.known \in {ctl.known, ctl.out} /\ ctl'.token = ctl.token
        /\ ctl'.bound = ctl.bound /\ ctl'.manual = ctl.manual
    BY <1>4, <1>5, <1>6
  <2>2. Shape' BY <1>0, <1>1, <1>2, <1>3, <1>6, <2>1 DEF Shape
  <2>3. Outs' BY <1>0, <1>1, <1>6, <2>1 DEF Outs
  <2>4. \A t : InFlight(t)' = InFlight(t) BY <1>1, <1>6 DEF InFlight
  <2>5. Handed' BY <1>0, <1>1, <1>6, <2>1, <2>4 DEF Handed
  <2>6. ActiveChainHasOneWorker'
    <3>1. ctl'.token = ctl.token /\ ActiveChainHasOneWorker BY <2>1 DEF IInv
    <3> QED BY <2>4, <3>1 DEF ActiveChainHasOneWorker
  <2>7. Phases' BY <1>6, <2>1 DEF Phases, IInv
  <2>8. AutomaticChainIsForThePlayingOutput'
    BY <2>1 DEF AutomaticChainIsForThePlayingOutput, IInv
  <2> QED BY <2>2, <2>3, <2>5, <2>6, <2>7, <2>8 DEF IInv
<1>7. CASE out = ctl.out /\ ctl.state = "playing" /\ BeginChain(c, "urgent")
           /\ unheard' = unheard
  <2>1. ChannelKept BY <1>1 DEF ChannelKept
  <2>2. c.pending # "play" BY <1>5, <1>7 DEF IInv, Phases
  <2>3. /\ commands' \in Seq(Msgs) /\ Len(commands') <= Capacity
        /\ ToSet(commands') \subseteq ToSet(commands)
    BY <1>0, <1>1 DEF Shape
  <2> QED BY <1>1, <1>2, <1>3, <1>5, <1>7, <2>1, <2>2, <2>3, ChainBegins
<1> QED BY <1>1, <1>6, <1>7

-----------------------------------------------------------------------------
(* The executor and the pipeline.                                          *)
LEMMA TakenOp ==
  ASSUME Shape, Outs, TakeOp, timers' = timers
  PROVE  /\ running.token = 0
         /\ NextOp \in Ops /\ NextOp.out \in Nat /\ NextOp.out <= tokens.out
         /\ NextOp.token \in Nat /\ (NextOp.type # "reconnect" => NextOp.token = 0)
         /\ urgent' \in Seq(Ops) /\ regular' \in Seq(Ops) /\ timers' \in Seq(Timers)
         /\ ToSet(urgent') \subseteq ToSet(urgent) /\ ToSet(regular') \subseteq ToSet(regular)
         /\ \A t : /\ Mine(t) = Mine(t)' + (IF NextOp.token = t THEN 1 ELSE 0)
                   /\ Mine(t)' \in Nat
<1>1. /\ urgent \in Seq(Ops) /\ regular \in Seq(Ops) /\ timers \in Seq(Timers)
      /\ running \in Runs
  BY DEF Shape
<1>2. running.token = 0 BY <1>1 DEF TakeOp, Runs
<1>3. \A op \in ToSet(urgent) \cup ToSet(regular) : op.out <= tokens.out BY DEF Outs
<1> DEFINE op == NextOp
<1>4. CASE urgent # <<>> /\ urgent' = Tail(urgent) /\ regular' = regular
  <2>1. op = Head(urgent) BY <1>4 DEF NextOp
  <2>2. /\ Tail(urgent) \in Seq(Ops) /\ Head(urgent) \in Ops /\ Head(urgent) \in ToSet(urgent)
        /\ ToSet(Tail(urgent)) \subseteq ToSet(urgent)
        /\ \A t : Behind(urgent, t)
                    = Behind(Tail(urgent), t) + (IF Head(urgent).token = t THEN 1 ELSE 0)
    BY <1>1, <1>4, Taken
  <2> HIDE DEF op
  <2>3. /\ urgent' \in Seq(Ops) /\ op \in Ops /\ op \in ToSet(urgent)
        /\ ToSet(urgent') \subseteq ToSet(urgent)
        /\ \A t : Behind(urgent, t) = Behind(urgent', t) + (IF op.token = t THEN 1 ELSE 0)
    BY <1>4, <2>1, <2>2
  <2>4. ASSUME NEW t
        PROVE  Mine(t) = Mine(t)' + (IF op.token = t THEN 1 ELSE 0) /\ Mine(t)' \in Nat
    <3>1. Behind(regular, t) \in Nat /\ Behind(timers, t) \in Nat BY Counted
    <3>2. Behind(urgent', t) \in Nat BY <2>3, BehindType
    <3>3. Behind(urgent, t) = Behind(urgent', t) + (IF op.token = t THEN 1 ELSE 0) BY <2>3
    <3>4. Behind(regular', t) = Behind(regular, t) /\ Behind(timers', t) = Behind(timers, t)
      BY <1>4
    <3> QED BY <3>1, <3>2, <3>3, <3>4 DEF Mine
  <2>5. op.out \in Nat /\ op.token \in Nat /\ (op.type # "reconnect" => op.token = 0)
    BY <2>3, OutNumbers
  <2>6. op.out <= tokens.out BY <1>3, <2>3
  <2> QED BY <1>1, <1>2, <1>4, <2>3, <2>4, <2>5, <2>6 DEF op
<1>5. CASE urgent = <<>> /\ regular # <<>> /\ regular' = Tail(regular) /\ urgent' = urgent
  <2>1. op = Head(regular) BY <1>5 DEF NextOp
  <2>2. /\ Tail(regular) \in Seq(Ops) /\ Head(regular) \in Ops
        /\ Head(regular) \in ToSet(regular)
        /\ ToSet(Tail(regular)) \subseteq ToSet(regular)
        /\ \A t : Behind(regular, t)
                    = Behind(Tail(regular), t) + (IF Head(regular).token = t THEN 1 ELSE 0)
    BY <1>1, <1>5, Taken
  <2> HIDE DEF op
  <2>3. /\ regular' \in Seq(Ops) /\ op \in Ops /\ op \in ToSet(regular)
        /\ ToSet(regular') \subseteq ToSet(regular)
        /\ \A t : Behind(regular, t) = Behind(regular', t) + (IF op.token = t THEN 1 ELSE 0)
    BY <1>5, <2>1, <2>2
  <2>4. ASSUME NEW t
        PROVE  Mine(t) = Mine(t)' + (IF op.token = t THEN 1 ELSE 0) /\ Mine(t)' \in Nat
    <3>1. Behind(urgent, t) \in Nat /\ Behind(timers, t) \in Nat BY Counted
    <3>2. Behind(regular', t) \in Nat BY <2>3, BehindType
    <3>3. Behind(regular, t) = Behind(regular', t) + (IF op.token = t THEN 1 ELSE 0) BY <2>3
    <3>4. Behind(urgent', t) = Behind(urgent, t) /\ Behind(timers', t) = Behind(timers, t)
      BY <1>5
    <3> QED BY <3>1, <3>2, <3>3, <3>4 DEF Mine
  <2>5. op.out \in Nat /\ op.token \in Nat /\ (op.type # "reconnect" => op.token = 0)
    BY <2>3, OutNumbers
  <2>6. op.out <= tokens.out BY <1>3, <2>3
  <2> QED BY <1>1, <1>2, <1>5, <2>3, <2>4, <2>5, <2>6 DEF op
<1> QED BY <1>4, <1>5 DEF TakeOp

LEMMA BeginReconnectStep ==
  ASSUME IInv, BeginReconnect
  PROVE  IInv'
<1>0. Shape /\ Outs /\ Handed /\ Phases BY DEF IInv
<1> DEFINE op == NextOp
<1>1. /\ TakeOp /\ op.type = "reconnect"
      /\ running' = IF op.token = shared.token
                    THEN [at |-> "run", token |-> op.token, out |-> op.out, manual |-> op.manual]
                    ELSE Idle
      /\ ctl' = ctl /\ tokens' = tokens /\ shared' = shared /\ commands' = commands
      /\ events' = events /\ timers' = timers /\ results' = results /\ pipe' = pipe
      /\ unheard' = unheard /\ left' = left
  BY DEF BeginReconnect
<1>2. /\ running.token = 0 /\ op \in Ops /\ op.out \in Nat /\ op.out <= tokens.out
      /\ op.token \in Nat
      /\ urgent' \in Seq(Ops) /\ regular' \in Seq(Ops) /\ timers' \in Seq(Timers)
      /\ ToSet(urgent') \subseteq ToSet(urgent) /\ ToSet(regular') \subseteq ToSet(regular)
      /\ \A t : /\ Mine(t) = Mine(t)' + (IF op.token = t THEN 1 ELSE 0)
                /\ Mine(t)' \in Nat
  BY <1>0, <1>1, TakenOp
<1>3. op.manual \in BOOLEAN BY <1>2 DEF Ops
<1> HIDE DEF op
<1>4. /\ running' \in Runs /\ running'.out \in {0, op.out}
      /\ running'.token = IF op.token = shared.token THEN op.token ELSE 0
  BY <1>1, <1>2, <1>3 DEF Runs, Idle
<1>5. tokens.out \in Nat /\ tokens.token \in Nat /\ shared.token = ctl.token
      /\ shared.token \in 0 .. tokens.token
  BY <1>0 DEF Shape, Handed
<1>6. Shape' BY <1>0, <1>1, <1>2, <1>4 DEF Shape
<1>7. Outs'
  <2>1. running'.out <= tokens'.out BY <1>1, <1>2, <1>4, <1>5
  <2>2. {ctl'.out, ctl'.known, ctl'.bound} \subseteq 0 .. tokens'.out BY <1>0, <1>1 DEF Outs
  <2> QED BY <1>0, <1>1, <1>2, <1>5, <1>6, <2>1, <2>2, OutsKept
<1>8. ASSUME NEW t \in Nat \ {0}
      PROVE  InFlight(t)' = InFlight(t)
                - (IF op.token = t THEN 1 ELSE 0) + (IF running'.token = t THEN 1 ELSE 0)
  <2>1. Mine(t) = Mine(t)' + (IF op.token = t THEN 1 ELSE 0) BY <1>2
  <2>2. Run(t) = 0 /\ Run(t)' = IF running'.token = t THEN 1 ELSE 0 BY <1>2 DEF Run
  <2>3. InFlight(t) = Mine(t) + Behind(commands, t) + Run(t) /\ Behind(commands, t) \in Nat
    BY <1>0, Counted
  <2>4. InFlight(t)' = Mine(t)' + Behind(commands', t) + Run(t)' /\ Mine(t)' \in Nat
    BY <1>6, CountedNext
  <2>5. Behind(commands', t) = Behind(commands, t) BY <1>1
  <2> QED BY <2>1, <2>2, <2>3, <2>4, <2>5
<1>9. Handed' /\ ActiveChainHasOneWorker'
  <2>1. \A t \in Nat \ {0} : InFlight(t)' <= InFlight(t)
    <3> SUFFICES ASSUME NEW t \in Nat \ {0} PROVE InFlight(t)' <= InFlight(t) OBVIOUS
    <3>1. InFlight(t) \in Nat BY <1>0, Counted
    <3>2. running'.token = t => op.token = t BY <1>4
    <3> QED BY <1>8, <3>1, <3>2
  <2>2. \A t \in Nat \ {0} : t = ctl.token => InFlight(t)' = InFlight(t)
    <3> SUFFICES ASSUME NEW t \in Nat \ {0}, t = ctl.token PROVE InFlight(t)' = InFlight(t)
      OBVIOUS
    <3>1. InFlight(t) \in Nat BY <1>0, Counted
    <3>2. running'.token = t <=> op.token = t BY <1>4, <1>5
    <3> QED BY <1>8, <3>1, <3>2
  <2>3. {shared'.done, running'.token} \subseteq 0 .. tokens.token
    BY <1>0, <1>1, <1>4, <1>5 DEF Handed
  <2> QED BY <1>0, <1>1, <1>5, <1>6, <2>1, <2>2, <2>3, NoneAdded DEF IInv
<1>10. Phases' BY <1>0, <1>1, <1>2 DEF Phases
<1>11. AutomaticChainIsForThePlayingOutput'
  BY <1>1 DEF AutomaticChainIsForThePlayingOutput, IInv
<1> QED BY <1>6, <1>7, <1>9, <1>10, <1>11 DEF IInv

LEMMA OperateStep ==
  ASSUME IInv, Operate
  PROVE  IInv'
<1>0. Shape /\ Outs /\ Handed /\ Phases BY DEF IInv
<1> DEFINE op == NextOp
           Result(type, ok) == Msg(type, 0, op.out, ok)
<1>1. /\ TakeOp /\ op.type \notin {"reconnect", "shutdown"}
      /\ ctl' = ctl /\ tokens' = tokens /\ shared' = shared /\ commands' = commands
      /\ events' = events /\ timers' = timers /\ running' = running
      /\ unheard' = unheard
  BY DEF Operate
<1>2. /\ running.token = 0 /\ op \in Ops /\ op.out \in Nat /\ op.out <= tokens.out
      /\ op.token = 0
      /\ urgent' \in Seq(Ops) /\ regular' \in Seq(Ops) /\ timers' \in Seq(Timers)
      /\ ToSet(urgent') \subseteq ToSet(urgent) /\ ToSet(regular') \subseteq ToSet(regular)
      /\ \A t : /\ Mine(t) = Mine(t)' + (IF op.token = t THEN 1 ELSE 0)
                /\ Mine(t)' \in Nat
  BY <1>0, <1>1, TakenOp
<1>3. /\ left' = left \/ (left.faults > 0 /\ left' = [left EXCEPT !.faults = @ - 1])
      /\ \/ results' = results
         \/ \E type \in {"played", "skipped"}, ok \in BOOLEAN :
              results' = Append(results, Result(type, ok))
      /\ pipe' = [state |-> pipe'.state, out |-> pipe'.out, sink |-> pipe'.sink]
      /\ pipe'.out \in Nat
  <2>0. pipe = [state |-> pipe.state, out |-> pipe.out, sink |-> pipe.sink] /\ pipe.out \in Nat
    BY <1>0 DEF Shape
  <2> DEFINE type == IF op.type = "start" THEN "played" ELSE "skipped"
  <2>1. \/ \E ok \in BOOLEAN :
             /\ results' = Append(results, Result(type, ok))
             /\ \/ pipe' = pipe
                \/ pipe' = [pipe EXCEPT !.out = op.out,
                              !.state = IF op.type = "start" THEN "playing" ELSE @]
             /\ left' = left \/ (left.faults > 0 /\ left' = [left EXCEPT !.faults = @ - 1])
        \/ /\ results' = results /\ left' = left
           /\ pipe' = [pipe EXCEPT !.state =
                         IF op.type = "pause" THEN "paused" ELSE "playing"]
    <3>1. op.type \in {"start", "switch", "resume", "pause"} BY <1>1, <1>2 DEF Ops
    <3>2. CASE op.type \in {"start", "switch"}
      BY <1>1, <3>2 DEF Operate, Spend
    <3>3. CASE op.type \in {"resume", "pause"}
      BY <1>1, <3>3 DEF Operate
    <3> QED BY <3>1, <3>2, <3>3
  <2>2. type \in {"played", "skipped"} OBVIOUS
  <2> HIDE DEF type, Result, op
  <2>3. /\ pipe' = [state |-> pipe'.state, out |-> pipe'.out, sink |-> pipe'.sink]
        /\ pipe'.out \in Nat
    <3>1. CASE pipe' = pipe BY <2>0, <3>1
    <3>2. CASE pipe' = [pipe EXCEPT !.out = op.out,
                          !.state = IF op.type = "start" THEN "playing" ELSE @]
      BY <1>2, <2>0, <3>2
    <3>3. CASE pipe' = [pipe EXCEPT !.state = IF op.type = "pause" THEN "paused" ELSE "playing"]
      BY <2>0, <3>3
    <3> QED BY <2>1, <3>1, <3>2, <3>3
  <2> QED BY <2>1, <2>2, <2>3
<1>4. left' \in [commands : Nat, drops : Nat, faults : Nat]
  <2>1. left \in [commands : Nat, drops : Nat, faults : Nat] BY <1>0 DEF Shape
  <2> QED BY <1>3, <2>1
<1> HIDE DEF op
<1>5. /\ results' \in Seq(Outcomes)
      /\ \A m \in ToSet(results') : m \in ToSet(results) \/ m.out = op.out
  <2>1. results \in Seq(Outcomes) BY <1>0 DEF Shape
  <2>2. CASE results' = results BY <2>1, <2>2
  <2>3. ASSUME NEW type \in {"played", "skipped"}, NEW ok \in BOOLEAN,
               results' = Append(results, Result(type, ok))
        PROVE  /\ results' \in Seq(Outcomes)
               /\ \A m \in ToSet(results') : m \in ToSet(results) \/ m.out = op.out
    <3> DEFINE r == Result(type, ok)
    <3>1. r \in Outcomes /\ r.out = op.out BY <1>2 DEF Msg, Outcomes
    <3> HIDE DEF r
    <3>2. results' = Append(results, r) BY <2>3 DEF r
    <3>3. /\ Append(results, r) \in Seq(Outcomes)
          /\ ToSet(Append(results, r)) = ToSet(results) \cup {r}
      BY <2>1, <3>1, Added
    <3> QED BY <3>1, <3>2, <3>3
  <2> HIDE DEF Result
  <2> QED BY <1>3, <2>2, <2>3
<1> HIDE DEF Result
<1>6. Shape' BY <1>0, <1>1, <1>2, <1>3, <1>4, <1>5 DEF Shape
<1>7. Outs'
  <2>1. tokens.out \in Nat BY <1>0 DEF Shape
  <2>2. {ctl'.out, ctl'.known, ctl'.bound} \subseteq 0 .. tokens'.out /\ running'.out <= tokens'.out
    BY <1>0, <1>1 DEF Outs
  <2> QED BY <1>0, <1>1, <1>2, <1>5, <1>6, <2>1, <2>2, OutsKept
<1>8. ASSUME NEW t \in Nat \ {0} PROVE InFlight(t)' = InFlight(t)
  <2>1. Mine(t)' = Mine(t) BY <1>2
  <2>2. Run(t)' = Run(t) /\ Behind(commands', t) = Behind(commands, t) BY <1>1 DEF Run
  <2> QED BY <1>0, <1>6, <2>1, <2>2, Counted, CountedNext
<1>9. Handed' /\ ActiveChainHasOneWorker'
  <2>1. \A t \in Nat \ {0} : InFlight(t)' <= InFlight(t) BY <1>0, <1>8, Counted
  <2>2. {shared'.done, running'.token} \subseteq 0 .. tokens.token /\ shared'.token = ctl'.token
    BY <1>0, <1>1 DEF Handed
  <2> QED BY <1>0, <1>1, <1>6, <1>8, <2>1, <2>2, NoneAdded DEF IInv
<1>10. Phases' BY <1>0, <1>1, <1>2 DEF Phases
<1>11. AutomaticChainIsForThePlayingOutput'
  BY <1>1 DEF AutomaticChainIsForThePlayingOutput, IInv
<1> QED BY <1>6, <1>7, <1>9, <1>10, <1>11 DEF IInv

(* A step that leaves the controller alone.                                *)
LEMMA Elsewhere ==
  ASSUME IInv, Shape', ctl' = ctl, tokens' = tokens, shared'.token = shared.token,
         {shared'.done, running'.token} \subseteq 0 .. tokens.token,
         running'.out <= tokens.out,
         ToSet(urgent') \subseteq ToSet(urgent), ToSet(regular') \subseteq ToSet(regular),
         \A m \in ToSet(commands') : m \in ToSet(commands) \/ m.out <= tokens.out,
         \A m \in ToSet(results') : m \in ToSet(results) \/ m.out <= tokens.out,
         \A tm \in ToSet(timers') : tm \in ToSet(timers) \/ tm.out <= tokens.out,
         \A t \in Nat \ {0} : InFlight(t)' <= InFlight(t),
         ctl.token = 0 \/ \A t \in Nat \ {0} : InFlight(t)' = InFlight(t)
  PROVE  IInv'
<1>0. Shape /\ Outs /\ Handed /\ Phases /\ ActiveChainHasOneWorker BY DEF IInv
<1>1. tokens.out \in Nat /\ shared'.token = ctl'.token BY <1>0 DEF Shape, Handed
<1>2. {ctl'.out, ctl'.known, ctl'.bound} \subseteq 0 .. tokens'.out BY <1>0 DEF Outs
<1>3. Outs' BY <1>0, <1>1, <1>2, OutsKept
<1>4. Handed' /\ ActiveChainHasOneWorker'
  <2>1. CASE ctl.token = 0 BY <1>0, <1>1, <2>1, NoneAdded
  <2>2. CASE \A t \in Nat \ {0} : InFlight(t)' = InFlight(t) BY <1>0, <1>1, <2>2, NoneAdded
  <2> QED BY <2>1, <2>2
<1>5. Phases' BY <1>0 DEF Phases
<1>6. AutomaticChainIsForThePlayingOutput'
  BY DEF AutomaticChainIsForThePlayingOutput, IInv
<1> QED BY <1>3, <1>4, <1>5, <1>6 DEF IInv

LEMMA RunShutdownStep ==
  ASSUME IInv, RunShutdown
  PROVE  IInv'
<1>0. Shape /\ Outs /\ Handed /\ Phases BY DEF IInv
<1>1. /\ urgent # <<>> /\ Head(urgent).type = "shutdown"
      /\ urgent' = <<>> /\ regular' = <<>>
      /\ pipe' = [pipe EXCEPT !.state = "stopped", !.out = 0]
      /\ ctl' = ctl /\ tokens' = tokens /\ shared' = shared /\ commands' = commands
      /\ events' = events /\ running' = running /\ timers' = timers /\ results' = results
      /\ unheard' = unheard /\ left' = left
  BY DEF RunShutdown
<1>2. ctl.token = 0
  <2>1. urgent \in Seq(Ops) BY <1>0 DEF Shape
  <2>2. Head(urgent) \in ToSet(urgent) BY <1>1, <2>1, Taken
  <2> QED BY <1>0, <1>1, <2>2 DEF Phases
<1>3. /\ urgent' \in Seq(Ops) /\ regular' \in Seq(Ops)
      /\ ToSet(urgent') = {} /\ ToSet(regular') = {}
  BY <1>1, EmptyQueue
<1>4. /\ pipe' = [state |-> pipe'.state, out |-> pipe'.out, sink |-> pipe'.sink]
      /\ pipe'.out \in Nat
  <2>1. pipe = [state |-> pipe.state, out |-> pipe.out, sink |-> pipe.sink] BY <1>0 DEF Shape
  <2> QED BY <1>1, <2>1
<1>5. Shape' BY <1>0, <1>1, <1>3, <1>4 DEF Shape
<1>6. ASSUME NEW t \in Nat \ {0} PROVE InFlight(t)' <= InFlight(t)
  <2>1. Behind(urgent', t) = 0 /\ Behind(regular', t) = 0 BY <1>1, BehindNothing
  <2>2. /\ Behind(timers', t) = Behind(timers, t) /\ Behind(commands', t) = Behind(commands, t)
        /\ Run(t)' = Run(t)
    BY <1>1 DEF Run
  <2>3. /\ InFlight(t) = Mine(t) + Behind(commands, t) + Run(t)
        /\ Behind(urgent, t) \in Nat /\ Behind(regular, t) \in Nat /\ Behind(timers, t) \in Nat
        /\ Behind(commands, t) \in Nat /\ Run(t) \in Nat
    BY <1>0, Counted
  <2>4. InFlight(t)' = Mine(t)' + Behind(commands', t) + Run(t)' BY <1>5, CountedNext
  <2>5. Mine(t) = Behind(urgent, t) + Behind(regular, t) + Behind(timers, t) BY DEF Mine
  <2>6. Mine(t)' = Behind(urgent', t) + Behind(regular', t) + Behind(timers', t) BY DEF Mine
  <2> QED BY <2>1, <2>2, <2>3, <2>4, <2>5, <2>6
<1>7. {shared'.done, running'.token} \subseteq 0 .. tokens.token /\ running'.out <= tokens.out
  BY <1>0, <1>1 DEF Handed, Outs
<1> QED BY <1>1, <1>2, <1>3, <1>5, <1>6, <1>7, Elsewhere

(* The reconnect at work goes on.                                          *)
LEMMA WorkGoesOn ==
  ASSUME IInv, running.at # "idle",
         NEW at \in {"run", "guarded", "done", "failed", "ok", "ended"},
         running' = [running EXCEPT !.at = at],
         UNCHANGED <<ctl, tokens, commands, events, urgent, regular, timers, results>>,
         shared' = shared \/ shared' = [shared EXCEPT !.done = running.token],
         pipe' = [state |-> pipe'.state, out |-> pipe'.out, sink |-> pipe'.sink],
         pipe'.out \in Nat, left' \in [commands : Nat, drops : Nat, faults : Nat],
         unheard' \in Reasons
  PROVE  IInv'
<1>0. Shape /\ Outs /\ Handed BY DEF IInv
<1>1. running \in Runs /\ shared \in [token : Nat, done : Nat] BY <1>0 DEF Shape
<1>2. /\ running' \in Runs /\ running'.token = running.token /\ running'.out = running.out
      /\ running.token \in Nat
  BY <1>1 DEF Runs
<1>3. shared' \in [token : Nat, done : Nat] /\ shared'.token = shared.token
      /\ shared'.done \in {shared.done, running.token}
  BY <1>1, <1>2
<1>4. Shape' BY <1>0, <1>2, <1>3 DEF Shape
<1>5. \A t \in Nat \ {0} : InFlight(t)' = InFlight(t) BY <1>2 DEF InFlight
<1>6. \A t \in Nat \ {0} : InFlight(t)' <= InFlight(t) BY <1>0, <1>5, Counted
<1>7. {shared'.done, running'.token} \subseteq 0 .. tokens.token /\ running'.out <= tokens.out
  BY <1>0, <1>2, <1>3 DEF Handed, Outs
<1> QED BY <1>3, <1>4, <1>5, <1>6, <1>7, Elsewhere

LEMMA WorkSteps ==
  ASSUME IInv, RunReconnect \/ ReleaseGuard \/ MarkCompleted
  PROVE  IInv'
<1>0. Shape BY DEF IInv
<1>1. /\ pipe = [state |-> pipe.state, out |-> pipe.out, sink |-> pipe.sink] /\ pipe.out \in Nat
      /\ left \in [commands : Nat, drops : Nat, faults : Nat] /\ unheard \in Reasons
  BY <1>0 DEF Shape
<1>2. CASE RunReconnect
  <2>1. /\ running.at = "run"
        /\ UNCHANGED <<ctl, tokens, commands, events, urgent, regular, timers, results>>
        /\ shared' = shared
    BY <1>2 DEF RunReconnect
  <2>2. /\ \/ running' = [running EXCEPT !.at = "guarded"]
           \/ running' = [running EXCEPT !.at = "failed"]
        /\ unheard' \in {unheard, "no", "forced"}
        /\ \/ pipe' = pipe \/ pipe' = [pipe EXCEPT !.sink = "up"]
           \/ pipe' = [pipe EXCEPT !.state = "stopped", !.out = 0]
        /\ left' = left \/ (left.faults > 0 /\ left' = [left EXCEPT !.faults = @ - 1])
    BY <1>2 DEF RunReconnect, Spend
  <2>3. unheard' \in Reasons BY <1>1, <2>2 DEF Reasons
  <2>4. left' \in [commands : Nat, drops : Nat, faults : Nat] BY <1>1, <2>2
  <2>5. /\ pipe' = [state |-> pipe'.state, out |-> pipe'.out, sink |-> pipe'.sink]
        /\ pipe'.out \in Nat
    <3>1. CASE pipe' = pipe BY <1>1, <3>1
    <3>2. CASE pipe' = [pipe EXCEPT !.sink = "up"] BY <1>1, <3>2
    <3>3. CASE pipe' = [pipe EXCEPT !.state = "stopped", !.out = 0] BY <1>1, <3>3
    <3> QED BY <2>2, <3>1, <3>2, <3>3
  <2>6. CASE running' = [running EXCEPT !.at = "guarded"]
    BY <2>1, <2>3, <2>4, <2>5, <2>6, WorkGoesOn
  <2>7. CASE running' = [running EXCEPT !.at = "failed"]
    BY <2>1, <2>3, <2>4, <2>5, <2>7, WorkGoesOn
  <2> QED BY <2>2, <2>6, <2>7
<1>3. CASE ReleaseGuard
  <2>1. /\ running.at = "guarded" /\ running' = [running EXCEPT !.at = "done"]
        /\ UNCHANGED <<ctl, tokens, commands, events, urgent, regular, timers, results>>
        /\ shared' = shared /\ pipe' = pipe /\ left' = left /\ unheard' = unheard
    BY <1>3 DEF ReleaseGuard
  <2> QED BY <1>1, <2>1, WorkGoesOn
<1>4. CASE MarkCompleted
  <2>1. /\ running.at # "idle"
        /\ \/ running' = [running EXCEPT !.at = "ok"]
           \/ running' = [running EXCEPT !.at = "ended"]
        /\ shared' = [shared EXCEPT !.done = running.token]
        /\ UNCHANGED <<ctl, tokens, commands, events, urgent, regular, timers, results>>
        /\ pipe' = pipe /\ left' = left /\ unheard' = unheard
    BY <1>4 DEF MarkCompleted
  <2> QED BY <1>1, <2>1, WorkGoesOn
<1> QED BY <1>2, <1>3, <1>4

(* The worker leaves the executor for the channel or for a timer.          *)
LEMMA SendFinishedStep ==
  ASSUME IInv, SendFinished
  PROVE  IInv'
<1>0. Shape /\ Outs /\ Handed /\ Phases BY DEF IInv
<1> DEFINE m == Msg("finished", running.token, running.out, running.at = "ok")
<1>1. /\ running.at \in {"ok", "ended"} /\ running' = Idle /\ Len(commands) < Capacity
      /\ commands' = IF Alive THEN Append(commands, m) ELSE commands
      /\ ctl' = ctl /\ tokens' = tokens /\ shared' = shared /\ events' = events
      /\ urgent' = urgent /\ regular' = regular /\ timers' = timers /\ results' = results
      /\ pipe' = pipe /\ unheard' = unheard /\ left' = left
  BY DEF SendFinished
<1>2. /\ running \in Runs /\ commands \in Seq(Msgs) /\ Capacity \in Nat /\ tokens.out \in Nat
      /\ tokens.token \in Nat
  BY <1>0, ReconnectAssumption DEF Shape
<1>3. running.token \in Nat /\ running.out \in Nat /\ running.out <= tokens.out
  BY <1>0, <1>2 DEF Runs, Outs
<1>4. m \in Msgs /\ m.token = running.token /\ m.out = running.out
  BY <1>3 DEF Msg, Msgs
<1> HIDE DEF m
<1>5. running' \in Runs /\ running'.token = 0 /\ running'.out = 0 BY <1>1 DEF Runs, Idle
<1>6. /\ commands' \in Seq(Msgs) /\ Len(commands') <= Capacity
      /\ ToSet(commands') \subseteq ToSet(commands) \cup {m}
      /\ Alive => \A t : Behind(commands', t)
                           = Behind(commands, t) + (IF running.token = t THEN 1 ELSE 0)
      /\ ~ Alive => commands' = commands
  <2>1. CASE Alive
    <3>1. /\ Append(commands, m) \in Seq(Msgs)
          /\ ToSet(Append(commands, m)) = ToSet(commands) \cup {m}
          /\ Len(Append(commands, m)) = Len(commands) + 1
          /\ \A t : Behind(Append(commands, m), t)
                      = Behind(commands, t) + (IF m.token = t THEN 1 ELSE 0)
      BY <1>2, <1>4, Added
    <3>2. Len(commands) \in Nat BY <1>2
    <3> QED BY <1>1, <1>2, <1>4, <2>1, <3>1, <3>2
  <2>2. CASE ~ Alive
    <3>1. Len(commands) \in Nat BY <1>2
    <3> QED BY <1>1, <1>2, <2>2, <3>1
  <2> QED BY <2>1, <2>2
<1>7. Shape' BY <1>0, <1>1, <1>5, <1>6 DEF Shape
<1>8. ASSUME NEW t \in Nat \ {0}
      PROVE  InFlight(t)' = InFlight(t) + Behind(commands', t) - Behind(commands, t)
                              - (IF running.token = t THEN 1 ELSE 0)
  <2>1. Mine(t)' = Mine(t) BY <1>0, <1>1, LanesKept
  <2>2. Run(t)' = 0 /\ Run(t) = IF running.token = t THEN 1 ELSE 0 BY <1>5 DEF Run
  <2>3. /\ InFlight(t) = Mine(t) + Behind(commands, t) + Run(t)
        /\ Behind(commands, t) \in Nat /\ Mine(t) \in Nat
    BY <1>0, Counted
  <2>4. InFlight(t)' = Mine(t)' + Behind(commands', t) + Run(t)' /\ Behind(commands', t) \in Nat
    BY <1>7, CountedNext
  <2> QED BY <2>1, <2>2, <2>3, <2>4
<1>9. \A t \in Nat \ {0} : /\ InFlight(t)' <= InFlight(t)
                           /\ Alive => InFlight(t)' = InFlight(t)
  <2> SUFFICES ASSUME NEW t \in Nat \ {0}
               PROVE  InFlight(t)' <= InFlight(t) /\ (Alive => InFlight(t)' = InFlight(t))
    OBVIOUS
  <2>1. InFlight(t) \in Nat /\ Behind(commands, t) \in Nat BY <1>0, Counted
  <2>2. CASE Alive BY <1>6, <1>8, <2>1, <2>2
  <2>3. CASE ~ Alive BY <1>6, <1>8, <2>1, <2>3
  <2> QED BY <2>2, <2>3
<1>10. ctl.token = 0 \/ \A t \in Nat \ {0} : InFlight(t)' = InFlight(t)
  BY <1>0, <1>9 DEF Phases, Alive
<1>11. /\ {shared'.done, running'.token} \subseteq 0 .. tokens.token /\ running'.out <= tokens.out
       /\ \A r \in ToSet(commands') : r \in ToSet(commands) \/ r.out <= tokens.out
  BY <1>0, <1>1, <1>2, <1>3, <1>4, <1>5, <1>6 DEF Handed
<1> QED BY <1>1, <1>7, <1>9, <1>10, <1>11, Elsewhere

LEMMA ScheduleRetryStep ==
  ASSUME IInv, ScheduleRetry
  PROVE  IInv'
<1>0. Shape /\ Outs /\ Handed BY DEF IInv
<1> DEFINE tm == [token |-> running.token, out |-> running.out]
<1>1. /\ running' = Idle /\ timers' = Append(timers, tm)
      /\ ctl' = ctl /\ tokens' = tokens /\ shared' = shared /\ events' = events
      /\ urgent' = urgent /\ regular' = regular /\ commands' = commands /\ results' = results
      /\ pipe' = pipe /\ unheard' = unheard /\ left' = left
  BY DEF ScheduleRetry
<1>2. running \in Runs /\ tokens.out \in Nat /\ tokens.token \in Nat BY <1>0 DEF Shape
<1>3. running.token \in Nat /\ running.out \in Nat /\ running.out <= tokens.out
  BY <1>0, <1>2 DEF Runs, Outs
<1>4. tm \in Timers /\ tm.token = running.token /\ tm.out = running.out
  BY <1>3 DEF Timers
<1> HIDE DEF tm
<1>5. running' \in Runs /\ running'.token = 0 /\ running'.out = 0 BY <1>1 DEF Runs, Idle
<1>6. /\ timers' \in Seq(Timers) /\ ToSet(timers') = ToSet(timers) \cup {tm}
      /\ \A t : Mine(t)' = Mine(t) + (IF tm.token = t THEN 1 ELSE 0)
  BY <1>0, <1>1, <1>4, TimerSet
<1>7. Shape' BY <1>0, <1>1, <1>5, <1>6 DEF Shape
<1>8. ASSUME NEW t \in Nat \ {0} PROVE InFlight(t)' = InFlight(t)
  <2>1. Mine(t)' = Mine(t) + (IF running.token = t THEN 1 ELSE 0) BY <1>4, <1>6
  <2>2. Run(t)' = 0 /\ Run(t) = IF running.token = t THEN 1 ELSE 0 BY <1>5 DEF Run
  <2>3. /\ InFlight(t) = Mine(t) + Behind(commands, t) + Run(t)
        /\ Behind(commands, t) \in Nat /\ Mine(t) \in Nat
    BY <1>0, Counted
  <2>4. InFlight(t)' = Mine(t)' + Behind(commands', t) + Run(t)' BY <1>7, CountedNext
  <2>5. Behind(commands', t) = Behind(commands, t) BY <1>1
  <2> QED BY <2>1, <2>2, <2>3, <2>4, <2>5
<1>9. \A t \in Nat \ {0} : InFlight(t)' <= InFlight(t) BY <1>0, <1>8, Counted
<1>10. /\ {shared'.done, running'.token} \subseteq 0 .. tokens.token /\ running'.out <= tokens.out
       /\ \A r \in ToSet(timers') : r \in ToSet(timers) \/ r.out <= tokens.out
  BY <1>0, <1>1, <1>2, <1>3, <1>4, <1>5, <1>6 DEF Handed
<1> QED BY <1>1, <1>7, <1>8, <1>9, <1>10, Elsewhere

LEMMA BreakStep ==
  ASSUME IInv, Drop
  PROVE  IInv'
<1>0. Shape /\ Outs /\ Handed BY DEF IInv
<1>1. /\ left.drops > 0 /\ left' = [left EXCEPT !.drops = @ - 1]
      /\ pipe' = [pipe EXCEPT !.sink = "down"]
      /\ events' = events \/ events' = Append(events, pipe.out)
      /\ unheard' \in {unheard, "noplan", "suppressed"}
      /\ ctl' = ctl /\ tokens' = tokens /\ shared' = shared /\ commands' = commands
      /\ urgent' = urgent /\ regular' = regular /\ running' = running
      /\ timers' = timers /\ results' = results
  BY DEF Drop, Spend
<1>2. /\ pipe = [state |-> pipe.state, out |-> pipe.out, sink |-> pipe.sink] /\ pipe.out \in Nat
      /\ left \in [commands : Nat, drops : Nat, faults : Nat] /\ unheard \in Reasons
      /\ events \in Seq(Nat)
  BY <1>0 DEF Shape
<1>3. /\ pipe' = [state |-> pipe'.state, out |-> pipe'.out, sink |-> pipe'.sink]
      /\ pipe'.out \in Nat
  BY <1>1, <1>2
<1>4. left' \in [commands : Nat, drops : Nat, faults : Nat] BY <1>1, <1>2
<1>5. events' \in Seq(Nat) /\ unheard' \in Reasons
  <2> DEFINE o == pipe.out
  <2>1. o \in Nat /\ events \in Seq(Nat) BY <1>2
  <2>2. events' = events \/ events' = Append(events, o) BY <1>1
  <2> HIDE DEF o
  <2>3. events' \in Seq(Nat) BY <2>1, <2>2
  <2>4. unheard' \in Reasons BY <1>1, <1>2 DEF Reasons
  <2> QED BY <2>3, <2>4
<1>6. Shape' BY <1>0, <1>1, <1>3, <1>4, <1>5 DEF Shape
<1>7. \A t \in Nat \ {0} : InFlight(t)' = InFlight(t) BY <1>1 DEF InFlight
<1>8. \A t \in Nat \ {0} : InFlight(t)' <= InFlight(t) BY <1>0, <1>7, Counted
<1>9. {shared'.done, running'.token} \subseteq 0 .. tokens.token /\ running'.out <= tokens.out
  BY <1>0, <1>1 DEF Handed, Outs
<1> QED BY <1>1, <1>6, <1>7, <1>8, <1>9, Elsewhere

-----------------------------------------------------------------------------
(* Senders.                                                                *)
LEMMA Sending ==
  ASSUME Shape, Room, NEW m \in Msgs, commands' = Append(commands, m)
  PROVE  /\ commands' \in Seq(Msgs) /\ Len(commands') <= Capacity
         /\ ToSet(commands') = ToSet(commands) \cup {m}
         /\ \A t : Behind(commands', t) = Behind(commands, t) + (IF m.token = t THEN 1 ELSE 0)
<1>1. commands \in Seq(Msgs) /\ Capacity \in Nat BY ReconnectAssumption DEF Shape
<1>2. /\ Append(commands, m) \in Seq(Msgs)
      /\ ToSet(Append(commands, m)) = ToSet(commands) \cup {m}
      /\ Len(Append(commands, m)) = Len(commands) + 1
      /\ \A t : Behind(Append(commands, m), t)
                  = Behind(commands, t) + (IF m.token = t THEN 1 ELSE 0)
  BY <1>1, Added
<1>3. Len(commands) < Capacity /\ Len(commands) \in Nat BY <1>1 DEF Room
<1> QED BY <1>1, <1>2, <1>3

LEMMA RequestStep ==
  ASSUME IInv, Request
  PROVE  IInv'
<1>0. Shape /\ Outs /\ Handed BY DEF IInv
<1>1. PICK type \in {"play", "pause", "skip", "reconnect", "shutdown"} :
        commands' = Append(commands, Msg(type, 0, 0, TRUE))
  BY DEF Request
<1>2. /\ Room /\ left.commands > 0 /\ left' = [left EXCEPT !.commands = @ - 1]
      /\ ctl' = ctl /\ tokens' = tokens /\ shared' = shared /\ events' = events
      /\ urgent' = urgent /\ regular' = regular /\ running' = running
      /\ timers' = timers /\ results' = results /\ pipe' = pipe /\ unheard' = unheard
  BY DEF Request, Spend
<1> DEFINE m == Msg(type, 0, 0, TRUE)
<1>3. m \in Msgs /\ m.token = 0 /\ m.out = 0 BY DEF Msg, Msgs
<1> HIDE DEF m
<1>4. /\ commands' \in Seq(Msgs) /\ Len(commands') <= Capacity
      /\ ToSet(commands') = ToSet(commands) \cup {m}
      /\ \A t : Behind(commands', t) = Behind(commands, t) + (IF m.token = t THEN 1 ELSE 0)
  <2>1. commands' = Append(commands, m) BY <1>1 DEF m
  <2> QED BY <1>0, <1>2, <1>3, <2>1, Sending
<1>5. left' \in [commands : Nat, drops : Nat, faults : Nat]
  <2>1. left \in [commands : Nat, drops : Nat, faults : Nat] BY <1>0 DEF Shape
  <2> QED BY <1>2, <2>1
<1>6. Shape' BY <1>0, <1>2, <1>4, <1>5 DEF Shape
<1>7. ASSUME NEW t \in Nat \ {0} PROVE InFlight(t)' = InFlight(t)
  <2>1. Mine(t)' = Mine(t) /\ Run(t)' = Run(t) BY <1>0, <1>2, LanesKept DEF Run
  <2>2. Behind(commands', t) = Behind(commands, t)
    <3>1. Behind(commands, t) \in Nat BY <1>0, Counted
    <3> QED BY <1>3, <1>4, <3>1
  <2> QED BY <1>0, <1>6, <2>1, <2>2, Counted, CountedNext
<1>8. \A t \in Nat \ {0} : InFlight(t)' <= InFlight(t) BY <1>0, <1>7, Counted
<1>9. tokens.out \in Nat BY <1>0 DEF Shape
<1>10. /\ {shared'.done, running'.token} \subseteq 0 .. tokens.token /\ running'.out <= tokens.out
       /\ \A r \in ToSet(commands') : r \in ToSet(commands) \/ r.out <= tokens.out
  BY <1>0, <1>2, <1>3, <1>4, <1>9 DEF Handed, Outs
<1> QED BY <1>2, <1>6, <1>7, <1>8, <1>10, Elsewhere

LEMMA ForwardStep ==
  ASSUME IInv, Forward
  PROVE  IInv'
<1>0. Shape /\ Outs /\ Handed BY DEF IInv
<1> DEFINE m == Head(results)
<1>1. /\ Room /\ results # <<>> /\ commands' = Append(commands, m) /\ results' = Tail(results)
      /\ ctl' = ctl /\ tokens' = tokens /\ shared' = shared /\ events' = events
      /\ urgent' = urgent /\ regular' = regular /\ running' = running
      /\ timers' = timers /\ pipe' = pipe /\ unheard' = unheard /\ left' = left
  BY DEF Forward
<1>2. results \in Seq(Outcomes) BY <1>0 DEF Shape
<1>3. /\ results' \in Seq(Outcomes) /\ m \in Outcomes /\ m \in ToSet(results)
      /\ ToSet(results') \subseteq ToSet(results)
  BY <1>1, <1>2, Taken
<1> HIDE DEF m
<1>4. m \in Msgs /\ m.token = 0 /\ m.out <= tokens.out
  BY <1>0, <1>3, OutNumbers DEF Outs
<1>5. /\ commands' \in Seq(Msgs) /\ Len(commands') <= Capacity
      /\ ToSet(commands') = ToSet(commands) \cup {m}
      /\ \A t : Behind(commands', t) = Behind(commands, t) + (IF m.token = t THEN 1 ELSE 0)
  BY <1>0, <1>1, <1>4, Sending
<1>6. Shape' BY <1>0, <1>1, <1>3, <1>5 DEF Shape
<1>7. ASSUME NEW t \in Nat \ {0} PROVE InFlight(t)' = InFlight(t)
  <2>1. Mine(t)' = Mine(t) /\ Run(t)' = Run(t) BY <1>0, <1>1, LanesKept DEF Run
  <2>2. Behind(commands', t) = Behind(commands, t)
    <3>1. Behind(commands, t) \in Nat BY <1>0, Counted
    <3> QED BY <1>4, <1>5, <3>1
  <2> QED BY <1>0, <1>6, <2>1, <2>2, Counted, CountedNext
<1>8. \A t \in Nat \ {0} : InFlight(t)' <= InFlight(t) BY <1>0, <1>7, Counted
<1>9. /\ {shared'.done, running'.token} \subseteq 0 .. tokens.token /\ running'.out <= tokens.out
      /\ \A r \in ToSet(commands') : r \in ToSet(commands) \/ r.out <= tokens.out
  BY <1>0, <1>1, <1>4, <1>5 DEF Handed, Outs
<1> QED BY <1>1, <1>3, <1>6, <1>7, <1>8, <1>9, Elsewhere

LEMMA FireStep ==
  ASSUME IInv, Fire
  PROVE  IInv'
<1>0. Shape /\ Outs /\ Handed BY DEF IInv
<1>1. PICK i \in DOMAIN timers :
        /\ commands' = Append(commands, Msg("retry", timers[i].token, timers[i].out, TRUE))
        /\ timers' = RemoveAt(timers, i)
  BY DEF Fire
<1>2. /\ Room
      /\ ctl' = ctl /\ tokens' = tokens /\ shared' = shared /\ events' = events
      /\ urgent' = urgent /\ regular' = regular /\ running' = running
      /\ results' = results /\ pipe' = pipe /\ unheard' = unheard /\ left' = left
  BY DEF Fire
<1> DEFINE tm == timers[i]
           m == Msg("retry", tm.token, tm.out, TRUE)
<1>3. timers \in Seq(Timers) BY <1>0 DEF Shape
<1>4. /\ timers' \in Seq(Timers) /\ tm \in Timers /\ tm \in ToSet(timers)
      /\ ToSet(timers') \subseteq ToSet(timers)
      /\ \A t : Behind(timers, t) = Behind(timers', t) + (IF tm.token = t THEN 1 ELSE 0)
  BY <1>1, <1>3, Removed
<1>5. tm.token \in Nat /\ tm.out \in Nat /\ tm.out <= tokens.out
  BY <1>0, <1>4, OutNumbers DEF Outs
<1> HIDE DEF tm
<1>6. m \in Msgs /\ m.token = tm.token /\ m.out = tm.out BY <1>5 DEF Msg, Msgs
<1>7. commands' = Append(commands, m) BY <1>1 DEF tm
<1> HIDE DEF m
<1>8. /\ commands' \in Seq(Msgs) /\ Len(commands') <= Capacity
      /\ ToSet(commands') = ToSet(commands) \cup {m}
      /\ \A t : Behind(commands', t) = Behind(commands, t) + (IF m.token = t THEN 1 ELSE 0)
  BY <1>0, <1>2, <1>6, <1>7, Sending
<1>9. Shape' BY <1>0, <1>2, <1>4, <1>8 DEF Shape
<1>10. ASSUME NEW t \in Nat \ {0} PROVE InFlight(t)' = InFlight(t)
  <2> DEFINE k == IF tm.token = t THEN 1 ELSE 0
  <2>1. Behind(timers, t) = Behind(timers', t) + k /\ Behind(timers', t) \in Nat
    <3>1. Behind(timers', t) \in Nat BY <1>4, BehindType
    <3> QED BY <1>4, <3>1
  <2>2. Behind(commands', t) = Behind(commands, t) + k BY <1>6, <1>8
  <2>3. k \in Nat OBVIOUS
  <2> HIDE DEF k
  <2>4. Run(t)' = Run(t) /\ Behind(urgent', t) = Behind(urgent, t)
        /\ Behind(regular', t) = Behind(regular, t)
    BY <1>2 DEF Run
  <2>5. /\ InFlight(t) = Mine(t) + Behind(commands, t) + Run(t)
        /\ Behind(urgent, t) \in Nat /\ Behind(regular, t) \in Nat
        /\ Behind(commands, t) \in Nat /\ Run(t) \in Nat
    BY <1>0, Counted
  <2>6. InFlight(t)' = Mine(t)' + Behind(commands', t) + Run(t)' BY <1>9, CountedNext
  <2>7. Mine(t) = Behind(urgent, t) + Behind(regular, t) + Behind(timers, t) BY DEF Mine
  <2>8. Mine(t)' = Behind(urgent', t) + Behind(regular', t) + Behind(timers', t) BY DEF Mine
  <2> QED BY <2>1, <2>2, <2>3, <2>4, <2>5, <2>6, <2>7, <2>8
<1>11. \A t \in Nat \ {0} : InFlight(t)' <= InFlight(t) BY <1>0, <1>10, Counted
<1>12. /\ {shared'.done, running'.token} \subseteq 0 .. tokens.token /\ running'.out <= tokens.out
       /\ \A r \in ToSet(commands') : r \in ToSet(commands) \/ r.out <= tokens.out
  BY <1>0, <1>2, <1>5, <1>6, <1>8 DEF Handed, Outs
<1> QED BY <1>2, <1>4, <1>9, <1>10, <1>11, <1>12, Elsewhere

-----------------------------------------------------------------------------
LEMMA InitHolds == Init => IInv
<1> SUFFICES ASSUME Init PROVE IInv OBVIOUS
<1> USE DEF Init
<1>1. Shape BY ReconnectAssumption DEF Shape, Controls, Runs, Idle, Reasons
<1>2. ToSet(<<>>) = {} BY EmptyQueue
<1>3. Outs BY <1>2 DEF Outs, Idle
<1>4. ASSUME NEW t \in Nat, t > 0 PROVE InFlight(t) = 0
  <2>1. Behind(<<>>, t) = 0 BY BehindNothing
  <2>2. running.token = 0 BY DEF Idle
  <2> QED BY <1>4, <2>1, <2>2 DEF InFlight
<1>5. Handed BY <1>4 DEF Handed, Idle
<1>6. Phases BY <1>2 DEF Phases
<1> QED BY <1>1, <1>3, <1>5, <1>6
        DEF IInv, ActiveChainHasOneWorker, AutomaticChainIsForThePlayingOutput

LEMMA NextKeeps == IInv /\ [Next]_vars => IInv'
<1> SUFFICES ASSUME IInv, [Next]_vars PROVE IInv' OBVIOUS
<1>1. CASE UNCHANGED vars
  <2>1. \A t : InFlight(t)' = InFlight(t) BY <1>1 DEF vars, InFlight
  <2>2. Shape' /\ Outs' /\ Phases' BY <1>1 DEF vars, IInv, Shape, Outs, Phases
  <2>3. Handed' BY <1>1, <2>1 DEF vars, IInv, Handed
  <2>4. ActiveChainHasOneWorker'
    <3>1. ctl' = ctl /\ ActiveChainHasOneWorker BY <1>1 DEF vars, IInv
    <3> QED BY <2>1, <3>1 DEF ActiveChainHasOneWorker
  <2>5. AutomaticChainIsForThePlayingOutput'
    BY <1>1 DEF vars, IInv, AutomaticChainIsForThePlayingOutput
  <2> QED BY <2>2, <2>3, <2>4, <2>5 DEF IInv
<1> QED
  BY <1>1, HandleStep, DropStep, BeginReconnectStep, OperateStep, RunShutdownStep, WorkSteps,
     SendFinishedStep, ScheduleRetryStep, BreakStep, RequestStep, FireStep, ForwardStep
     DEF Next, Execute

LEMMA IInvSound == IInv => ChainsAreSound
<1> SUFFICES ASSUME IInv PROVE ChainsAreSound OBVIOUS
<1>1. Shape /\ Outs /\ Handed BY DEF IInv
<1>2. TypeOK
  <2>1. /\ ctl \in Controls /\ unheard \in Reasons /\ running \in Runs
        /\ Len(commands) <= Capacity
    BY <1>1 DEF Shape
  <2>2. /\ ctl.state \in {"stopped", "playing", "paused"}
        /\ ctl.pending \in {"none", "play", "skip", "shutdown"}
    BY <2>1 DEF Controls
  <2>3. running.at \in {"idle", "run", "guarded", "done", "failed", "ok", "ended"}
    BY <2>1 DEF Runs
  <2> QED BY <1>1, <2>1, <2>2, <2>3 DEF TypeOK, Outs, Handed, Reasons
<1> QED BY <1>2 DEF IInv, ChainsAreSound

(* A chain of reconnects has exactly one worker from its beginning to the  *)
(* moment the controller lets go of it, and one that retries by itself is  *)
(* for the output a playing station plays to.                              *)
THEOREM ChainsHaveOneWorker == Spec => []ChainsAreSound
<1>1. Spec => []IInv BY InitHolds, NextKeeps, PTL DEF Spec
<1> QED BY <1>1, IInvSound, PTL
=============================================================================
