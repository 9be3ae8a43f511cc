--------------------------- MODULE LifecycleProofs ---------------------------
(***************************************************************************)
(* The requests that write a station's tables.  First the lifecycle        *)
(* control plane, for any number of requests and runtimes, any number of   *)
(* crashes and of lost command loops: who holds the lock and what the map  *)
(* contains, then what users and observers are promised, then that no      *)
(* queue change gets lost.                                                 *)
(*                                                                         *)
(* Then the programme and what plays from it, for any calendar, rows and   *)
(* requests: which days a rule takes place on, that bookings stay apart,   *)
(* that what is on at a moment is what plays; and the fills, for any       *)
(* sources, queue and numbers of fills, commits and edits between them.    *)
(***************************************************************************)
EXTENDS
  Lifecycle, AutoDj, FiniteSetTheorems, FunctionTheorems, WellFoundedInduction, TLAPS

\* The steps a task takes while it holds the lifecycle mutex.
Critical == PCs \ {"new", "snapshot", "waiting", "done"}

Answers == {"ok", "err", "replyLost", "cancelled"}

\* The mutex is held exactly by the task inside its critical section.
LockInv == \A t \in Tasks : pc[t] \in Critical <=> holder = t

\* Which operation can stand at which step.
OpFits(command, at) ==
    /\ at \in {"snapshot", "waiting"} => command # "none"
    /\ at \in {"persist", "persisted"} => command \in {"play", "stop", "restart"}
    /\ at \in {"shutdown", "drain"} => command \in {"stop", "restart", "delete"}

OpInv ==
    /\ op[Boot] # "none"
    /\ \A t \in Tasks : OpFits(op[t], pc[t])

\* A task that drains a runtime drains the mapped one, which is terminal.
DrainInv ==
    \A t \in Tasks :
        pc[t] = "drain" =>
            /\ mapped # None
            /\ mine[t] = mapped
            /\ runtime[mapped] \in {"stopping", "gone", "failed"}

\* What a task has checked of the row and the map stays true until it acts
\* on it, because it keeps the lock.
RowInv ==
    \A t \in Tasks :
        /\ pc[t] \in {"deleteRow", "deletedRow"} => mapped = None
        /\ pc[t] \in {"persisted", "attach", "attaching", "start"} => row # "deleted"

IInv ==
    /\ TypeOK
    /\ LockInv
    /\ OpInv
    /\ DrainInv
    /\ RowInv
    /\ NoOrphanRuntime
    /\ TerminalRuntimeIsRemoved
    /\ DeletedHasNoRuntime

----------------------------------------------------------------------------
USE LifecycleAssumption DEF Tasks, Commands, PCs

LEMMA InitIInv == Init => IInv
  BY DEF Init, IInv, TypeOK, LockInv, OpInv, OpFits, DrainInv, RowInv, Critical,
         NoOrphanRuntime, TerminalRuntimeIsRemoved, DeletedHasNoRuntime, Running

----------------------------------------------------------------------------
(* Control flow: what a step of a task inside its critical section does to   *)
(* the program counters, the mutex and the answers.                          *)

ControlTypeOK ==
    /\ pc \in [Tasks -> PCs]
    /\ holder \in Tasks \cup {None}
    /\ result \in [Tasks -> Answers \cup {"none"}]

\* The task stays inside at a step that fits its operation, or it ends.
Advances(t) ==
    \/ \E next \in Critical : Goto(t, next) /\ OpFits(op[t], next)
    \/ \E how \in Answers : End(t, how)

\* Every step under the lock keeps the lock or releases it by ending.
LEMMA WorkAdvances ==
    ASSUME OpInv, NEW t \in Tasks, Work(t)
    PROVE  pc[t] \in Critical /\ Advances(t) /\ op' = op
<1> USE DEF Critical, Answers, Advances, OpFits
<1>1. CASE Persist(t)    BY <1>1 DEF Persist, OpInv
<1>2. CASE Persisted(t)  BY <1>2 DEF Persisted, OpInv
<1>3. CASE DeleteRow(t)  BY <1>3 DEF DeleteRow
<1>4. CASE DeletedRow(t) BY <1>4 DEF DeletedRow
<1>5. CASE Recheck(t)    BY <1>5 DEF Recheck
<1>6. CASE Shutdown(t)   BY <1>6 DEF Shutdown, AfterShutdown, OpInv
<1>7. CASE Drain(t)      BY <1>7 DEF Drain, AfterShutdown, OpInv
<1>8. CASE Load(t)       BY <1>8 DEF Load
<1>9. CASE Attach(t)     BY <1>9 DEF Attach
<1>10. CASE Attached(t)  BY <1>10 DEF Attached
<1>11. CASE Start(t)     BY <1>11 DEF Start
<1>12. CASE ReadQueue(t) BY <1>12 DEF ReadQueue
<1>13. CASE Reload(t)    BY <1>13 DEF Reload
<1>14. CASE Reloaded(t)  BY <1>14 DEF Reloaded
<1> QED BY <1>1, <1>2, <1>3, <1>4, <1>5, <1>6, <1>7, <1>8, <1>9, <1>10,
           <1>11, <1>12, <1>13, <1>14 DEF Work

\* Such a step keeps the control state well formed and touches no other task.
LEMMA AdvanceControl ==
    ASSUME ControlTypeOK, LockInv, OpInv, NEW t \in Tasks,
           pc[t] \in Critical, Advances(t), op' = op
    PROVE  /\ ControlTypeOK' /\ LockInv' /\ OpInv'
           /\ \A u \in Tasks \ {t} : pc'[u] = pc[u] /\ pc[u] \notin Critical
           /\ holder' \in {t, None}
<1> USE DEF ControlTypeOK, LockInv, OpInv
<1>1. holder = t /\ \A u \in Tasks \ {t} : pc[u] \notin Critical
  OBVIOUS
<1>2. ASSUME NEW next \in Critical, Goto(t, next), OpFits(op[t], next)
      PROVE  /\ ControlTypeOK' /\ LockInv' /\ OpInv'
             /\ \A u \in Tasks \ {t} : pc'[u] = pc[u]
             /\ holder' = t
  <2>1. pc' = [pc EXCEPT ![t] = next] /\ holder' = t /\ result' = result
    BY <1>1, <1>2 DEF Goto
  <2>2. ControlTypeOK' BY <2>1 DEF Critical
  <2>3. LockInv' BY <1>1, <2>1
  <2>4. OpInv' BY <1>2, <2>1
  <2> QED BY <2>1, <2>2, <2>3, <2>4
<1>3. ASSUME NEW how \in Answers, End(t, how)
      PROVE  /\ ControlTypeOK' /\ LockInv' /\ OpInv'
             /\ \A u \in Tasks \ {t} : pc'[u] = pc[u]
             /\ holder' = None
  <2>1. /\ pc' = [pc EXCEPT ![t] = "done"] /\ holder' = None
        /\ result' = [result EXCEPT ![t] = how]
    BY <1>1, <1>3 DEF End
  <2>2. ControlTypeOK' BY <2>1
  <2>3. LockInv' BY <1>1, <2>1 DEF Critical
  <2>4. OpInv' BY <2>1 DEF OpFits
  <2> QED BY <2>1, <2>2, <2>3, <2>4
<1> QED BY <1>1, <1>2, <1>3 DEF Advances

----------------------------------------------------------------------------
(* The data a step under the lock changes. *)

DataTypeOK ==
    /\ row \in {"started", "stopped", "deleted"}
    /\ queueDb \in Nat
    /\ told \in {"started", "stopped", "deleted"}
    /\ mapped \in Runtimes \cup {None}
    /\ runtime \in [Runtimes ->
                      {"unborn", "live", "stopping", "gone", "failed", "lost"}]
    /\ loaded \in [Runtimes -> Nat]
    /\ inbox \in [Runtimes -> Seq(ReloadCommand)]
    /\ op \in [Tasks -> Commands \cup {"none", "sync", "restore"}]
    /\ seen \in [Tasks -> Nat]
    /\ mine \in [Tasks -> Runtimes \cup {None}]
    /\ crashes \in 0..MaxCrashes

LEMMA TypeSplit == TypeOK <=> DataTypeOK /\ ControlTypeOK
  BY DEF TypeOK, DataTypeOK, ControlTypeOK, Answers

LEMMA SendReloadType ==
    ASSUME DataTypeOK, NEW t \in Tasks, SendReload(t)
    PROVE  /\ inbox' \in [Runtimes -> Seq(ReloadCommand)]
           /\ mine' \in [Tasks -> Runtimes \cup {None}]
<1>1. mapped \in Runtimes
  BY DEF SendReload, MappedLive
<1>2. [from |-> t, version |-> seen[t]] \in ReloadCommand
  BY DEF DataTypeOK, ReloadCommand
<1>3. Append(inbox[mapped], [from |-> t, version |-> seen[t]]) \in Seq(ReloadCommand)
  BY <1>1, <1>2 DEF DataTypeOK
<1> QED BY <1>1, <1>3 DEF SendReload, DataTypeOK

LEMMA WorkDataType ==
    ASSUME DataTypeOK, OpInv, DrainInv, NEW t \in Tasks, Work(t)
    PROVE  DataTypeOK'
<1> USE DEF DataTypeOK, database, runtimes
<1>1. CASE Persist(t)    BY <1>1 DEF Persist, Desired
<1>2. CASE Persisted(t)  BY <1>2 DEF Persisted
<1>3. CASE DeleteRow(t)  BY <1>3 DEF DeleteRow
<1>4. CASE DeletedRow(t) BY <1>4 DEF DeletedRow
<1>5. CASE Recheck(t)    BY <1>5 DEF Recheck
<1>6. CASE Shutdown(t)
  <2>1. mapped' \in Runtimes \cup {None} BY <1>6 DEF Shutdown
  <2>2. runtime' = [runtime EXCEPT ![mapped] = "stopping"] \/ runtime' = runtime
    BY <1>6 DEF Shutdown
  <2>3. runtime' \in [Runtimes -> {"unborn", "live", "stopping", "gone", "failed", "lost"}]
    BY <2>2
  <2>4. mine' = [mine EXCEPT ![t] = mapped] \/ mine' = mine
    BY <1>6 DEF Shutdown
  <2>5. mine' \in [Tasks -> Runtimes \cup {None}]
    BY <2>4
  <2> QED BY <1>6, <2>1, <2>3, <2>5 DEF Shutdown
<1>7. CASE Drain(t)      BY <1>7 DEF Drain
<1>8. CASE Load(t)       BY <1>8 DEF Load
<1>9. CASE Attach(t)
  <2>1. ASSUME NEW r \in Runtimes,
               runtime' = [runtime EXCEPT ![r] = "live"],
               loaded' = [loaded EXCEPT ![r] = seen[t]],
               mapped' = r,
               UNCHANGED <<inbox, mine, database, op, seen, crashes>>
        PROVE  DataTypeOK'
    BY <2>1
  <2>2. CASE SendReload(t) /\ UNCHANGED <<mapped, runtime, loaded>>
    BY <1>9, <2>2, SendReloadType DEF Attach
  <2>3. CASE UNCHANGED <<mapped, runtimes, mine>>
    BY <1>9, <2>3 DEF Attach
  <2> QED BY <1>9, <2>1, <2>2, <2>3 DEF Attach
<1>10. CASE Attached(t)  BY <1>10 DEF Attached
<1>11. CASE Start(t)     BY <1>11 DEF Start
<1>12. CASE ReadQueue(t) BY <1>12 DEF ReadQueue
<1>13. CASE Reload(t)    BY <1>13, SendReloadType DEF Reload
<1>14. CASE Reloaded(t)  BY <1>14 DEF Reloaded
<1> QED BY <1>1, <1>2, <1>3, <1>4, <1>5, <1>6, <1>7, <1>8, <1>9, <1>10,
           <1>11, <1>12, <1>13, <1>14 DEF Work

----------------------------------------------------------------------------
(* The map of streamers. *)

MapInv ==
    /\ DrainInv
    /\ RowInv
    /\ NoOrphanRuntime
    /\ TerminalRuntimeIsRemoved
    /\ DeletedHasNoRuntime

\* What a step that leaves the map and the runtimes as they are must see to.
Quiet(t) ==
    /\ UNCHANGED <<mapped, runtime>>
    /\ row' = "deleted" => mapped = None
    /\ pc[t] # "drain" /\ pc'[t] # "drain"
    /\ pc'[t] \in {"deleteRow", "deletedRow"} => mapped = None
    /\ pc'[t] \in {"persisted", "attach", "attaching", "start"} => row' # "deleted"

LEMMA QuietMapInv ==
    ASSUME MapInv, LockInv, NEW t \in Tasks, pc[t] \in Critical, Quiet(t),
           \A u \in Tasks \ {t} : pc'[u] = pc[u] /\ pc[u] \notin Critical
    PROVE  MapInv'
<1> USE DEF MapInv, Quiet, Critical
<1>1. DrainInv' BY DEF DrainInv
<1>2. RowInv' BY DEF RowInv
<1>3. NoOrphanRuntime' BY DEF NoOrphanRuntime, Running
<1>4. TerminalRuntimeIsRemoved'
  BY DEF TerminalRuntimeIsRemoved, LockInv
<1>5. DeletedHasNoRuntime' BY DEF DeletedHasNoRuntime
<1> QED BY <1>1, <1>2, <1>3, <1>4, <1>5

\* A runtime that no longer runs leaves the map.
LEMMA UnmapMapInv ==
    ASSUME MapInv, NEW t \in Tasks, mapped \in Runtimes \cup {None},
           mapped' = None, runtime' = runtime, row' = row,
           runtime[mapped] \notin {"live", "stopping"},
           pc'[t] \in {"persist", "deleteRow", "done"},
           \A u \in Tasks \ {t} : pc'[u] = pc[u] /\ pc[u] \notin Critical
    PROVE  MapInv'
<1>1. DrainInv' /\ RowInv' BY DEF DrainInv, RowInv, Critical
<1>2. NoOrphanRuntime' BY DEF MapInv, NoOrphanRuntime, Running
<1>3. TerminalRuntimeIsRemoved' /\ DeletedHasNoRuntime'
  BY DEF TerminalRuntimeIsRemoved, DeletedHasNoRuntime
<1> QED BY <1>1, <1>2, <1>3 DEF MapInv

LEMMA WorkMapInv ==
    ASSUME TypeOK, LockInv, OpInv, MapInv, NEW t \in Tasks, Work(t), pc[t] \in Critical,
           \A u \in Tasks \ {t} : pc'[u] = pc[u] /\ pc[u] \notin Critical,
           holder' \in {t, None}, LockInv'
    PROVE  MapInv'
<1>1. ASSUME Quiet(t) PROVE MapInv'
  BY <1>1, QuietMapInv
<1>2. ControlTypeOK /\ DataTypeOK /\ holder = t
  BY TypeSplit DEF LockInv
<1>3. RowInv /\ DrainInv /\ DeletedHasNoRuntime /\ TerminalRuntimeIsRemoved /\ NoOrphanRuntime
  BY DEF MapInv
<1>4. row = "deleted" => mapped = None
  BY <1>3 DEF DeletedHasNoRuntime
<1> USE DEF Goto, End, ControlTypeOK, database, runtimes
<1>5. CASE Persist(t)
  <2>1. Quiet(t) BY <1>2, <1>4, <1>5 DEF Quiet, Persist, Desired
  <2> QED BY <1>1, <2>1
<1>6. CASE Persisted(t)
  <2>1. row # "deleted" BY <1>3, <1>6 DEF Persisted, RowInv
  <2>2. Quiet(t) BY <1>2, <1>6, <2>1 DEF Quiet, Persisted
  <2> QED BY <1>1, <2>2
<1>7. CASE DeleteRow(t)
  <2>1. mapped = None BY <1>3, <1>7 DEF DeleteRow, RowInv
  <2>2. Quiet(t) BY <1>2, <1>7, <2>1 DEF Quiet, DeleteRow
  <2> QED BY <1>1, <2>2
<1>8. CASE DeletedRow(t)
  <2>1. Quiet(t) BY <1>2, <1>4, <1>8 DEF Quiet, DeletedRow
  <2> QED BY <1>1, <2>1
<1>9. CASE Recheck(t)
  <2>1. Quiet(t) BY <1>2, <1>4, <1>9 DEF Quiet, Recheck
  <2> QED BY <1>1, <2>1
<1>10. CASE Load(t)
  <2>1. Quiet(t) BY <1>2, <1>4, <1>10 DEF Quiet, Load
  <2> QED BY <1>1, <2>1
<1>11. CASE Attached(t)
  <2>1. row # "deleted" BY <1>3, <1>11 DEF Attached, RowInv
  <2>2. Quiet(t) BY <1>2, <1>11, <2>1 DEF Quiet, Attached
  <2> QED BY <1>1, <2>2
<1>12. CASE Start(t)
  <2>1. Quiet(t) BY <1>2, <1>4, <1>12 DEF Quiet, Start
  <2> QED BY <1>1, <2>1
<1>13. CASE ReadQueue(t)
  <2>1. Quiet(t) BY <1>2, <1>4, <1>13 DEF Quiet, ReadQueue
  <2> QED BY <1>1, <2>1
<1>14. CASE Reload(t)
  <2>1. Quiet(t) BY <1>2, <1>4, <1>14 DEF Quiet, Reload
  <2> QED BY <1>1, <2>1
<1>15. CASE Reloaded(t)
  <2>1. Quiet(t) BY <1>2, <1>4, <1>15 DEF Quiet, Reloaded
  <2> QED BY <1>1, <2>1
<1>16. CASE Shutdown(t)
  <2>1. CASE mapped = None
    <3>1. Quiet(t) BY <1>2, <1>4, <1>16, <2>1 DEF Quiet, Shutdown, AfterShutdown, MappedLive, OpInv, OpFits
    <3> QED BY <1>1, <3>1
  <2>2. CASE MappedLive
    <3>1. PICK r \in Runtimes : mapped = r /\ runtime[r] = "live"
      BY <2>2 DEF MappedLive
    <3>2. /\ runtime' = [runtime EXCEPT ![r] = "stopping"]
          /\ mine' = [mine EXCEPT ![t] = r]
          /\ pc' = [pc EXCEPT ![t] = "drain"]
          /\ holder' = holder /\ mapped' = r /\ row' = row
      BY <1>16, <2>2, <3>1 DEF Shutdown
    <3>3. DrainInv' BY <1>2, <3>1, <3>2 DEF DrainInv, DataTypeOK, Critical
    <3>4. RowInv' BY <1>2, <3>2 DEF RowInv, Critical
    <3>5. NoOrphanRuntime'
      BY <1>2, <1>3, <3>1, <3>2 DEF NoOrphanRuntime, Running, DataTypeOK
    <3>6. TerminalRuntimeIsRemoved'
      BY <1>2, <3>1, <3>2 DEF TerminalRuntimeIsRemoved, DataTypeOK
    <3>7. DeletedHasNoRuntime' BY <1>4, <3>1, <3>2 DEF DeletedHasNoRuntime
    <3> QED BY <3>3, <3>4, <3>5, <3>6, <3>7 DEF MapInv
  <2>3. CASE mapped # None /\ ~MappedLive
    <3>1. /\ mapped' = None /\ runtime' = runtime /\ row' = row
          /\ pc' = [pc EXCEPT ![t] = "done"]
      BY <1>2, <1>16, <2>3 DEF Shutdown
    <3>2. pc[t] = "shutdown" BY <1>16 DEF Shutdown
    <3>3. runtime[mapped] \notin {"live", "stopping"}
      BY <1>2, <1>3, <2>3, <3>2 DEF MappedLive, TerminalRuntimeIsRemoved, DataTypeOK
    <3>4. pc'[t] = "done" BY <1>2, <3>1
    <3> QED BY <1>2, <3>1, <3>3, <3>4, UnmapMapInv DEF DataTypeOK
  <2> QED BY <2>1, <2>2, <2>3
<1>17. CASE Drain(t)
  <2>1. /\ mapped # None /\ mine[t] = mapped /\ runtime[mapped] \in {"gone", "failed"}
        /\ mapped' = None /\ runtime' = runtime /\ row' = row
    BY <1>3, <1>17 DEF Drain, DrainInv
  <2>2. pc'[t] \in {"persist", "deleteRow", "done"}
    BY <1>2, <1>17 DEF Drain, AfterShutdown, OpInv, OpFits
  <2> QED BY <1>2, <2>1, <2>2, UnmapMapInv DEF DataTypeOK
<1>18. CASE Attach(t)
  <2>1. row # "deleted" BY <1>3, <1>18 DEF Attach, RowInv
  <2>2. CASE mapped = None
    <3>1. CASE Quiet(t) BY <1>1, <3>1
    <3>2. ASSUME NEW r \in Runtimes, runtime' = [runtime EXCEPT ![r] = "live"],
                 mapped' = r, Goto(t, "start")
          PROVE  MapInv'
      <4>1. row' = row /\ pc' = [pc EXCEPT ![t] = "start"] BY <1>18, <3>2 DEF Attach
      <4>2. DrainInv' /\ RowInv' BY <1>2, <2>1, <4>1 DEF DrainInv, RowInv, Critical
      <4>3. NoOrphanRuntime'
        BY <1>2, <1>3, <2>2, <3>2 DEF NoOrphanRuntime, Running, DataTypeOK
      <4>4. TerminalRuntimeIsRemoved'
        BY <1>2, <3>2 DEF TerminalRuntimeIsRemoved, DataTypeOK
      <4>5. DeletedHasNoRuntime' BY <2>1, <4>1 DEF DeletedHasNoRuntime
      <4> QED BY <4>2, <4>3, <4>4, <4>5 DEF MapInv
    <3>3. \/ \E r \in Runtimes : /\ runtime' = [runtime EXCEPT ![r] = "live"]
                                /\ mapped' = r /\ Goto(t, "start")
          \/ Quiet(t)
      <4> HIDE DEF Goto
      <4>1. \/ \E r \in Runtimes : /\ runtime' = [runtime EXCEPT ![r] = "live"]
                                  /\ mapped' = r /\ Goto(t, "start")
            \/ UNCHANGED <<mapped, runtime>> /\ End(t, "err")
        BY <1>18, <2>2 DEF Attach, SendReload, MappedLive
      <4>2. ASSUME UNCHANGED <<mapped, runtime>>, End(t, "err") PROVE Quiet(t)
        BY <1>2, <1>18, <2>2, <4>2 DEF Quiet, Attach
      <4> QED BY <4>1, <4>2
    <3> QED BY <3>1, <3>2, <3>3
  <2>3. CASE mapped # None
    <3>1. Quiet(t) BY <1>2, <1>18, <2>1, <2>3 DEF Quiet, Attach
    <3> QED BY <1>1, <3>1
  <2> QED BY <2>2, <2>3
<1> QED BY <1>5, <1>6, <1>7, <1>8, <1>9, <1>10, <1>11, <1>12, <1>13,
           <1>14, <1>15, <1>16, <1>17, <1>18 DEF Work

LEMMA WorkIInv ==
    ASSUME IInv, NEW t \in Tasks, Work(t)
    PROVE  IInv'
<1> USE TypeSplit DEF IInv
<1>1. pc[t] \in Critical /\ Advances(t) /\ op' = op
  BY WorkAdvances
<1>2. /\ ControlTypeOK' /\ LockInv' /\ OpInv'
      /\ \A u \in Tasks \ {t} : pc'[u] = pc[u] /\ pc[u] \notin Critical
      /\ holder' \in {t, None}
  BY <1>1, AdvanceControl
<1>3. DataTypeOK'
  BY WorkDataType
<1>4. MapInv'
  BY <1>1, <1>2, WorkMapInv DEF MapInv
<1>5. TypeOK'
  <2>1. (TypeOK <=> DataTypeOK /\ ControlTypeOK)' BY TypeSplit, PTL
  <2> QED BY <1>2, <1>3, <2>1
<1> QED BY <1>2, <1>4, <1>5 DEF MapInv

----------------------------------------------------------------------------
(* Everything else: callers, runtimes and crashes. *)

\* A task outside its critical section moves to another step outside.
LEMMA OutsideIInv ==
    ASSUME IInv, TypeOK', NEW t \in Tasks, NEW next \in PCs \ Critical,
           pc[t] \notin Critical, pc' = [pc EXCEPT ![t] = next],
           op'[t] # "none", \A u \in Tasks \ {t} : op'[u] = op[u],
           UNCHANGED <<row, mapped, runtime, holder, mine>>
    PROVE  IInv'
<1> USE DEF IInv
<1>1. \A u \in Tasks : IF u = t THEN pc'[u] = next ELSE pc'[u] = pc[u]
  BY DEF TypeOK
<1>2. LockInv' BY <1>1 DEF LockInv
<1>3. OpInv' BY <1>1 DEF OpInv, OpFits, Critical
<1>4. DrainInv' BY <1>1 DEF DrainInv, Critical
<1>5. RowInv' BY <1>1 DEF RowInv, Critical
<1>6. NoOrphanRuntime' BY DEF NoOrphanRuntime, Running
<1>7. TerminalRuntimeIsRemoved' BY <1>1 DEF TerminalRuntimeIsRemoved, Critical, TypeOK
<1>8. DeletedHasNoRuntime' BY DEF DeletedHasNoRuntime
<1> QED BY <1>2, <1>3, <1>4, <1>5, <1>6, <1>7, <1>8

\* A caller that arrives or leaves, or a task that takes the mutex.
LEMMA CallerIInv ==
    ASSUME IInv, NEW t \in Tasks,
           \/ t \in Requests /\ \E command \in Commands : Submit(t, command)
           \/ t \in Requests /\ MutateQueue(t)
           \/ RestoreSnapshot(t)
           \/ Acquire(t)
           \/ Cancel(t)
    PROVE  IInv'
<1>0. TypeOK /\ LockInv /\ OpInv /\ MapInv /\ DataTypeOK /\ ControlTypeOK
  BY TypeSplit DEF IInv, MapInv
<1>1. ASSUME NEW command \in Commands, Submit(t, command) PROVE IInv'
  <2>1. TypeOK' BY <1>0, <1>1 DEF Submit, Goto, TypeOK, database, runtimes
  <2>2. /\ pc[t] = "new" /\ pc' = [pc EXCEPT ![t] = "waiting"]
        /\ op' = [op EXCEPT ![t] = command]
        /\ UNCHANGED <<row, mapped, runtime, holder, mine>>
    BY <1>1 DEF Submit, Goto, database, runtimes
  <2>3. op'[t] # "none" BY <1>0, <2>2 DEF TypeOK
  <2>4. \A u \in Tasks \ {t} : op'[u] = op[u] BY <1>0, <2>2 DEF TypeOK
  <2> QED BY <2>1, <2>2, <2>3, <2>4, OutsideIInv DEF Critical
<1>2. CASE MutateQueue(t)
  <2>1. TypeOK' BY <1>0, <1>2 DEF MutateQueue, Goto, TypeOK, runtimes
  <2>2. /\ pc[t] = "new" /\ pc' = [pc EXCEPT ![t] = "waiting"]
        /\ op' = [op EXCEPT ![t] = "sync"]
        /\ UNCHANGED <<row, mapped, runtime, holder, mine>>
    BY <1>2 DEF MutateQueue, Goto, runtimes
  <2>3. op'[t] # "none" BY <1>0, <2>2 DEF TypeOK
  <2>4. \A u \in Tasks \ {t} : op'[u] = op[u] BY <1>0, <2>2 DEF TypeOK
  <2> QED BY <2>1, <2>2, <2>3, <2>4, OutsideIInv DEF Critical
<1>3. CASE RestoreSnapshot(t)
  <2>1. PICK next \in {"waiting", "done"} :
           /\ pc[t] = "snapshot" /\ pc' = [pc EXCEPT ![t] = next]
           /\ \/ result' = result
              \/ \E how \in {"ok", "err"} : result' = [result EXCEPT ![t] = how]
           /\ UNCHANGED <<row, mapped, runtime, holder, mine, op>>
    BY <1>0, <1>3 DEF RestoreSnapshot, Goto, End, database, runtimes, LockInv, Critical
  <2>2. DataTypeOK' BY <1>0, <1>3 DEF RestoreSnapshot, DataTypeOK, database, runtimes
  <2>3. ControlTypeOK' BY <1>0, <2>1 DEF ControlTypeOK, Answers
  <2>4. TypeOK' BY <2>2, <2>3 DEF TypeOK, DataTypeOK, ControlTypeOK, Answers
  <2>5. op[t] # "none" BY <1>0, <2>1 DEF OpInv, OpFits
  <2> QED BY <2>1, <2>4, <2>5, OutsideIInv DEF Critical
<1>4. CASE Acquire(t)
  <2>1. /\ pc[t] = "waiting" /\ holder = None /\ holder' = t
        /\ pc' = [pc EXCEPT ![t] = FirstStep(op[t])]
        /\ UNCHANGED <<row, mapped, runtime, mine, op, result>>
    BY <1>4 DEF Acquire, database, runtimes
  <2>2. \/ FirstStep(op[t]) = "persist" /\ op[t] \in {"play", "stop"}
        \/ FirstStep(op[t]) = "shutdown" /\ op[t] \in {"restart", "delete"}
        \/ FirstStep(op[t]) \in {"read", "recheck"}
    BY <1>0, <2>1 DEF FirstStep, OpInv, OpFits, DataTypeOK
  <2>3. \A u \in Tasks : pc[u] \notin Critical BY <1>0, <2>1 DEF LockInv
  <2>4. \A u \in Tasks : pc'[u] = IF u = t THEN FirstStep(op[t]) ELSE pc[u]
    BY <1>0, <2>1 DEF ControlTypeOK
  <2>5. DataTypeOK' BY <1>0, <1>4 DEF Acquire, DataTypeOK, database, runtimes
  <2>6. ControlTypeOK' BY <1>0, <2>1, <2>2 DEF ControlTypeOK
  <2>7. TypeOK' BY <2>5, <2>6 DEF TypeOK, DataTypeOK, ControlTypeOK, Answers
  <2>8. LockInv' BY <2>1, <2>2, <2>3, <2>4 DEF LockInv, Critical
  <2>9. OpInv' BY <1>0, <2>1, <2>2, <2>4 DEF OpInv, OpFits
  <2>10. DrainInv' /\ RowInv' BY <2>2, <2>3, <2>4 DEF DrainInv, RowInv, Critical
  <2>11. /\ NoOrphanRuntime' /\ DeletedHasNoRuntime' /\ TerminalRuntimeIsRemoved'
    BY <1>0, <2>1 DEF MapInv, NoOrphanRuntime, Running, DeletedHasNoRuntime,
                      TerminalRuntimeIsRemoved
  <2> QED BY <2>7, <2>8, <2>9, <2>10, <2>11 DEF IInv
<1>5. CASE Cancel(t)
  <2>1. End(t, "cancelled") /\ UNCHANGED <<row, mapped, runtime, mine, op>>
    BY <1>5 DEF Cancel, database, runtimes
  <2>2. DataTypeOK' BY <1>0, <1>5 DEF Cancel, DataTypeOK, database, runtimes
  <2>3. CASE pc[t] = "waiting"
    <3>1. pc' = [pc EXCEPT ![t] = "done"] /\ holder' = holder
      BY <1>0, <2>1, <2>3 DEF End, LockInv, Critical
    <3>2. ControlTypeOK' BY <1>0, <2>1, <3>1 DEF End, ControlTypeOK, Answers
    <3>3. TypeOK' BY <2>2, <3>2 DEF TypeOK, DataTypeOK, ControlTypeOK, Answers
    <3>4. op[t] # "none" BY <1>0, <2>3 DEF OpInv, OpFits
    <3> QED BY <2>1, <2>3, <3>1, <3>3, <3>4, OutsideIInv DEF Critical
  <2>4. CASE pc[t] \in {"read", "reload", "reloading", "shutdown"}
    <3>1. pc[t] \in Critical /\ Advances(t)
      BY <2>1, <2>4 DEF Critical, Advances, Answers
    <3>2. /\ ControlTypeOK' /\ LockInv' /\ OpInv'
          /\ \A u \in Tasks \ {t} : pc'[u] = pc[u] /\ pc[u] \notin Critical
      BY <1>0, <2>1, <3>1, AdvanceControl
    <3>3. Quiet(t)
      BY <1>0, <2>1, <2>4 DEF Quiet, End, ControlTypeOK, MapInv, DeletedHasNoRuntime
    <3>4. MapInv' BY <1>0, <3>1, <3>2, <3>3, QuietMapInv
    <3>5. TypeOK' BY <2>2, <3>2 DEF TypeOK, DataTypeOK, ControlTypeOK, Answers
    <3> QED BY <3>2, <3>4, <3>5 DEF IInv, MapInv
  <2> QED BY <1>5, <2>3, <2>4 DEF Cancel, CallerOwned
<1> QED BY <1>1, <1>2, <1>3, <1>4, <1>5

\* A runtime applies a command, answers its Shutdown or dies.
LEMMA RuntimeIInv ==
    ASSUME IInv, NEW r \in Runtimes, RuntimeStep(r) \/ RuntimeLost(r)
    PROVE  IInv'
<1>1. /\ UNCHANGED <<database, mapped, holder, op, pc, seen, mine, result, crashes>>
      /\ loaded' \in [Runtimes -> Nat]
      /\ inbox' \in [Runtimes -> Seq(ReloadCommand)]
  <2>1. CASE RuntimeReload(r)
    <3>1. Head(inbox[r]) \in ReloadCommand /\ Tail(inbox[r]) \in Seq(ReloadCommand)
      BY <2>1 DEF RuntimeReload, IInv, TypeOK
    <3>2. Head(inbox[r]).version \in Nat
      BY <3>1 DEF ReloadCommand
    <3> QED BY <2>1, <3>1, <3>2 DEF RuntimeReload, IInv, TypeOK
  <2>2. CASE RuntimeStops(r) BY <2>2 DEF RuntimeStops, IInv, TypeOK
  <2>3. CASE RuntimeLost(r)
    <3>1. << >> \in Seq(ReloadCommand) OBVIOUS
    <3> QED BY <2>3, <3>1 DEF RuntimeLost, IInv, TypeOK
  <2> QED BY <2>1, <2>2, <2>3 DEF RuntimeStep
<1>2. \/ runtime' = runtime
      \/ runtime[r] = "stopping" /\ \E how \in {"gone", "failed"} :
                                      runtime' = [runtime EXCEPT ![r] = how]
      \/ runtime[r] = "live" /\ runtime' = [runtime EXCEPT ![r] = "lost"]
  BY DEF RuntimeStep, RuntimeReload, RuntimeStops, RuntimeLost
<1>8. runtime' \in [Runtimes -> {"unborn", "live", "stopping", "gone", "failed", "lost"}]
  <2>1. runtime \in [Runtimes -> {"unborn", "live", "stopping", "gone", "failed", "lost"}]
    BY DEF IInv, TypeOK
  <2>2. CASE runtime' = runtime BY <2>1, <2>2
  <2>3. ASSUME NEW how \in {"gone", "failed", "lost"}, runtime' = [runtime EXCEPT ![r] = how]
        PROVE  runtime' \in [Runtimes -> {"unborn", "live", "stopping", "gone", "failed", "lost"}]
    BY <2>1, <2>3
  <2> QED BY <1>2, <2>2, <2>3
<1> USE <1>1, <1>2 DEF IInv, database
<1>3. TypeOK' BY <1>8 DEF TypeOK
<1>4. LockInv' /\ OpInv' /\ RowInv' /\ DeletedHasNoRuntime'
  BY DEF LockInv, OpInv, RowInv, DeletedHasNoRuntime
<1>5. DrainInv' BY DEF DrainInv, TypeOK
<1>6. NoOrphanRuntime' BY DEF NoOrphanRuntime, Running, TypeOK
<1>7. TerminalRuntimeIsRemoved'
  BY DEF TerminalRuntimeIsRemoved, TypeOK
<1> QED BY <1>3, <1>4, <1>5, <1>6, <1>7

\* Only the row survives a crash, and with it every fact about it.
LEMMA CrashIInv ==
    ASSUME IInv, Crash
    PROVE  IInv'
<1> USE DEF IInv, Crash
<1>1. TypeOK'
  <2>1. inbox' \in [Runtimes -> Seq(ReloadCommand)]
    <3>1. << >> \in Seq(ReloadCommand) OBVIOUS
    <3> QED BY <3>1
  <2>2. pc' \in [Tasks -> PCs] BY DEF TypeOK
  <2>3. result' \in [Tasks -> {"none", "ok", "err", "replyLost", "cancelled"}]
    BY DEF TypeOK
  <2>4. runtime' \in [Runtimes -> {"unborn", "live", "stopping", "gone", "failed", "lost"}]
    BY DEF TypeOK
  <2> QED BY <2>1, <2>2, <2>3, <2>4 DEF TypeOK
<1>2. LockInv' /\ OpInv' /\ DrainInv' /\ RowInv'
  <2>1. \A u \in Tasks : pc'[u] \in {"snapshot", "new", "done"}
    OBVIOUS
  <2> QED BY <2>1 DEF LockInv, OpInv, OpFits, DrainInv, RowInv, Critical
<1>3. NoOrphanRuntime' /\ TerminalRuntimeIsRemoved' /\ DeletedHasNoRuntime'
  BY DEF NoOrphanRuntime, Running, TerminalRuntimeIsRemoved, DeletedHasNoRuntime
<1> QED BY <1>1, <1>2, <1>3

LEMMA NextIInv == IInv /\ [Next]_vars => IInv'
<1>1. ASSUME IInv, UNCHANGED vars PROVE IInv'
  BY <1>1 DEF vars, database, runtimes, IInv, TypeOK, LockInv, OpInv, OpFits, DrainInv,
     RowInv, NoOrphanRuntime, Running, TerminalRuntimeIsRemoved, DeletedHasNoRuntime
<1> QED BY <1>1, WorkIInv, CallerIInv, RuntimeIInv, CrashIInv DEF Next, Idle

----------------------------------------------------------------------------
LEMMA SpecIInv == Spec => []IInv
  BY InitIInv, NextIInv, PTL DEF Spec

\* Type correctness of the control plane.
THEOREM TypeCorrect == Spec => []TypeOK
<1>1. IInv => TypeOK BY DEF IInv
<1> QED BY <1>1, SpecIInv, PTL

\* The mutex protects the whole of every transition, detached ones included.
THEOREM OneTransitionAtATime == Spec => []LockInv
<1>1. IInv => LockInv BY DEF IInv
<1> QED BY <1>1, SpecIInv, PTL

\* No runtime broadcasts outside the map of streamers.
THEOREM NoOrphan == Spec => []NoOrphanRuntime
<1>1. IInv => NoOrphanRuntime BY DEF IInv
<1> QED BY <1>1, SpecIInv, PTL

\* A runtime that was told to shut down is removed by whoever told it.
THEOREM TerminalRemoved == Spec => []TerminalRuntimeIsRemoved
<1>1. IInv => TerminalRuntimeIsRemoved BY DEF IInv
<1> QED BY <1>1, SpecIInv, PTL

\* No two runtimes broadcast, and none that was shut down is reused.
THEOREM OneRuntimeAtATime == Spec => []OneRuntime
<1>1. NoOrphanRuntime /\ TerminalRuntimeIsRemoved => OneRuntime BY DEF OneRuntime
<1> QED BY <1>1, NoOrphan, TerminalRemoved, PTL

\* No station comes back from its deletion.
THEOREM DeletedStaysSilent == Spec => []DeletedHasNoRuntime
<1>1. IInv => DeletedHasNoRuntime BY DEF IInv
<1> QED BY <1>1, SpecIInv, PTL

-----------------------------------------------------------------------------
(***************************************************************************)
(* What the control plane promises to users and observers.  The invariant  *)
(* above says who holds the lock and what the map contains; here it is     *)
(* joined by what a task has done to the row so far.                       *)
(***************************************************************************)

\* The steps of an operation under the lock.
StepsOf(command) ==
    CASE command = "play"    -> {"persist", "persisted", "load", "attach", "attaching", "start"}
      [] command = "stop"    -> {"persist", "persisted", "shutdown", "drain"}
      [] command = "restart" -> {"shutdown", "drain", "persist", "persisted", "load",
                                 "attach", "attaching", "start"}
      [] command = "delete"  -> {"shutdown", "drain", "deleteRow", "deletedRow"}
      [] command = "sync"    -> {"read", "reload", "reloading"}
      [] command = "restore" -> {"recheck", "load", "attach", "attaching", "start"}
      [] OTHER               -> {}

StepInv ==
    /\ op[Boot] = "restore"
    /\ \A t \in Tasks : pc[t] \in Critical => pc[t] \in StepsOf(op[t])
    /\ \A t \in Tasks : pc[t] = "new" => op[t] = "none"
    /\ \A t \in Requests : pc[t] # "snapshot"

\* A task that was answered has ended.
EndedInv == \A t \in Tasks : result[t] # "none" => pc[t] = "done"

\* What a task has made or found of the row stays so while it is at work.
IntentInv ==
    \A t \in Tasks :
        /\ pc[t] = "persisted" => row = Desired(op[t])
        /\ pc[t] \in {"load", "attach", "attaching", "start"} => row = "started"
        /\ pc[t] \in {"shutdown", "drain"} /\ op[t] = "stop" => row = "stopped"
        /\ pc[t] = "deletedRow" => row = "deleted"

\* A Stop that answers for a runtime of a stopped station: it has written
\* the row, and has yet to remove the runtime unless its reply was lost.
AnswersFor(t) ==
    /\ op[t] = "stop"
    /\ \/ result[t] = "replyLost"
       \/ holder = t /\ pc[t] \in {"persisted", "shutdown", "drain"}

StopInv == mapped # None /\ row = "stopped" => \E t \in Requests : AnswersFor(t)

\* Observers are behind only while whoever changed the row is about to tell
\* them, or after the reply of a change was lost.
Untold(t) == result[t] = "replyLost" \/ pc[t] \in {"persisted", "deletedRow"}

ToldInv == told # row => \E t \in Requests : Untold(t)

PInv == StepInv /\ EndedInv /\ IntentInv /\ StopInv /\ ToldInv

----------------------------------------------------------------------------
USE LifecycleAssumption DEF Tasks, Commands, PCs

LEMMA InitPInv == Init => PInv
  BY DEF Init, PInv, StepInv, EndedInv, IntentInv, StopInv, ToldInv, Critical

\* What a task at work does to itself.
Moved(t, next) == pc'[t] = next /\ result'[t] = result[t] /\ holder' = t
Ended(t, how) == pc'[t] = "done" /\ result'[t] = how /\ holder' = None

\* It leaves the others alone, none of which is at work.
Alone(t) ==
    /\ holder = t /\ op' = op
    /\ \A u \in Tasks \ {t} : pc'[u] = pc[u] /\ pc[u] \notin Critical /\ result'[u] = result[u]

LEMMA GotoMoves ==
    ASSUME ControlTypeOK, NEW t \in Tasks, holder = t, NEW next, Goto(t, next)
    PROVE  Moved(t, next)
  BY DEF ControlTypeOK, Goto, Moved

LEMMA EndEnds ==
    ASSUME ControlTypeOK, NEW t \in Tasks, holder = t, NEW how, End(t, how)
    PROVE  Ended(t, how)
  BY DEF ControlTypeOK, End, Ended

LEMMA WorkIsAlone ==
    ASSUME IInv, NEW t \in Tasks, Work(t)
    PROVE  Alone(t) /\ pc[t] \in Critical /\ ControlTypeOK
<1>1. ControlTypeOK /\ LockInv /\ OpInv
  BY TypeSplit DEF IInv
<1>2. pc[t] \in Critical /\ Advances(t) /\ op' = op
  BY <1>1, WorkAdvances
<1>3. \A u \in Tasks \ {t} : pc'[u] = pc[u] /\ pc[u] \notin Critical
  BY <1>1, <1>2, AdvanceControl
<1>4. \A u \in Tasks \ {t} : result'[u] = result[u]
  BY <1>1, <1>2 DEF Advances, Goto, End, ControlTypeOK
<1> QED BY <1>1, <1>2, <1>3, <1>4 DEF Alone, LockInv

\* What the step of a task at work must see to, for the promises to stay.
Keeps(t) ==
    /\ pc'[t] \in Critical => pc'[t] \in StepsOf(op[t])
    /\ pc'[t] \notin {"new", "snapshot"}
    /\ result'[t] # "none" => pc'[t] = "done"
    /\ pc'[t] = "persisted" => row' = Desired(op[t])
    /\ pc'[t] \in {"load", "attach", "attaching", "start"} => row' = "started"
    /\ pc'[t] \in {"shutdown", "drain"} /\ op[t] = "stop" => row' = "stopped"
    /\ pc'[t] = "deletedRow" => row' = "deleted"
    /\ mapped' # None /\ row' = "stopped" =>
          AnswersFor(t)' \/ (mapped # None /\ row = "stopped" /\ ~ AnswersFor(t))
    /\ told' # row' =>
          (t # Boot /\ Untold(t)') \/ (told # row /\ ~ Untold(t))

LEMMA KeepsPInv ==
    ASSUME PInv, NEW t \in Tasks, Alone(t), Keeps(t)
    PROVE  PInv'
<1> USE DEF PInv, Alone, Keeps
<1>1. StepInv' BY DEF StepInv
<1>2. EndedInv' BY DEF EndedInv
<1>3. IntentInv' BY DEF IntentInv, Critical
<1>4. StopInv'
  <2>1. SUFFICES ASSUME mapped' # None, row' = "stopped"
                 PROVE  \E u \in Requests : AnswersFor(u)'
    BY DEF StopInv
  <2>2. CASE AnswersFor(t)'
    <3>1. t # Boot BY <2>2 DEF AnswersFor, StepInv
    <3> QED BY <2>2, <3>1
  <2>3. CASE mapped # None /\ row = "stopped" /\ ~ AnswersFor(t)
    <3>1. PICK u \in Requests : AnswersFor(u) BY <2>3 DEF StopInv
    <3>2. u # t BY <2>3, <3>1
    <3>3. AnswersFor(u)' BY <3>1, <3>2 DEF AnswersFor
    <3> QED BY <3>3
  <2> QED BY <2>1, <2>2, <2>3
<1>5. ToldInv'
  <2>1. SUFFICES ASSUME told' # row' PROVE \E u \in Requests : Untold(u)'
    BY DEF ToldInv
  <2>2. CASE t # Boot /\ Untold(t)' BY <2>2
  <2>3. CASE told # row /\ ~ Untold(t)
    <3>1. PICK u \in Requests : Untold(u) BY <2>3 DEF ToldInv
    <3>2. u # t BY <2>3, <3>1
    <3>3. Untold(u)' BY <3>1, <3>2 DEF Untold
    <3> QED BY <3>3
  <2> QED BY <2>1, <2>2, <2>3
<1> QED BY <1>1, <1>2, <1>3, <1>4, <1>5

\* The table of steps, read from the step to the operation.
At(command, at) ==
    /\ at \in {"persist", "persisted"} => command \in {"play", "stop", "restart"}
    /\ at \in {"shutdown", "drain"} => command \in {"stop", "restart", "delete"}
    /\ at \in {"deleteRow", "deletedRow"} => command = "delete"
    /\ at \in {"load", "attach", "attaching", "start"} => command \in {"play", "restart", "restore"}
    /\ at = "recheck" => command = "restore"
    /\ at \in {"read", "reload", "reloading"} => command = "sync"

LEMMA StepTable ==
    ASSUME NEW command, NEW at \in Critical
    PROVE  at \in StepsOf(command) <=> At(command, at)
<1> USE DEF At
<1>1. CASE command = "play" BY <1>1 DEF Critical, StepsOf
<1>2. CASE command = "stop" BY <1>2 DEF Critical, StepsOf
<1>3. CASE command = "restart" BY <1>3 DEF Critical, StepsOf
<1>4. CASE command = "delete" BY <1>4 DEF Critical, StepsOf
<1>5. CASE command = "sync" BY <1>5 DEF Critical, StepsOf
<1>6. CASE command = "restore" BY <1>6 DEF Critical, StepsOf
<1>7. CASE command \notin {"play", "stop", "restart", "delete", "sync", "restore"}
  <2>1. StepsOf(command) = {} BY <1>7 DEF StepsOf
  <2>2. ~ At(command, at) BY <1>7 DEF Critical
  <2> QED BY <2>1, <2>2
<1> QED BY <1>1, <1>2, <1>3, <1>4, <1>5, <1>6, <1>7

\* A step that keeps row and news, and the map unless it has just been
\* allowed to run, has only to see to its own step.
Proceeds(t) ==
    /\ UNCHANGED <<row, told>>
    /\ mapped' \in {mapped, None} \/ row = "started"
    /\ pc[t] \notin {"persisted", "deletedRow"}
    /\ pc[t] \in {"shutdown", "drain"} /\ op[t] = "stop" =>
          mapped' = None \/ pc'[t] \in {"shutdown", "drain"}
    /\ \/ \E how \in {"ok", "err"} : Ended(t, how)
       \/ \E next \in Critical \ {"persisted", "deletedRow"} :
             /\ Moved(t, next) /\ At(op[t], next)
             /\ next \in {"load", "attach", "attaching", "start"} => row = "started"
             /\ next \in {"shutdown", "drain"} /\ op[t] = "stop" => row = "stopped"

LEMMA ProceedsKeeps ==
    ASSUME PInv, NEW t \in Tasks, Alone(t), pc[t] \in Critical, Proceeds(t)
    PROVE  Keeps(t)
<1>1. result[t] = "none" /\ holder = t /\ op' = op
  BY DEF PInv, EndedInv, Alone, Critical
<1>2. ASSUME NEW how \in {"ok", "err"}, Ended(t, how) PROVE Keeps(t)
  <2>1. mapped' # None /\ row' = "stopped" => mapped # None /\ row = "stopped" /\ ~ AnswersFor(t)
    BY <1>1, <1>2 DEF Proceeds, AnswersFor, Ended
  <2>2. told' # row' => told # row /\ ~ Untold(t)
    BY <1>1 DEF Proceeds, Untold
  <2> QED BY <1>2, <2>1, <2>2 DEF Keeps, Ended, Critical
<1>3. ASSUME NEW next \in Critical \ {"persisted", "deletedRow"}, Moved(t, next),
             At(op[t], next),
             next \in {"load", "attach", "attaching", "start"} => row = "started",
             next \in {"shutdown", "drain"} /\ op[t] = "stop" => row = "stopped"
      PROVE Keeps(t)
  <2>1. mapped' # None /\ row' = "stopped" =>
          AnswersFor(t)' \/ (mapped # None /\ row = "stopped" /\ ~ AnswersFor(t))
    BY <1>1, <1>3 DEF Proceeds, AnswersFor, Moved
  <2>2. told' # row' => told # row /\ ~ Untold(t)
    BY <1>1 DEF Proceeds, Untold
  <2>3. next \in StepsOf(op[t])
    BY <1>3, StepTable
  <2> QED BY <1>1, <1>3, <2>1, <2>2, <2>3 DEF Keeps, Moved, Critical, Proceeds
<1> QED BY <1>2, <1>3 DEF Proceeds

LEMMA WorkKeeps ==
    ASSUME IInv, PInv, NEW t \in Tasks, Work(t)
    PROVE  Keeps(t)
<1>1. Alone(t) /\ pc[t] \in Critical /\ ControlTypeOK /\ holder = t
  BY WorkIsAlone DEF Alone
<1>2. At(op[t], pc[t]) BY <1>1, StepTable DEF PInv, StepInv
<1>3. ASSUME Proceeds(t) PROVE Keeps(t)
  BY <1>1, <1>3, ProceedsKeeps
<1>4. ASSUME NEW next, Goto(t, next) PROVE Moved(t, next)
  BY <1>1, <1>4, GotoMoves
<1>5. ASSUME NEW how, End(t, how) PROVE Ended(t, how)
  BY <1>1, <1>5, EndEnds
<1>6. /\ pc[t] = "persisted" => row = Desired(op[t])
      /\ pc[t] \in {"load", "attach", "attaching", "start"} => row = "started"
      /\ pc[t] \in {"shutdown", "drain"} /\ op[t] = "stop" => row = "stopped"
      /\ pc[t] = "deletedRow" => row = "deleted"
  BY DEF PInv, IntentInv
<1>7. result[t] = "none" /\ op' = op /\ t \in Tasks
  BY <1>1 DEF PInv, EndedInv, Alone, Critical
<1> USE DEF database, runtimes
<1>8. CASE Persist(t)
  <2>1. CASE row' = row /\ Ended(t, "err")
    <3>1. Proceeds(t) BY <1>8, <2>1 DEF Persist, Proceeds
    <3> QED BY <1>3, <3>1
  <2>2. CASE row' = Desired(op[t]) /\ Moved(t, "persisted")
    <3>1. mapped' = mapped /\ told' = told BY <1>8 DEF Persist
    <3>2. t # Boot BY <1>2, <1>8 DEF Persist, At, PInv, StepInv
    <3>3. "persisted" \in StepsOf(op[t])
      BY <1>2, <1>8, StepTable DEF Persist, At, Critical
    <3>4. row' = "stopped" => op[t] = "stop" BY <2>2 DEF Desired
    <3> QED BY <1>1, <1>7, <2>2, <3>1, <3>2, <3>3, <3>4
            DEF Keeps, Moved, AnswersFor, Untold, Critical
  <2> QED BY <1>4, <1>5, <1>8, <2>1, <2>2 DEF Persist
<1>9. CASE Persisted(t)
  <2>1. t # Boot BY <1>2, <1>9 DEF Persisted, At, PInv, StepInv
  <2>2. mapped' = mapped /\ row' = row /\ row = Desired(op[t]) /\ pc[t] = "persisted"
    BY <1>6, <1>9 DEF Persisted
  <2>3. op[t] # "stop" => row = "started"
    BY <2>2 DEF Desired
  <2>4. CASE told' = row /\ Moved(t, IF op[t] = "stop" THEN "shutdown" ELSE "load")
    <3>1. pc'[t] \in {"shutdown", "load"} /\ pc'[t] \in StepsOf(op[t])
      BY <1>2, <2>2, <2>4, StepTable DEF Moved, At, Critical
    <3>2. pc'[t] = "load" => row = "started"
      BY <2>3, <2>4 DEF Moved
    <3>3. pc'[t] = "shutdown" => op[t] = "stop"
      BY <2>4 DEF Moved
    <3>4. op[t] = "stop" => row = "stopped"
      BY <2>2 DEF Desired
    <3>5. row = "stopped" => AnswersFor(t)'
      BY <1>7, <2>3, <2>4 DEF Moved, AnswersFor
    <3> QED BY <1>7, <2>2, <2>4, <3>1, <3>2, <3>3, <3>4, <3>5 DEF Keeps, Moved
  <2>5. CASE told' = told /\ Ended(t, "replyLost")
    <3>1. row = "stopped" => AnswersFor(t)'
      BY <1>7, <2>3, <2>5 DEF Ended, AnswersFor
    <3>2. Untold(t)' BY <2>5 DEF Ended, Untold
    <3> QED BY <2>1, <2>2, <2>5, <3>1, <3>2 DEF Keeps, Ended, Critical
  <2> QED BY <1>4, <1>5, <1>9, <2>4, <2>5 DEF Persisted
<1>10. CASE DeleteRow(t)
  <2>1. CASE row' = row /\ Ended(t, "err")
    <3>1. Proceeds(t) BY <1>10, <2>1 DEF DeleteRow, Proceeds
    <3> QED BY <1>3, <3>1
  <2>2. CASE row' = "deleted" /\ Moved(t, "deletedRow")
    <3>1. t # Boot BY <1>2, <1>10 DEF DeleteRow, At, PInv, StepInv
    <3>2. "deletedRow" \in StepsOf(op[t])
      BY <1>2, <1>10, StepTable DEF DeleteRow, At, Critical
    <3> QED BY <1>7, <2>2, <3>1, <3>2 DEF Keeps, Moved, Untold
  <2> QED BY <1>4, <1>5, <1>10, <2>1, <2>2 DEF DeleteRow
<1>11. CASE DeletedRow(t)
  <2>1. t # Boot BY <1>2, <1>11 DEF DeletedRow, At, PInv, StepInv
  <2>2. row' = row /\ row = "deleted"
    BY <1>6, <1>11 DEF DeletedRow
  <2>3. CASE told' = row /\ Ended(t, "ok")
    BY <2>2, <2>3 DEF Keeps, Ended, Critical
  <2>4. CASE told' = told /\ Ended(t, "replyLost")
    BY <2>1, <2>2, <2>4 DEF Keeps, Ended, Critical, Untold
  <2> QED BY <1>5, <1>11, <2>3, <2>4 DEF DeletedRow
<1>12. CASE Recheck(t)
  <2>1. \/ row = "started" /\ Moved(t, "load")
        \/ \E how \in {"ok", "err"} : Ended(t, how)
    BY <1>4, <1>5, <1>12 DEF Recheck
  <2>2. Proceeds(t) BY <1>2, <1>12, <2>1 DEF Recheck, Proceeds, At, Critical
  <2> QED BY <1>3, <2>2
<1>13. CASE Shutdown(t)
  <2>1. CASE mapped = None /\ AfterShutdown(t) /\ mapped' = None
    <3>1. \/ Ended(t, "ok")
          \/ op[t] = "restart" /\ Moved(t, "persist")
          \/ op[t] = "delete" /\ Moved(t, "deleteRow")
      BY <1>2, <1>4, <1>5, <1>13, <2>1 DEF Shutdown, AfterShutdown, At
    <3>2. Proceeds(t) BY <1>13, <2>1, <3>1 DEF Shutdown, Proceeds, At, Critical
    <3> QED BY <1>3, <3>2
  <2>2. CASE Goto(t, "drain") /\ mapped' = mapped
    <3>1. Moved(t, "drain") BY <1>4, <2>2
    <3>2. Proceeds(t)
      BY <1>2, <1>6, <1>13, <2>2, <3>1 DEF Shutdown, Proceeds, At, Critical, Moved
    <3> QED BY <1>3, <3>2
  <2>3. CASE mapped' = None /\ End(t, "err")
    <3>1. Ended(t, "err") BY <1>5, <2>3
    <3>2. Proceeds(t) BY <1>13, <2>3, <3>1 DEF Shutdown, Proceeds
    <3> QED BY <1>3, <3>2
  <2> QED BY <1>13, <2>1, <2>2, <2>3 DEF Shutdown
<1>14. CASE Drain(t)
  <2>1. mapped' = None
    BY <1>14 DEF Drain, IInv, DrainInv
  <2>2. \/ \E how \in {"ok", "err"} : Ended(t, how)
        \/ op[t] = "restart" /\ Moved(t, "persist")
        \/ op[t] = "delete" /\ Moved(t, "deleteRow")
    BY <1>2, <1>4, <1>5, <1>14 DEF Drain, AfterShutdown, At
  <2>3. Proceeds(t) BY <1>14, <2>1, <2>2 DEF Drain, Proceeds, At, Critical
  <2> QED BY <1>3, <2>3
<1>15. CASE Load(t)
  <2>1. Moved(t, "attach") \/ Ended(t, "err")
    BY <1>4, <1>5, <1>15 DEF Load
  <2>2. Proceeds(t) BY <1>2, <1>6, <1>15, <2>1 DEF Load, Proceeds, At, Critical
  <2> QED BY <1>3, <2>2
<1>16. CASE Attach(t)
  <2>1. Moved(t, "start") \/ Moved(t, "attaching") \/ Ended(t, "err")
    BY <1>4, <1>5, <1>16 DEF Attach
  <2>2. Proceeds(t) BY <1>2, <1>6, <1>16, <2>1 DEF Attach, Proceeds, At, Critical
  <2> QED BY <1>3, <2>2
<1>17. CASE Attached(t)
  <2>1. Moved(t, "start") \/ Ended(t, "err")
    BY <1>4, <1>5, <1>17 DEF Attached
  <2>2. Proceeds(t) BY <1>2, <1>6, <1>17, <2>1 DEF Attached, Proceeds, At, Critical
  <2> QED BY <1>3, <2>2
<1>18. CASE Start(t)
  <2>1. \E how \in {"ok", "err"} : Ended(t, how)
    BY <1>5, <1>18 DEF Start
  <2>2. Proceeds(t) BY <1>18, <2>1 DEF Start, Proceeds
  <2> QED BY <1>3, <2>2
<1>19. CASE ReadQueue(t)
  <2>1. Moved(t, "reload") \/ \E how \in {"ok", "err"} : Ended(t, how)
    BY <1>4, <1>5, <1>19 DEF ReadQueue
  <2>2. Proceeds(t) BY <1>2, <1>19, <2>1 DEF ReadQueue, Proceeds, At, Critical
  <2> QED BY <1>3, <2>2
<1>20. CASE Reload(t)
  <2>1. Moved(t, "reloading") \/ Ended(t, "err")
    BY <1>4, <1>5, <1>20 DEF Reload
  <2>2. Proceeds(t) BY <1>2, <1>20, <2>1 DEF Reload, Proceeds, At, Critical
  <2> QED BY <1>3, <2>2
<1>21. CASE Reloaded(t)
  <2>1. \E how \in {"ok", "err"} : Ended(t, how)
    BY <1>5, <1>21 DEF Reloaded
  <2>2. Proceeds(t) BY <1>21, <2>1 DEF Reloaded, Proceeds
  <2> QED BY <1>3, <2>2
<1> QED BY <1>8, <1>9, <1>10, <1>11, <1>12, <1>13, <1>14, <1>15, <1>16, <1>17, <1>18,
           <1>19, <1>20, <1>21 DEF Work

LEMMA WorkPInv ==
    ASSUME IInv, PInv, NEW t \in Tasks, Work(t)
    PROVE  PInv'
  BY WorkIsAlone, WorkKeeps, KeepsPInv

----------------------------------------------------------------------------
(* Everything else. *)

\* A caller arrives, the startup restore begins, a task takes the lock, or a
\* caller leaves: neither row nor news nor map change.
LEMMA CallerPInv ==
    ASSUME IInv, PInv, NEW t \in Tasks,
           \/ t \in Requests /\ \E command \in Commands : Submit(t, command)
           \/ t \in Requests /\ MutateQueue(t)
           \/ RestoreSnapshot(t)
           \/ Acquire(t)
           \/ Cancel(t)
    PROVE  PInv'
<1>1. /\ op \in [Tasks -> Commands \cup {"none", "sync", "restore"}]
      /\ pc \in [Tasks -> PCs] /\ ControlTypeOK /\ LockInv /\ OpInv
  BY TypeSplit DEF IInv, TypeOK
<1>2. UNCHANGED <<row, told, mapped>>
  BY DEF Submit, MutateQueue, RestoreSnapshot, Acquire, Cancel, database, runtimes
<1>3. \A u \in Tasks \ {t} :
        pc'[u] = pc[u] /\ result'[u] = result[u] /\ op'[u] = op[u] /\ (holder = u => holder' = u)
  BY <1>1 DEF Submit, MutateQueue, RestoreSnapshot, Acquire, Cancel, Goto, End, ControlTypeOK
\* The task was neither behind a change of the row nor answered yet.
<1>4. result[t] = "none" /\ pc[t] \notin {"persisted", "deletedRow", "done"}
  BY DEF PInv, EndedInv, Submit, MutateQueue, RestoreSnapshot, Acquire, Cancel, CallerOwned
<1>5. op[t] = "stop" /\ holder = t => pc[t] \notin {"shutdown", "drain"} \/ pc'[t] = pc[t]
  BY <1>1 DEF Submit, MutateQueue, RestoreSnapshot, Acquire, Cancel, CallerOwned
<1>6. StopInv'
  <2>1. SUFFICES ASSUME mapped # None, row = "stopped"
                 PROVE  \E u \in Requests : AnswersFor(u)'
    BY <1>2 DEF StopInv
  <2>2. PICK u \in Requests : AnswersFor(u)
    BY <2>1 DEF PInv, StopInv
  <2>3. u # t
    BY <1>1, <1>4, <2>2 DEF AnswersFor, Submit, MutateQueue, RestoreSnapshot, Acquire, Cancel,
       CallerOwned, LockInv, Critical
  <2>4. AnswersFor(u)' BY <1>3, <2>2, <2>3 DEF AnswersFor
  <2> QED BY <2>4
<1>7. ToldInv'
  <2>1. SUFFICES ASSUME told # row PROVE \E u \in Requests : Untold(u)'
    BY <1>2 DEF ToldInv
  <2>2. PICK u \in Requests : Untold(u)
    BY <2>1 DEF PInv, ToldInv
  <2>3. u # t BY <1>4, <2>2 DEF Untold
  <2>4. Untold(u)' BY <1>3, <2>2, <2>3 DEF Untold
  <2> QED BY <2>4
\* Where it goes, nothing is asked of the row but by a Stop that drains.
<1>8. /\ pc'[t] \in Critical => pc'[t] \in StepsOf(op'[t])
      /\ pc'[t] \notin {"new", "snapshot"}
      /\ result'[t] # "none" => pc'[t] = "done"
      /\ pc'[t] \notin {"persisted", "load", "attach", "attaching", "start", "deletedRow"}
      /\ pc'[t] \in {"shutdown", "drain"} => op'[t] # "stop"
      /\ t = Boot => op'[t] = "restore"
  <2>1. CASE t \in Requests /\ \E command \in Commands : Submit(t, command)
    BY <1>1, <1>4, <2>1 DEF Submit, Goto, Critical
  <2>2. CASE t \in Requests /\ MutateQueue(t)
    BY <1>1, <1>4, <2>2 DEF MutateQueue, Goto, Critical
  <2>3. CASE RestoreSnapshot(t)
    BY <1>1, <1>4, <2>3 DEF RestoreSnapshot, Goto, End, Critical, ControlTypeOK, PInv, StepInv
  <2>4. CASE Acquire(t)
    <3>1. /\ pc' = [pc EXCEPT ![t] = FirstStep(op[t])] /\ op' = op /\ result' = result
          /\ pc[t] = "waiting"
      BY <2>4 DEF Acquire
    <3>2. op[t] \in Commands \cup {"sync", "restore"}
      BY <1>1, <3>1 DEF OpInv, OpFits
    <3>3. FirstStep(op[t]) \in Critical /\ At(op[t], FirstStep(op[t]))
          /\ FirstStep(op[t]) \in {"persist", "shutdown", "read", "recheck"}
          /\ (FirstStep(op[t]) = "shutdown" => op[t] # "stop")
      BY <3>2 DEF FirstStep, At, Critical
    <3>4. pc'[t] = FirstStep(op[t]) BY <1>1, <3>1
    <3> QED BY <1>4, <3>1, <3>3, <3>4, StepTable DEF PInv, StepInv
  <2>5. CASE Cancel(t)
    BY <1>1, <2>5 DEF Cancel, CallerOwned, End, Critical, ControlTypeOK
  <2> QED BY <2>1, <2>2, <2>3, <2>4, <2>5
<1>9. StepInv'
  <2>1. op'[Boot] = "restore" BY <1>3, <1>8 DEF PInv, StepInv
  <2> QED BY <1>3, <1>8, <2>1 DEF PInv, StepInv
<1>10. EndedInv' BY <1>3, <1>8 DEF PInv, EndedInv
<1>11. IntentInv' BY <1>2, <1>3, <1>8 DEF PInv, IntentInv
<1> QED BY <1>6, <1>7, <1>9, <1>10, <1>11 DEF PInv

LEMMA RuntimePInv ==
    ASSUME PInv, NEW r \in Runtimes, RuntimeStep(r) \/ RuntimeLost(r)
    PROVE  PInv'
<1>1. UNCHANGED <<row, told, mapped, holder, op, pc, result>>
  BY DEF RuntimeStep, RuntimeReload, RuntimeStops, RuntimeLost, database
<1> QED BY <1>1 DEF PInv, StepInv, EndedInv, IntentInv, StopInv, AnswersFor, ToldInv, Untold

\* A crash empties the map and tells nobody anything but the row.
LEMMA CrashPInv ==
    ASSUME IInv, PInv, Crash
    PROVE  PInv'
<1>1. pc[Boot] # "new" BY DEF PInv, StepInv
<1>2. /\ mapped' = None /\ told' = row /\ row' = row /\ op' = op
      /\ \A t \in Tasks : pc'[t] = IF t = Boot THEN "snapshot"
                                     ELSE IF pc[t] = "new" THEN "new" ELSE "done"
      /\ \A t \in Tasks : result'[t] =
            IF result[t] = "none" /\ pc[t] # "new" /\ t # Boot
            THEN "cancelled" ELSE IF t = Boot THEN "none" ELSE result[t]
  BY <1>1 DEF Crash
<1>3. StepInv' BY <1>2 DEF PInv, StepInv, Critical
<1>4. EndedInv' BY <1>2 DEF PInv, EndedInv
<1>5. IntentInv' BY <1>2 DEF IntentInv
<1>6. StopInv' /\ ToldInv' BY <1>2 DEF StopInv, ToldInv
<1> QED BY <1>3, <1>4, <1>5, <1>6 DEF PInv

LEMMA NextPInv == IInv /\ PInv /\ [Next]_vars => PInv'
<1>1. ASSUME PInv, UNCHANGED vars PROVE PInv'
  BY <1>1 DEF vars, database, runtimes, PInv, StepInv, EndedInv, IntentInv, StopInv,
     AnswersFor, ToldInv, Untold
<1> QED BY <1>1, WorkPInv, CallerPInv, RuntimePInv, CrashPInv DEF Next, Idle

LEMMA SpecPInv == Spec => [](IInv /\ PInv)
<1>1. Init => IInv /\ PInv BY InitIInv, InitPInv
<1>2. (IInv /\ PInv) /\ [Next]_vars => (IInv /\ PInv)' BY NextIInv, NextPInv
<1> QED BY <1>1, <1>2, PTL DEF Spec

----------------------------------------------------------------------------
\* No station runs against the persisted decision to stop it.
THEOREM StoppedStaysSilent == Spec => []StoppedHasNoRuntime
<1>1. PInv => StoppedHasNoRuntime
  BY DEF PInv, StopInv, AnswersFor, StoppedHasNoRuntime
<1> QED BY <1>1, SpecPInv, PTL

\* Observers are told of every change of the row whose reply arrived.
THEOREM ObserversAreTold == Spec => []AnnouncedAtRest
<1>1. IInv /\ PInv => AnnouncedAtRest
  <2>1. SUFFICES ASSUME IInv, PInv, told # row, holder = None
                 PROVE  \E t \in Requests : result[t] = "replyLost"
    BY DEF AnnouncedAtRest
  <2>2. PICK t \in Requests : Untold(t)
    BY <2>1 DEF PInv, ToldInv
  <2>3. pc[t] \notin Critical
    BY <2>1 DEF IInv, LockInv
  <2> QED BY <2>2, <2>3 DEF Untold, Critical
<1> QED BY <1>1, SpecPInv, PTL

\* What a task that has just succeeded has done to row and map.
Achieved(t) ==
    /\ op[t] = "stop" => row' = "stopped" /\ mapped' = None
    /\ op[t] = "delete" => row' = "deleted" /\ mapped' = None
    /\ op[t] \in {"play", "restart"} =>
         /\ row' = "started"
         /\ mapped' # None
         /\ runtime'[mapped'] = "live"

LEMMA WorkAchieves ==
    ASSUME IInv, PInv, NEW t \in Tasks, Work(t), result'[t] = "ok"
    PROVE  Achieved(t)
<1>1. Alone(t) /\ pc[t] \in Critical /\ ControlTypeOK /\ holder = t
  BY WorkIsAlone DEF Alone
<1>2. At(op[t], pc[t]) BY <1>1, StepTable DEF PInv, StepInv
<1>3. result[t] = "none"
  BY <1>1 DEF PInv, EndedInv, Critical
<1>4. ASSUME NEW next, Goto(t, next) PROVE FALSE
  BY <1>3, <1>4 DEF Goto
<1>5. ASSUME NEW how, End(t, how) PROVE how = "ok"
  BY <1>1, <1>5 DEF End, ControlTypeOK
<1>6. /\ pc[t] \in {"load", "attach", "attaching", "start"} => row = "started"
      /\ pc[t] \in {"shutdown", "drain"} /\ op[t] = "stop" => row = "stopped"
      /\ pc[t] = "deletedRow" => row = "deleted" /\ mapped = None
  BY DEF PInv, IntentInv, IInv, RowInv
<1>7. ASSUME op[t] \in {"sync", "restore"} PROVE Achieved(t)
  BY <1>7 DEF Achieved
<1>8. ASSUME AfterShutdown(t), op[t] \in {"stop", "restart", "delete"} PROVE op[t] = "stop"
  BY <1>4, <1>8 DEF AfterShutdown
<1> USE DEF database, runtimes
<1>9. CASE Persist(t) BY <1>4, <1>5, <1>9 DEF Persist
<1>10. CASE Persisted(t) BY <1>4, <1>5, <1>10 DEF Persisted
<1>11. CASE DeleteRow(t) BY <1>4, <1>5, <1>11 DEF DeleteRow
<1>12. CASE DeletedRow(t)
  BY <1>2, <1>6, <1>12 DEF DeletedRow, At, Achieved
<1>13. CASE Recheck(t)
  BY <1>2, <1>7, <1>13 DEF Recheck, At
<1>14. CASE Shutdown(t)
  <2>1. AfterShutdown(t) /\ mapped' = None
    BY <1>4, <1>5, <1>14 DEF Shutdown
  <2>2. op[t] = "stop" BY <1>2, <1>8, <1>14, <2>1 DEF Shutdown, At
  <2> QED BY <1>6, <1>14, <2>1, <2>2 DEF Shutdown, Achieved
<1>15. CASE Drain(t)
  <2>1. AfterShutdown(t) /\ mapped' = None
    BY <1>5, <1>15 DEF Drain, IInv, DrainInv
  <2>2. op[t] = "stop" BY <1>2, <1>8, <1>15, <2>1 DEF Drain, At
  <2> QED BY <1>6, <1>15, <2>1, <2>2 DEF Drain, Achieved
<1>16. CASE Load(t) BY <1>4, <1>5, <1>16 DEF Load
<1>17. CASE Attach(t) BY <1>4, <1>5, <1>17 DEF Attach
<1>18. CASE Attached(t) BY <1>4, <1>5, <1>18 DEF Attached
<1>19. CASE Start(t)
  <2>1. MappedLive /\ UNCHANGED <<row, mapped, runtime>> /\ row = "started"
    BY <1>5, <1>6, <1>19 DEF Start
  <2>2. mapped' # None /\ runtime'[mapped'] = "live"
    BY <2>1 DEF MappedLive
  <2>3. op[t] \in {"play", "restart", "restore"}
    BY <1>2, <1>19 DEF Start, At
  <2> QED BY <2>1, <2>2, <2>3 DEF Achieved
<1>20. CASE ReadQueue(t) BY <1>2, <1>7, <1>20 DEF ReadQueue, At
<1>21. CASE Reload(t) BY <1>4, <1>5, <1>21 DEF Reload
<1>22. CASE Reloaded(t) BY <1>2, <1>7, <1>22 DEF Reloaded, At
<1> QED BY <1>9, <1>10, <1>11, <1>12, <1>13, <1>14, <1>15, <1>16, <1>17, <1>18, <1>19,
           <1>20, <1>21, <1>22 DEF Work

\* A step that answers a request is that request's own.
LEMMA AnswersAtWork ==
    ASSUME IInv, PInv, Next, NEW t \in Requests, pc[t] # "done", result'[t] = "ok"
    PROVE  Work(t)
<1>1. ControlTypeOK /\ result[t] = "none" /\ t # Boot /\ pc[t] # "snapshot"
  BY TypeSplit DEF IInv, PInv, EndedInv, StepInv
<1>2. ASSUME NEW u \in Tasks, Work(u) PROVE Work(t)
  <2>1. Alone(u) BY <1>2, WorkIsAlone
  <2> QED BY <1>1, <1>2, <2>1 DEF Alone
<1>3. ASSUME NEW u \in Tasks,
             \/ \E command \in Commands : Submit(u, command)
             \/ MutateQueue(u) \/ RestoreSnapshot(u) \/ Acquire(u) \/ Cancel(u)
      PROVE FALSE
  BY <1>1, <1>3 DEF Submit, MutateQueue, RestoreSnapshot, Acquire, Cancel, Goto, End, ControlTypeOK
<1>4. ASSUME NEW r \in Runtimes, RuntimeStep(r) \/ RuntimeLost(r) PROVE FALSE
  BY <1>1, <1>4 DEF RuntimeStep, RuntimeReload, RuntimeStops, RuntimeLost
<1>5. CASE Crash BY <1>1, <1>5 DEF Crash
<1>6. CASE Idle BY <1>1, <1>6 DEF Idle, vars
<1> QED BY <1>2, <1>3, <1>4, <1>5, <1>6 DEF Next

\* Success is answered only for what holds at that moment.
THEOREM SuccessIsTrue == Spec => AnswersAreTrue
<1> DEFINE Truthful ==
      \A t \in Requests : pc[t] # "done" /\ result'[t] = "ok" => Achieved(t)
<1>1. IInv /\ PInv /\ [Next]_vars => [Truthful]_vars
  BY AnswersAtWork, WorkAchieves
<1>2. [Truthful]_vars <=>
        [\A t \in Requests :
          pc[t] # "done" /\ result'[t] = "ok" =>
            /\ op[t] = "stop" => row' = "stopped" /\ mapped' = None
            /\ op[t] = "delete" => row' = "deleted" /\ mapped' = None
            /\ op[t] \in {"play", "restart"} =>
                 /\ row' = "started"
                 /\ mapped' # None
                 /\ runtime'[mapped'] = "live"]_vars
  BY DEF Achieved
<1> HIDE DEF Truthful
<1> QED BY <1>1, <1>2, SpecPInv, PTL DEF Spec, AnswersAreTrue

-----------------------------------------------------------------------------
(***************************************************************************)
(* No queue change gets lost between the database and the runtime that     *)
(* plays.                                                                  *)
(* The versions a runtime has and will get are never older than those of   *)
(* a synchronization that was answered, because whoever reads the queue    *)
(* and whoever hands it on do both under the lock, and the channel is      *)
(* first in, first out.                                                    *)
(***************************************************************************)

Synchronized(t) == t \in Requests /\ op[t] = "sync" /\ result[t] = "ok"

\* What has been read exists.
SeenInv == \A t \in Tasks : seen[t] <= queueDb

\* The runtime in use is not behind a synchronization, nor will it be.
ReachedInv ==
    \A t \in Tasks :
        Synchronized(t) /\ mapped # None =>
            /\ loaded[mapped] >= seen[t]
            /\ \A i \in DOMAIN inbox[mapped] : inbox[mapped][i].version >= seen[t]

\* Nor are the rows that somebody is about to hand on.
FreshInv ==
    \A t, u \in Tasks :
        Synchronized(t) /\ pc[u] \in {"attach", "reload"} => seen[u] >= seen[t]

\* The last command in the channel is that of the task that waits for it.
LastInv ==
    \A t \in Tasks :
        pc[t] = "reloading" =>
            /\ mapped # None
            /\ mine[t] = mapped
            /\ \/ runtime[mapped] = "lost"
               \/ inbox[mapped] = << >> /\ loaded[mapped] >= seen[t]
               \/ /\ inbox[mapped] # << >>
                  /\ inbox[mapped][Len(inbox[mapped])] = [from |-> t, version |-> seen[t]]

UnbornInv == \A r \in Runtimes : runtime[r] = "unborn" => inbox[r] = << >>

QInv == SeenInv /\ ReachedInv /\ FreshInv /\ LastInv /\ UnbornInv

----------------------------------------------------------------------------
USE LifecycleAssumption DEF Tasks, Commands, PCs

LEMMA InitQInv == Init => QInv
  BY DEF Init, QInv, SeenInv, ReachedInv, FreshInv, LastInv, UnbornInv, Synchronized

\* A step that hands nothing on.
Still(t) ==
    /\ UNCHANGED <<queueDb, loaded, inbox, seen>>
    /\ mapped' \in {mapped, None}
    /\ \A r \in Runtimes : runtime'[r] = "unborn" => runtime[r] = "unborn"
    /\ pc'[t] \notin {"attach", "reload", "reloading"}
    /\ Synchronized(t)' =>
          \/ Synchronized(t)
          \/ mapped' = None
          \/ inbox[mapped] = << >> /\ loaded[mapped] >= seen[t]

LEMMA StillQInv ==
    ASSUME QInv, NEW t \in Tasks, Alone(t), Still(t)
    PROVE  QInv'
<1> USE DEF QInv, Alone, Still, Critical
<1>1. \A u \in Tasks \ {t} : Synchronized(u)' <=> Synchronized(u)
  BY DEF Synchronized
<1>2. SeenInv' BY DEF SeenInv
<1>3. ReachedInv' BY <1>1 DEF ReachedInv
<1>4. FreshInv' BY <1>1 DEF FreshInv
<1>5. LastInv' BY DEF LastInv
<1>6. UnbornInv' BY DEF UnbornInv
<1> QED BY <1>2, <1>3, <1>4, <1>5, <1>6

\* Rows are read.
Reads(t) ==
    /\ seen' = [seen EXCEPT ![t] = queueDb]
    /\ UNCHANGED <<queueDb, mapped, runtime, loaded, inbox, mine>>
    /\ pc'[t] \in {"attach", "reload"}
    /\ result'[t] = "none"

LEMMA ReadsQInv ==
    ASSUME QInv, NEW t \in Tasks, Alone(t), Reads(t), queueDb \in Nat, seen \in [Tasks -> Nat]
    PROVE  QInv'
<1> USE DEF QInv, Alone, Reads, Critical
<1>1. /\ \A u \in Tasks \ {t} : seen'[u] = seen[u] /\ (Synchronized(u)' <=> Synchronized(u))
      /\ seen'[t] = queueDb /\ ~ Synchronized(t)'
  BY DEF Synchronized
<1>2. SeenInv' BY <1>1 DEF SeenInv
<1>3. ReachedInv' BY <1>1 DEF ReachedInv
<1>4. FreshInv' BY <1>1 DEF FreshInv, SeenInv
<1>5. LastInv' BY DEF LastInv
<1>6. UnbornInv' BY DEF UnbornInv
<1> QED BY <1>2, <1>3, <1>4, <1>5, <1>6

\* Rows that were read are handed on to the runtime in use.
Sends(t) ==
    /\ SendReload(t)
    /\ pc[t] \in {"attach", "reload"}
    /\ pc'[t] \in {"attaching", "reloading"}
    /\ result'[t] = "none"
    /\ UNCHANGED <<queueDb, mapped, runtime, loaded, seen>>

LEMMA AppendLast ==
    ASSUME NEW S, NEW s \in Seq(S), NEW e \in S
    PROVE  /\ DOMAIN Append(s, e) = 1 .. Len(s) + 1 /\ Len(Append(s, e)) = Len(s) + 1
           /\ Append(s, e)[Len(s) + 1] = e /\ Append(s, e) # << >>
           /\ \A i \in 1 .. Len(s) : Append(s, e)[i] = s[i]
           /\ DOMAIN s = 1 .. Len(s) /\ Len(s) \in Nat
  OBVIOUS

LEMMA SendsQInv ==
    ASSUME IInv, QInv, NEW t \in Tasks, Alone(t), Sends(t)
    PROVE  QInv'
<1> USE DEF QInv, Alone, Sends, Critical
<1> DEFINE m == [from |-> t, version |-> seen[t]]
<1>1. PICK r \in Runtimes : mapped = r /\ runtime[r] = "live"
  BY DEF SendReload, MappedLive
<1>2. inbox[r] \in Seq(ReloadCommand) /\ m \in ReloadCommand /\ seen \in [Tasks -> Nat]
      /\ inbox \in [Runtimes -> Seq(ReloadCommand)] /\ mine \in [Tasks -> Runtimes \cup {None}]
  BY DEF IInv, TypeOK, ReloadCommand
<1>3. inbox'[r] = Append(inbox[r], m) /\ \A x \in Runtimes \ {r} : inbox'[x] = inbox[x]
  BY <1>1, <1>2 DEF SendReload
<1>4. mine'[t] = r BY <1>1, <1>2 DEF SendReload
<1> HIDE DEF m
<1>5. /\ DOMAIN inbox'[r] = 1 .. Len(inbox[r]) + 1 /\ Len(inbox'[r]) = Len(inbox[r]) + 1
      /\ inbox'[r][Len(inbox[r]) + 1] = m /\ inbox'[r] # << >>
      /\ \A i \in 1 .. Len(inbox[r]) : inbox'[r][i] = inbox[r][i]
      /\ DOMAIN inbox[r] = 1 .. Len(inbox[r]) /\ Len(inbox[r]) \in Nat
  BY <1>2, <1>3, AppendLast
<1>6. m.version = seen[t] BY DEF m
<1>7. /\ \A u \in Tasks \ {t} : Synchronized(u)' <=> Synchronized(u)
      /\ ~ Synchronized(t)'
  BY DEF Synchronized
<1>8. SeenInv' BY DEF SeenInv
<1>9. ReachedInv'
  <2>1. SUFFICES ASSUME NEW u \in Tasks, Synchronized(u)'
                 PROVE  /\ loaded[r] >= seen[u]
                        /\ \A i \in DOMAIN inbox'[r] : inbox'[r][i].version >= seen[u]
    BY <1>1 DEF ReachedInv
  <2>2. Synchronized(u) BY <1>7, <2>1
  <2>3. /\ loaded[r] >= seen[u]
        /\ \A i \in DOMAIN inbox[r] : inbox[r][i].version >= seen[u]
    BY <1>1, <2>2 DEF ReachedInv
  <2>4. seen[t] >= seen[u] BY <2>2 DEF FreshInv
  <2> QED BY <1>5, <1>6, <2>3, <2>4
<1>10. FreshInv' BY <1>7 DEF FreshInv
<1>11. LastInv' BY <1>1, <1>4, <1>5 DEF LastInv, m
<1>12. UnbornInv' BY <1>1, <1>3 DEF UnbornInv
<1> QED BY <1>8, <1>9, <1>10, <1>11, <1>12

\* Or they are what a new runtime starts with.
Creates(t, r) ==
    /\ runtime[r] = "unborn"
    /\ runtime' = [runtime EXCEPT ![r] = "live"]
    /\ loaded' = [loaded EXCEPT ![r] = seen[t]]
    /\ mapped' = r
    /\ pc[t] = "attach" /\ pc'[t] = "start"
    /\ result'[t] = "none"
    /\ UNCHANGED <<queueDb, inbox, seen>>

LEMMA CreatesQInv ==
    ASSUME IInv, QInv, NEW t \in Tasks, NEW r \in Runtimes, Alone(t), Creates(t, r)
    PROVE  QInv'
<1> USE DEF QInv, Alone, Creates, Critical
<1>1. /\ \A u \in Tasks \ {t} : Synchronized(u)' <=> Synchronized(u)
      /\ ~ Synchronized(t)'
  BY DEF Synchronized
<1>2. /\ runtime \in [Runtimes -> {"unborn", "live", "stopping", "gone", "failed", "lost"}]
      /\ loaded \in [Runtimes -> Nat]
  BY DEF IInv, TypeOK
<1>3. loaded'[r] = seen[t] /\ inbox[r] = << >>
  BY <1>2 DEF UnbornInv
<1>4. SeenInv' BY DEF SeenInv
<1>5. ReachedInv' BY <1>1, <1>3 DEF ReachedInv, FreshInv
<1>6. FreshInv' BY <1>1 DEF FreshInv
<1>7. LastInv' BY DEF LastInv
<1>8. UnbornInv' BY <1>2 DEF UnbornInv
<1> QED BY <1>4, <1>5, <1>6, <1>7, <1>8

LEMMA WorkQInv ==
    ASSUME IInv, PInv, QInv, NEW t \in Tasks, Work(t)
    PROVE  QInv'
<1>1. Alone(t) /\ pc[t] \in Critical /\ ControlTypeOK /\ holder = t
  BY WorkIsAlone DEF Alone
<1>2. At(op[t], pc[t]) BY <1>1, StepTable DEF PInv, StepInv
<1>3. result[t] = "none" /\ op' = op
  BY <1>1 DEF PInv, EndedInv, Critical, Alone
<1>4. ASSUME NEW next, Goto(t, next) PROVE pc'[t] = next /\ result'[t] = "none"
  BY <1>1, <1>3, <1>4, GotoMoves DEF Moved
<1>5. ASSUME NEW how, End(t, how) PROVE pc'[t] = "done" /\ result'[t] = how
  BY <1>1, <1>5, EndEnds DEF Ended
<1>6. ASSUME Still(t) PROVE QInv'
  BY <1>1, <1>6, StillQInv
<1>7. TypeOK BY DEF IInv
<1> USE DEF database, runtimes
<1>8. CASE Persist(t)
  <2>1. Still(t) BY <1>2, <1>3, <1>4, <1>5, <1>8 DEF Persist, Still, Synchronized, At
  <2> QED BY <1>6, <2>1
<1>9. CASE Persisted(t)
  <2>1. Still(t) BY <1>2, <1>3, <1>4, <1>5, <1>9 DEF Persisted, Still, Synchronized, At
  <2> QED BY <1>6, <2>1
<1>10. CASE DeleteRow(t)
  <2>1. Still(t) BY <1>2, <1>3, <1>4, <1>5, <1>10 DEF DeleteRow, Still, Synchronized, At
  <2> QED BY <1>6, <2>1
<1>11. CASE DeletedRow(t)
  <2>1. Still(t) BY <1>2, <1>3, <1>4, <1>5, <1>11 DEF DeletedRow, Still, Synchronized, At
  <2> QED BY <1>6, <2>1
<1>12. CASE Recheck(t)
  <2>1. Still(t) BY <1>2, <1>3, <1>4, <1>5, <1>12 DEF Recheck, Still, Synchronized, At
  <2> QED BY <1>6, <2>1
<1>13. CASE Shutdown(t)
  <2>1. op[t] \in {"stop", "restart", "delete"} BY <1>2, <1>13 DEF Shutdown, At
  <2>2. pc'[t] \in {"done", "persist", "deleteRow", "drain"}
    BY <1>4, <1>5, <1>13, <2>1 DEF Shutdown, AfterShutdown
  <2>3. \A r \in Runtimes : runtime'[r] = "unborn" => runtime[r] = "unborn"
    BY <1>7, <1>13 DEF Shutdown, TypeOK
  <2>4. Still(t)
    BY <1>3, <1>13, <2>1, <2>2, <2>3 DEF Shutdown, Still, Synchronized
  <2> QED BY <1>6, <2>4
<1>14. CASE Drain(t)
  <2>1. op[t] \in {"stop", "restart", "delete"} BY <1>2, <1>14 DEF Drain, At
  <2>2. pc'[t] \in {"done", "persist", "deleteRow"}
    BY <1>4, <1>5, <1>14, <2>1 DEF Drain, AfterShutdown
  <2>3. Still(t) BY <1>3, <1>14, <2>1, <2>2 DEF Drain, Still, Synchronized
  <2> QED BY <1>6, <2>3
<1>15. CASE Load(t)
  <2>1. Reads(t) \/ Still(t)
    BY <1>2, <1>3, <1>4, <1>5, <1>15 DEF Load, Reads, Still, Synchronized, At
  <2> QED BY <1>1, <1>6, <1>7, <2>1, ReadsQInv DEF TypeOK
<1>16. CASE Attach(t)
  <2>1. pc[t] = "attach" /\ UNCHANGED <<queueDb, seen>> /\ op[t] # "sync"
    BY <1>2, <1>16 DEF Attach, At
  <2>2. ASSUME NEW r \in Runtimes, runtime[r] = "unborn",
               runtime' = [runtime EXCEPT ![r] = "live"],
               loaded' = [loaded EXCEPT ![r] = seen[t]],
               mapped' = r, Goto(t, "start"), UNCHANGED <<inbox, mine>>
        PROVE  QInv'
    <3>1. Creates(t, r) BY <1>4, <2>1, <2>2 DEF Creates
    <3> QED BY <1>1, <3>1, CreatesQInv
  <2>3. CASE SendReload(t) /\ Goto(t, "attaching") /\ UNCHANGED <<mapped, runtime, loaded>>
    <3>1. Sends(t) BY <1>4, <2>1, <2>3 DEF Sends
    <3> QED BY <1>1, <3>1, SendsQInv
  <2>4. CASE End(t, "err") /\ UNCHANGED <<mapped, runtimes, mine>>
    <3>1. Still(t) BY <1>3, <1>5, <2>1, <2>4 DEF Still, Synchronized
    <3> QED BY <1>6, <3>1
  <2> QED BY <1>16, <2>2, <2>3, <2>4 DEF Attach
<1>17. CASE Attached(t)
  <2>1. Still(t) BY <1>2, <1>3, <1>4, <1>5, <1>17 DEF Attached, Still, Synchronized, At
  <2> QED BY <1>6, <2>1
<1>18. CASE Start(t)
  <2>1. Still(t) BY <1>2, <1>3, <1>4, <1>5, <1>18 DEF Start, Still, Synchronized, At
  <2> QED BY <1>6, <2>1
<1>19. CASE ReadQueue(t)
  <2>1. Reads(t) \/ Still(t)
    BY <1>2, <1>3, <1>4, <1>5, <1>19 DEF ReadQueue, Reads, Still, Synchronized
  <2> QED BY <1>1, <1>6, <1>7, <2>1, ReadsQInv DEF TypeOK
<1>20. CASE Reload(t)
  <2>1. CASE SendReload(t) /\ Goto(t, "reloading")
    <3>1. Sends(t) BY <1>4, <1>20, <2>1 DEF Sends, Reload
    <3> QED BY <1>1, <3>1, SendsQInv
  <2>2. CASE End(t, "err") /\ UNCHANGED <<inbox, mine>>
    <3>1. Still(t) BY <1>3, <1>5, <1>20, <2>2 DEF Reload, Still, Synchronized
    <3> QED BY <1>6, <3>1
  <2> QED BY <1>20, <2>1, <2>2 DEF Reload
<1>21. CASE Reloaded(t)
  <2>1. UNCHANGED <<queueDb, mapped, runtimes, seen>> /\ pc[t] = "reloading"
    BY <1>21 DEF Reloaded
  <2>2. CASE ~ Pending(t) /\ runtime[mine[t]] = "live" /\ End(t, "ok")
    <3>1. /\ mapped # None /\ mine[t] = mapped
          /\ \/ inbox[mapped] = << >> /\ loaded[mapped] >= seen[t]
             \/ /\ inbox[mapped] # << >>
                /\ inbox[mapped][Len(inbox[mapped])] = [from |-> t, version |-> seen[t]]
      BY <2>1, <2>2 DEF QInv, LastInv
    <3>2. inbox[mapped] \in Seq(ReloadCommand)
      BY <1>7, <3>1 DEF TypeOK
    <3>3. ASSUME inbox[mapped] # << >> PROVE Len(inbox[mapped]) \in DOMAIN inbox[mapped]
      BY <3>2, <3>3
    <3>4. inbox[mapped] = << >>
      BY <2>2, <3>1, <3>3 DEF Pending
    <3>5. Still(t) BY <1>5, <2>1, <2>2, <3>1, <3>4 DEF Still
    <3> QED BY <1>6, <3>5
  <2>3. CASE End(t, "err")
    <3>1. Still(t) BY <1>3, <1>5, <2>1, <2>3 DEF Still, Synchronized
    <3> QED BY <1>6, <3>1
  <2> QED BY <1>21, <2>2, <2>3 DEF Reloaded
<1> QED BY <1>8, <1>9, <1>10, <1>11, <1>12, <1>13, <1>14, <1>15, <1>16, <1>17, <1>18,
           <1>19, <1>20, <1>21 DEF Work

\* A caller that arrives knows of its own change and of none that is later.
LEMMA CallerQInv ==
    ASSUME IInv, PInv, QInv, NEW t \in Tasks,
           \/ t \in Requests /\ \E command \in Commands : Submit(t, command)
           \/ t \in Requests /\ MutateQueue(t)
           \/ RestoreSnapshot(t)
           \/ Acquire(t)
           \/ Cancel(t)
    PROVE  QInv'
<1>1. TypeOK /\ ControlTypeOK /\ LockInv
  BY TypeSplit DEF IInv
<1>2. UNCHANGED <<mapped, runtime, loaded, inbox, mine>>
  BY DEF Submit, MutateQueue, RestoreSnapshot, Acquire, Cancel, database, runtimes
<1>3. \A u \in Tasks \ {t} :
        pc'[u] = pc[u] /\ result'[u] = result[u] /\ op'[u] = op[u] /\ seen'[u] = seen[u]
  BY <1>1 DEF Submit, MutateQueue, RestoreSnapshot, Acquire, Cancel, Goto, End, TypeOK
<1>4. result[t] = "none"
  BY DEF PInv, EndedInv, Submit, MutateQueue, RestoreSnapshot, Acquire, Cancel, CallerOwned
<1>5. /\ pc'[t] \notin {"attach", "reload", "reloading"}
      /\ queueDb' >= queueDb /\ queueDb' >= seen'[t]
  <2>1. seen[t] <= queueDb /\ queueDb \in Nat /\ seen[t] \in Nat
    BY <1>1 DEF QInv, SeenInv, TypeOK
  <2>2. CASE t \in Requests /\ \E command \in Commands : Submit(t, command)
    BY <1>1, <2>1, <2>2 DEF Submit, Goto, TypeOK, database
  <2>3. CASE t \in Requests /\ MutateQueue(t)
    BY <1>1, <2>1, <2>3 DEF MutateQueue, Goto, TypeOK
  <2>4. CASE RestoreSnapshot(t)
    BY <1>1, <2>1, <2>4 DEF RestoreSnapshot, Goto, End, TypeOK, database
  <2>5. CASE Acquire(t)
    <3>1. op[t] \in Commands \cup {"sync", "restore"}
      BY <1>1, <2>5 DEF Acquire, IInv, OpInv, OpFits, TypeOK
    <3>2. FirstStep(op[t]) \in {"persist", "shutdown", "read", "recheck"}
      BY <3>1 DEF FirstStep
    <3> QED BY <1>1, <2>1, <2>5, <3>2 DEF Acquire, TypeOK, database
  <2>6. CASE Cancel(t)
    BY <1>1, <2>1, <2>6 DEF Cancel, End, TypeOK, database
  <2> QED BY <2>2, <2>3, <2>4, <2>5, <2>6
<1>6. Synchronized(t)' => pc[t] = "snapshot"
  BY <1>1, <1>4 DEF Synchronized, Submit, MutateQueue, RestoreSnapshot, Acquire, Cancel,
     Goto, End, TypeOK
<1>7. ~ Synchronized(t)'
  BY <1>6 DEF PInv, StepInv, Synchronized
<1>8. \A u \in Tasks : Synchronized(u)' => u # t /\ Synchronized(u)
  BY <1>3, <1>7 DEF Synchronized
<1>9. SeenInv'
  <2>1. \A u \in Tasks : seen[u] \in Nat /\ seen[u] <= queueDb
    BY <1>1 DEF QInv, SeenInv, TypeOK
  <2>2. queueDb' \in Nat /\ queueDb \in Nat
    BY <1>1 DEF TypeOK, Submit, MutateQueue, RestoreSnapshot, Acquire, Cancel, database
  <2> QED BY <1>3, <1>5, <2>1, <2>2 DEF SeenInv
<1>10. ReachedInv' BY <1>2, <1>3, <1>8 DEF QInv, ReachedInv
<1>11. FreshInv' BY <1>3, <1>5, <1>8 DEF QInv, FreshInv
<1>12. LastInv' BY <1>2, <1>3, <1>5 DEF QInv, LastInv
<1>13. UnbornInv' BY <1>2 DEF QInv, UnbornInv
<1> QED BY <1>9, <1>10, <1>11, <1>12, <1>13 DEF QInv

LEMMA TailKeepsLast ==
    ASSUME NEW S, NEW s \in Seq(S), s # << >>
    PROVE  /\ Head(s) = s[1] /\ Head(s) \in S /\ 1 \in DOMAIN s
           /\ \A i \in DOMAIN Tail(s) : Tail(s)[i] = s[i + 1] /\ i + 1 \in DOMAIN s
           /\ Tail(s) = << >> => s[Len(s)] = s[1]
           /\ Tail(s) # << >> => Tail(s)[Len(Tail(s))] = s[Len(s)]
  OBVIOUS

\* A runtime applies the oldest command, and nothing else.
LEMMA ApplyQInv ==
    ASSUME IInv, QInv, NEW r \in Runtimes, RuntimeReload(r)
    PROVE  QInv'
<1> DEFINE s == inbox[r]
<1>1. /\ s = inbox[r] /\ s \in Seq(ReloadCommand) /\ s # << >>
      /\ inbox \in [Runtimes -> Seq(ReloadCommand)]
      /\ loaded \in [Runtimes -> Nat] /\ seen \in [Tasks -> Nat]
  BY DEF RuntimeReload, IInv, TypeOK
<1>2. /\ loaded'[r] = Head(s).version /\ inbox'[r] = Tail(s)
      /\ \A x \in Runtimes \ {r} : loaded'[x] = loaded[x] /\ inbox'[x] = inbox[x]
      /\ UNCHANGED <<queueDb, mapped, runtime, op, pc, seen, mine, result>>
      /\ runtime[r] \in {"live", "stopping"}
  BY <1>1 DEF RuntimeReload, database
<1> HIDE DEF s
<1>3. /\ Head(s) = s[1] /\ 1 \in DOMAIN s
      /\ \A i \in DOMAIN Tail(s) : Tail(s)[i] = s[i + 1] /\ i + 1 \in DOMAIN s
      /\ Tail(s) = << >> => s[Len(s)] = s[1]
      /\ Tail(s) # << >> => Tail(s)[Len(Tail(s))] = s[Len(s)]
  BY <1>1, TailKeepsLast
<1>4. SeenInv' BY <1>2 DEF QInv, SeenInv
<1>5. ReachedInv'
  <2>1. SUFFICES ASSUME NEW t \in Tasks, Synchronized(t), mapped # None
                 PROVE  /\ loaded'[mapped] >= seen[t]
                        /\ \A i \in DOMAIN inbox'[mapped] : inbox'[mapped][i].version >= seen[t]
    BY <1>2 DEF ReachedInv, Synchronized
  <2>2. /\ loaded[mapped] >= seen[t]
        /\ \A i \in DOMAIN inbox[mapped] : inbox[mapped][i].version >= seen[t]
    BY <2>1 DEF QInv, ReachedInv
  <2>3. CASE mapped = r
    <3>1. \A i \in DOMAIN s : s[i].version >= seen[t] BY <1>1, <2>2, <2>3
    <3>2. loaded'[r] >= seen[t] BY <1>2, <1>3, <3>1
    <3>3. \A i \in DOMAIN inbox'[r] : inbox'[r][i].version >= seen[t]
      BY <1>2, <1>3, <3>1
    <3> QED BY <2>3, <3>2, <3>3
  <2>4. CASE mapped # r
    <3>1. mapped \in Runtimes BY <2>1 DEF IInv, TypeOK
    <3> QED BY <1>2, <2>2, <2>4, <3>1
  <2> QED BY <2>3, <2>4
<1>6. FreshInv' BY <1>2 DEF QInv, FreshInv, Synchronized
<1>7. LastInv'
  <2>1. SUFFICES ASSUME NEW t \in Tasks, pc[t] = "reloading"
                 PROVE  /\ mapped # None
                        /\ mine[t] = mapped
                        /\ \/ runtime[mapped] = "lost"
                           \/ inbox'[mapped] = << >> /\ loaded'[mapped] >= seen[t]
                           \/ /\ inbox'[mapped] # << >>
                              /\ inbox'[mapped][Len(inbox'[mapped])]
                                   = [from |-> t, version |-> seen[t]]
    BY <1>2 DEF LastInv
  <2>2. /\ mapped # None /\ mine[t] = mapped
        /\ \/ runtime[mapped] = "lost"
           \/ inbox[mapped] = << >> /\ loaded[mapped] >= seen[t]
           \/ /\ inbox[mapped] # << >>
              /\ inbox[mapped][Len(inbox[mapped])] = [from |-> t, version |-> seen[t]]
    BY <2>1 DEF QInv, LastInv
  <2>3. CASE mapped = r
    <3>1. s[Len(s)] = [from |-> t, version |-> seen[t]]
      <4>1. runtime[r] # "lost" BY <1>2
      <4> QED BY <1>1, <2>2, <2>3, <4>1
    <3>2. CASE Tail(s) = << >>
      <4>1. loaded'[r] = seen[t] BY <1>2, <1>3, <3>1, <3>2
      <4>2. seen[t] \in Nat BY <1>1
      <4>3. seen[t] >= seen[t] BY <4>2
      <4>4. inbox'[mapped] = << >> /\ loaded'[mapped] >= seen[t]
        BY <1>2, <2>3, <3>2, <4>1, <4>3
      <4> QED BY <2>2, <4>4
    <3>3. CASE Tail(s) # << >>
      BY <1>2, <1>3, <2>2, <2>3, <3>1, <3>3
    <3> QED BY <3>2, <3>3
  <2>4. CASE mapped # r
    <3>1. mapped \in Runtimes BY <2>2 DEF IInv, TypeOK
    <3> QED BY <1>2, <2>2, <2>4, <3>1
  <2> QED BY <2>3, <2>4
<1>8. UnbornInv' BY <1>2 DEF QInv, UnbornInv
<1> QED BY <1>4, <1>5, <1>6, <1>7, <1>8 DEF QInv

LEMMA RuntimeQInv ==
    ASSUME IInv, QInv, NEW r \in Runtimes, RuntimeStep(r) \/ RuntimeLost(r)
    PROVE  QInv'
<1>1. /\ inbox \in [Runtimes -> Seq(ReloadCommand)]
      /\ runtime \in [Runtimes -> {"unborn", "live", "stopping", "gone", "failed", "lost"}]
      /\ mapped \in Runtimes \cup {None}
  BY DEF IInv, TypeOK
<1>2. ASSUME UNCHANGED <<queueDb, mapped, loaded, op, pc, seen, mine, result>>,
             \A x \in Runtimes \ {r} : runtime'[x] = runtime[x] /\ inbox'[x] = inbox[x],
             \/ inbox'[r] = inbox[r] /\ runtime[r] # "lost"
             \/ inbox'[r] = << >> /\ runtime'[r] = "lost",
             runtime'[r] # "unborn"
      PROVE  QInv'
  <2>1. SeenInv' /\ FreshInv' BY <1>2 DEF QInv, SeenInv, FreshInv, Synchronized
  <2>2. ReachedInv'
    <3> SUFFICES ASSUME NEW t \in Tasks, Synchronized(t)', mapped' # None
                 PROVE  /\ loaded'[mapped'] >= seen'[t]
                        /\ \A i \in DOMAIN inbox'[mapped'] :
                              inbox'[mapped'][i].version >= seen'[t]
      BY DEF ReachedInv
    <3>1. /\ loaded[mapped] >= seen[t]
          /\ \A i \in DOMAIN inbox[mapped] : inbox[mapped][i].version >= seen[t]
      BY <1>2 DEF QInv, ReachedInv, Synchronized
    <3>2. inbox'[mapped] = inbox[mapped] \/ inbox'[mapped] = << >>
      BY <1>1, <1>2
    <3> QED BY <1>2, <3>1, <3>2
  <2>3. LastInv' BY <1>1, <1>2 DEF QInv, LastInv
  <2>4. UnbornInv' BY <1>2 DEF QInv, UnbornInv
  <2> QED BY <2>1, <2>2, <2>3, <2>4 DEF QInv
<1>3. CASE RuntimeStops(r) BY <1>1, <1>2, <1>3 DEF RuntimeStops, database
<1>4. CASE RuntimeLost(r) BY <1>1, <1>2, <1>4 DEF RuntimeLost, database
<1> QED BY <1>3, <1>4, ApplyQInv DEF RuntimeStep

LEMMA CrashQInv ==
    ASSUME IInv, PInv, QInv, Crash
    PROVE  QInv'
<1>1. /\ mapped' = None /\ UNCHANGED <<queueDb, seen, op>>
      /\ \A r \in Runtimes : inbox'[r] = << >>
      /\ \A t \in Tasks : pc'[t] \in {"snapshot", "new", "done"}
  BY DEF Crash
<1>2. SeenInv' BY <1>1 DEF QInv, SeenInv
<1>3. ReachedInv' BY <1>1 DEF ReachedInv
<1>4. FreshInv' BY <1>1 DEF FreshInv
<1>5. LastInv' BY <1>1 DEF LastInv
<1>6. UnbornInv' BY <1>1 DEF UnbornInv
<1> QED BY <1>2, <1>3, <1>4, <1>5, <1>6 DEF QInv

LEMMA NextQInv == IInv /\ PInv /\ QInv /\ [Next]_vars => QInv'
<1>1. ASSUME QInv, UNCHANGED vars PROVE QInv'
  BY <1>1 DEF vars, database, runtimes, QInv, SeenInv, ReachedInv, FreshInv, LastInv, UnbornInv,
     Synchronized
<1> QED BY <1>1, WorkQInv, CallerQInv, RuntimeQInv, CrashQInv DEF Next, Idle

\* A queue change that was synchronized has reached the runtime that plays.
THEOREM SyncIsHeard == Spec => []SyncReachesRuntime
<1>1. QInv => SyncReachesRuntime
  BY DEF QInv, ReachedInv, Synchronized, SyncReachesRuntime
<1>2. Spec => []QInv
  <2>1. Init => QInv BY InitQInv
  <2>2. (IInv /\ PInv) /\ QInv /\ [Next]_vars => QInv' BY NextQInv
  <2> QED BY <2>1, <2>2, SpecPInv, PTL DEF Spec
<1> QED BY <1>1, <1>2, PTL

-----------------------------------------------------------------------------
(* The calendar.                                                           *)

LEMMA LeastNat ==
  ASSUME NEW S, S \subseteq Nat, S # {}
  PROVE  \E m \in S : \A n \in S : m <= n
<1>1. PICK m \in S : \A n \in S : ~ (<<n, m>> \in OpToRel(<, Nat))
  BY NatLessThanWellFounded, WFMin
<1>2. ASSUME NEW n \in S PROVE m <= n
  <2>1. m \in Nat /\ n \in Nat
    OBVIOUS
  <2>2. n < m => <<n, m>> \in OpToRel(<, Nat)
    BY <2>1 DEF OpToRel
  <2> QED
    <3>1. ~ n < m
      BY <1>1, <2>2
    <3> QED
      BY <2>1, <3>1
<1> QED
  BY <1>2

MonthEnd == Len(Months) + 1
MonthBegins(f, m) == IF m = 1 THEN 0 ELSE f[m - 1] + Months[m - 1]
Begins(f, k) == f = [m \in 1 .. k |-> MonthBegins(f, m)]

(* The recursion of FirstOf has a solution, built one month after another. *)
LEMMA FirstOfUnfolds == Begins(FirstOf, MonthEnd)
<1> DEFINE Unsolved == {k \in Nat : ~ \E f : Begins(f, k)}
<1>1. Len(Months) \in Nat /\ MonthEnd \in Nat
  BY ScheduleAssumption DEF MonthEnd
<1>2. Unsolved = {}
  <2> SUFFICES ASSUME Unsolved # {} PROVE FALSE
    OBVIOUS
  <2>1. PICK k \in Unsolved : \A n \in Unsolved : k <= n
    <3>1. Unsolved \subseteq Nat
      OBVIOUS
    <3> HIDE DEF Unsolved
    <3> QED
      BY <3>1, LeastNat
  <2>2. k # 0
    <3>1. 1 .. 0 = {}
      OBVIOUS
    <3>2. Begins([m \in {} |-> 0], 0)
      BY <3>1 DEF Begins
    <3> QED
      BY <2>1, <3>2
  <2>3. k \in Nat /\ k - 1 \in Nat /\ k - 1 \notin Unsolved
    BY <2>1, <2>2
  <2>4. PICK f : Begins(f, k - 1)
    BY <2>3
  <2> DEFINE g == [m \in 1 .. k |-> IF m < k THEN f[m] ELSE MonthBegins(f, m)]
  <2>5. ASSUME NEW m \in 1 .. k PROVE g[m] = MonthBegins(g, m)
    <3>1. g[m] = MonthBegins(f, m)
      <4>1. CASE m < k
        <5>1. m \in 1 .. k - 1
          BY <2>3, <4>1
        <5> QED
          BY <2>4, <4>1, <5>1 DEF Begins
      <4>2. CASE ~ m < k
        BY <4>2
      <4> QED
        BY <4>1, <4>2
    <3>2. m # 1 => g[m - 1] = f[m - 1]
      <4>1. m # 1 => m - 1 \in 1 .. k /\ m - 1 < k
        BY <2>3
      <4> QED
        BY <4>1
    <3> QED
      BY <3>1, <3>2 DEF MonthBegins
  <2>6. Begins(g, k)
    BY <2>5 DEF Begins
  <2> QED
    BY <2>1, <2>6
<1>3. \E f : Begins(f, MonthEnd)
  BY <1>1, <1>2
<1>4. FirstOf = CHOOSE f : Begins(f, MonthEnd)
  BY DEF FirstOf, Begins, MonthBegins, MonthEnd
<1> QED
  BY <1>3, <1>4

LEMMA FirstOfStep ==
  /\ FirstOf[1] = 0
  /\ \A m \in 1 .. Len(Months) : FirstOf[m + 1] = FirstOf[m] + Months[m]
<1>1. Len(Months) \in Nat /\ MonthEnd = Len(Months) + 1
  BY ScheduleAssumption DEF MonthEnd
<1>2. ASSUME NEW m \in 1 .. MonthEnd PROVE FirstOf[m] = MonthBegins(FirstOf, m)
  BY <1>2, FirstOfUnfolds DEF Begins
<1>3. FirstOf[1] = 0
  BY <1>1, <1>2 DEF MonthBegins
<1>4. ASSUME NEW m \in 1 .. Len(Months) PROVE FirstOf[m + 1] = FirstOf[m] + Months[m]
  <2>1. m + 1 \in 1 .. MonthEnd /\ m + 1 # 1 /\ (m + 1) - 1 = m
    BY <1>1
  <2> QED
    BY <1>2, <2>1 DEF MonthBegins
<1> QED
  BY <1>3, <1>4

(* Months begin one after another. *)
LEMMA FirstOfGrows ==
  /\ \A m \in 1 .. MonthEnd : FirstOf[m] \in Nat
  /\ \A m, n \in 1 .. MonthEnd : m < n => FirstOf[m] < FirstOf[n]
<1>1. Len(Months) \in Nat /\ MonthEnd = Len(Months) + 1
  BY ScheduleAssumption DEF MonthEnd
<1>2. \A m \in 1 .. Len(Months) : Months[m] \in Nat \ {0}
  BY ScheduleAssumption
<1>3. ASSUME NEW m \in 1 .. MonthEnd, m # 1
      PROVE  m - 1 \in 1 .. Len(Months) /\ FirstOf[m] = FirstOf[m - 1] + Months[m - 1]
  <2>1. m - 1 \in 1 .. Len(Months) /\ (m - 1) + 1 = m
    BY <1>1, <1>3
  <2> QED
    BY <2>1, FirstOfStep
<1>4. \A m \in 1 .. MonthEnd : FirstOf[m] \in Nat
  <2> DEFINE Bad == {m \in 1 .. MonthEnd : FirstOf[m] \notin Nat}
  <2> SUFFICES ASSUME Bad # {} PROVE FALSE
    OBVIOUS
  <2>1. Bad \subseteq Nat
    BY <1>1
  <2>2. PICK m \in Bad : \A n \in Bad : m <= n
    <3> HIDE DEF Bad
    <3> QED
      BY <2>1, LeastNat
  <2>3. m # 1
    BY <2>2, FirstOfStep
  <2>4. m - 1 \in 1 .. Len(Months) /\ FirstOf[m] = FirstOf[m - 1] + Months[m - 1]
    BY <1>3, <2>3
  <2>5. m - 1 \in 1 .. MonthEnd /\ ~ m <= m - 1
    BY <1>1, <2>4
  <2>6. FirstOf[m - 1] \in Nat
    BY <2>2, <2>5
  <2> QED
    BY <1>2, <2>4, <2>6
<1>5. ASSUME NEW m \in 1 .. MonthEnd PROVE \A n \in 1 .. MonthEnd : m < n => FirstOf[m] < FirstOf[n]
  <2> DEFINE Bad == {n \in 1 .. MonthEnd : m < n /\ ~ FirstOf[m] < FirstOf[n]}
  <2> SUFFICES ASSUME Bad # {} PROVE FALSE
    OBVIOUS
  <2>1. Bad \subseteq Nat
    BY <1>1
  <2>2. PICK n \in Bad : \A k \in Bad : n <= k
    <3> HIDE DEF Bad
    <3> QED
      BY <2>1, LeastNat
  <2>3. n # 1 /\ m < n /\ ~ FirstOf[m] < FirstOf[n]
    BY <2>2
  <2>4. n - 1 \in 1 .. Len(Months) /\ FirstOf[n] = FirstOf[n - 1] + Months[n - 1]
    BY <1>3, <2>3
  <2>5. n - 1 \in 1 .. MonthEnd /\ ~ n <= n - 1
    BY <1>1, <2>4
  <2>6. m = n - 1 \/ m < n - 1
    BY <2>3, <2>5
  <2>7. FirstOf[m] <= FirstOf[n - 1]
    BY <1>4, <2>2, <2>5, <2>6
  <2> QED
    BY <1>2, <1>4, <2>3, <2>4, <2>5, <2>7
<1> QED
  BY <1>4, <1>5

LEMMA DaysAreNumbers ==
  /\ Days = 0 .. FirstOf[MonthEnd] - 1 /\ FirstOf[MonthEnd] \in Nat
  /\ Days \subseteq Nat
<1>1. MonthEnd \in 1 .. MonthEnd
  BY ScheduleAssumption DEF MonthEnd
<1>2. FirstOf[MonthEnd] \in Nat
  BY <1>1, FirstOfGrows
<1>3. Days = 0 .. FirstOf[MonthEnd] - 1
  BY DEF Days, MonthEnd
<1> QED
  BY <1>2, <1>3

(* The month a day is in. *)
InMonth(date, m) == FirstOf[m] <= date /\ date < FirstOf[m + 1]

LEMMA MonthsCover ==
  ASSUME NEW date \in Days
  PROVE  /\ MonthOf[date] \in 1 .. Len(Months) /\ InMonth(date, MonthOf[date])
         /\ \A m \in 1 .. Len(Months) : InMonth(date, m) => m = MonthOf[date]
<1>1. Len(Months) \in Nat /\ MonthEnd = Len(Months) + 1 /\ DOMAIN Months = 1 .. Len(Months)
  BY ScheduleAssumption DEF MonthEnd
<1> DEFINE Past == {m \in 1 .. MonthEnd : date < FirstOf[m]}
<1>2. date \in Nat /\ date < FirstOf[MonthEnd]
  BY DaysAreNumbers
<1>3. Past \subseteq Nat /\ MonthEnd \in Past
  BY <1>1, <1>2
<1>4. PICK n \in Past : \A k \in Past : n <= k
  <2> HIDE DEF Past
  <2> QED
    BY <1>3, LeastNat
<1>5. n # 1
  BY <1>2, <1>4, FirstOfStep
<1>6. n - 1 \in 1 .. Len(Months) /\ n - 1 \in 1 .. MonthEnd /\ (n - 1) + 1 = n /\ ~ n <= n - 1
  BY <1>1, <1>4, <1>5
<1>7. FirstOf[n - 1] <= date
  <2>1. n - 1 \notin Past
    BY <1>4, <1>6
  <2>2. FirstOf[n - 1] \in Nat
    BY <1>6, FirstOfGrows
  <2> QED
    BY <1>2, <1>6, <2>1, <2>2
<1>8. InMonth(date, n - 1)
  BY <1>4, <1>6, <1>7 DEF InMonth
<1>9. MonthOf[date] = CHOOSE m \in 1 .. Len(Months) : InMonth(date, m)
  BY <1>1 DEF MonthOf, InMonth
<1>10. MonthOf[date] \in 1 .. Len(Months) /\ InMonth(date, MonthOf[date])
  BY <1>6, <1>8, <1>9
<1>11. ASSUME NEW m \in 1 .. Len(Months), InMonth(date, m), NEW k \in 1 .. Len(Months),
              InMonth(date, k)
       PROVE  ~ m < k
  <2>1. m \in 1 .. MonthEnd /\ k \in 1 .. MonthEnd /\ m + 1 \in 1 .. MonthEnd
    BY <1>1
  <2>2. FirstOf[m + 1] \in Nat /\ FirstOf[k] \in Nat
    BY <2>1, FirstOfGrows
  <2>3. date < FirstOf[m + 1] /\ FirstOf[k] <= date
    BY <1>11 DEF InMonth
  <2>4. m < k => m + 1 = k \/ m + 1 < k
    BY <1>1
  <2>5. m < k => FirstOf[m + 1] <= FirstOf[k]
    BY <2>1, <2>2, <2>4, FirstOfGrows
  <2> QED
    BY <1>2, <2>2, <2>3, <2>5
<1>12. ASSUME NEW m \in 1 .. Len(Months), InMonth(date, m) PROVE m = MonthOf[date]
  <2> DEFINE k == MonthOf[date]
  <2>1. ~ m < k /\ ~ k < m
    BY <1>10, <1>11, <1>12
  <2>2. k \in 1 .. Len(Months)
    BY <1>10
  <2> QED
    BY <1>1, <2>1, <2>2
<1> QED
  BY <1>10, <1>12

-----------------------------------------------------------------------------
(* What is on.                                                             *)

Moments == 0 .. Slots - 1
RowsAreTyped == weekly \subseteq EntryRow /\ events \subseteq EventRow

LEMMA SlotsArePositive == Slots \in Nat /\ Slots > 1
BY ScheduleAssumption

LEMMA BestOne ==
  ASSUME NEW S, S # {}, NEW f, \A x \in S : f[x] \in Nat
  PROVE  \E x \in S : \A y \in S : f[x] <= f[y]
<1> DEFINE T == {f[x] : x \in S}
<1>1. T \subseteq Nat /\ T # {}
  OBVIOUS
<1>2. PICK m \in T : \A n \in T : m <= n
  <2> HIDE DEF T
  <2> QED
    BY <1>1, LeastNat
<1> QED
  BY <1>2

(* Moments of different days are as far apart as the days. *)
LEMMA DaysAreLong ==
  ASSUME NEW a \in Int, NEW b \in Int, NEW x \in Moments, NEW y \in Moments
  PROVE  /\ Now(a, x) \in Int
         /\ Now(a, x) <= Now(b, y) <=> a < b \/ (a = b /\ x <= y)
BY SlotsArePositive DEF Now, Moments

LEMMA DayBefore ==
  ASSUME NEW date \in Int, NEW x \in Int
  PROVE  Now(date, x) \in Int /\ Now(date - 1, x) = Now(date, x - Slots)
         /\ Now(date, x) = Now(date, 0) + x
<1>1. (date - 1) * Slots = date * Slots - Slots /\ date * Slots \in Int
  BY SlotsArePositive
<1> QED
  BY <1>1, SlotsArePositive DEF Now

(* A row is on since today or since yesterday. *)
LEMMA LastsWhen ==
  ASSUME NEW date \in Int, NEW moment \in Moments,
         NEW e, e.from \in Moments, e.to \in Moments
  PROVE  /\ Lasts(e, date, date, moment) <=> e.from <= moment /\ (Overnight(e) \/ moment < e.to)
         /\ Lasts(e, date - 1, date, moment) <=> Overnight(e) /\ moment < e.to
<1>1. Ends(e) = IF Overnight(e) THEN e.to + Slots ELSE e.to
  BY DEF Ends
<1>2. Overnight(e) <=> e.to <= e.from
  BY DEF Overnight
<1>3. /\ e.from \in Int /\ e.to \in Int /\ moment \in Int /\ Ends(e) \in Int /\ Slots \in Int
      /\ 0 <= moment /\ moment < Slots /\ e.from < Slots /\ 0 <= e.to /\ e.to < Slots
  BY <1>1, SlotsArePositive DEF Moments
<1>4. /\ Now(date, moment) = Now(date, 0) + moment /\ Now(date, e.from) = Now(date, 0) + e.from
      /\ Now(date, Ends(e)) = Now(date, 0) + Ends(e) /\ Now(date, 0) \in Int
      /\ Now(date - 1, e.from) = Now(date, 0) + (e.from - Slots)
      /\ Now(date - 1, Ends(e)) = Now(date, 0) + (Ends(e) - Slots)
  <2>1. e.from - Slots \in Int /\ Ends(e) - Slots \in Int
    BY <1>3
  <2>2. \A x \in Int : Now(date - 1, x) = Now(date, x - Slots) /\ Now(date, x) = Now(date, 0) + x
                       /\ Now(date, x) \in Int
    BY DayBefore
  <2> QED
    BY <1>3, <2>1, <2>2
<1>5. Lasts(e, date, date, moment) <=> e.from <= moment /\ moment < Ends(e)
  BY <1>3, <1>4 DEF Lasts
<1>6. Lasts(e, date - 1, date, moment) <=> e.from - Slots <= moment /\ moment < Ends(e) - Slots
  BY <1>3, <1>4 DEF Lasts
<1> QED
  BY <1>1, <1>2, <1>3, <1>5, <1>6

LEMMA Weekdays ==
  ASSUME NEW date \in Int
  PROVE  /\ Weekday(date) \in 0 .. 6
         /\ Weekday(date - 1) = (Weekday(date) + 6) % 7
         /\ Weekday(date - 1) # Weekday(date)
<1>1. date % 7 \in 0 .. 6
  BY Z3
<1>2. ((date % 7) + 6) % 7 = (date - 1) % 7
  BY Z3
<1>3. (date - 1) % 7 # date % 7
  BY Z3
<1> QED
  BY <1>1, <1>2, <1>3 DEF Weekday

(* The day an active entry began on. *)
BeganOn(e, date) == IF e.day = Weekday(date) THEN date ELSE date - 1

LEMMA EntryIsOn ==
  ASSUME NEW date \in Int, NEW moment \in Moments, NEW e \in EntryRow, NEW d \in {date - 1, date}
  PROVE  /\ Weekday(d) = e.day /\ Lasts(e, d, date, moment)
              <=> ActiveOnDay(e, Weekday(date), moment) /\ d = BeganOn(e, date)
         /\ Now(BeganOn(e, date), e.from) = Now(date, 0) + EffectiveStart(e, Weekday(date))
         /\ EffectiveStart(e, Weekday(date)) \in Int /\ EffectiveStart(e, Weekday(date)) <= Slots
         /\ Now(date, 0) \in Int
<1>1. e.from \in Moments /\ e.to \in Moments
  BY DEF EntryRow, Moments
<1>2. /\ Weekday(date) \in 0 .. 6 /\ Weekday(date - 1) = (Weekday(date) + 6) % 7
      /\ Weekday(date - 1) # Weekday(date)
  BY Weekdays
<1>3. /\ Lasts(e, date, date, moment) <=> e.from <= moment /\ (Overnight(e) \/ moment < e.to)
      /\ Lasts(e, date - 1, date, moment) <=> Overnight(e) /\ moment < e.to
  BY <1>1, LastsWhen
<1>4. e.from \in Int /\ e.to \in Int /\ moment \in Int /\ e.from < Slots /\ Slots \in Nat
  BY <1>1, SlotsArePositive DEF Moments
<1>5. Now(BeganOn(e, date), e.from) = Now(date, 0) + EffectiveStart(e, Weekday(date))
  <2>1. \A x \in Int : Now(date - 1, x) = Now(date, x - Slots) /\ Now(date, x) = Now(date, 0) + x
    BY DayBefore
  <2>2. e.from - Slots \in Int
    BY <1>4
  <2>3. Now(date - 1, e.from) = Now(date, 0) + (e.from - Slots)
        /\ Now(date, e.from) = Now(date, 0) + e.from
    BY <1>4, <2>1, <2>2
  <2> QED
    BY <2>3 DEF BeganOn, EffectiveStart
<1>6. Weekday(d) = e.day /\ Lasts(e, d, date, moment)
        <=> ActiveOnDay(e, Weekday(date), moment) /\ d = BeganOn(e, date)
  <2>1. ActiveOnDay(e, Weekday(date), moment) <=>
          IF Overnight(e)
          THEN \/ e.day = Weekday(date) /\ e.from <= moment
               \/ e.day = Weekday(date - 1) /\ moment < e.to
          ELSE e.day = Weekday(date) /\ e.from <= moment /\ moment < e.to
    BY <1>2, <1>4 DEF ActiveOnDay
  <2>2. date - 1 # date
    OBVIOUS
  <2>3. CASE d = date
    BY <1>2, <1>3, <2>1, <2>2, <2>3 DEF BeganOn
  <2>4. CASE d = date - 1
    BY <1>2, <1>3, <2>1, <2>2, <2>4 DEF BeganOn
  <2> QED
    BY <2>3, <2>4
<1>7. /\ EffectiveStart(e, Weekday(date)) \in Int /\ EffectiveStart(e, Weekday(date)) <= Slots
      /\ Now(date, 0) \in Int
  <2>1. Now(date, 0) \in Int
    BY DayBefore
  <2> QED
    BY <1>4, <2>1 DEF EffectiveStart
<1> QED
  BY <1>5, <1>6, <1>7

(* The weekly entry that is on and began last. *)
LastOf(on) == {p \in on : \A q \in on : Now(q[2], q[1].from) <= Now(p[2], p[1].from)}

LEMMA EntriesArePlayed ==
  ASSUME RowsAreTyped, NEW date \in Int, NEW moment \in Moments
  PROVE  /\ FindActiveSchedule(date, moment) # {} <=> EntriesOn(date, moment) # {}
         /\ {e.src : e \in FindActiveSchedule(date, moment)}
              = {p[1].src : p \in LastOf(EntriesOn(date, moment))}
<1> DEFINE today == Weekday(date)
           on == EntriesOn(date, moment)
           active == {e \in weekly : ActiveOnDay(e, today, moment)}
           found == FindActiveSchedule(date, moment)
           Pair(e) == <<e, BeganOn(e, date)>>
           Late(e) == EffectiveStart(e, today)
<1>1. weekly \subseteq EntryRow
  BY DEF RowsAreTyped
<1>2. found = {e \in active : \A f \in active : Late(f) <= Late(e)}
  BY DEF FindActiveSchedule
<1>3. on = {p \in weekly \X {date - 1, date} :
              Weekday(p[2]) = p[1].day /\ Lasts(p[1], p[2], date, moment)}
  BY DEF EntriesOn
<1>4. \A e \in active : Pair(e) \in on
  <2> SUFFICES ASSUME NEW e \in active PROVE Pair(e) \in on
    OBVIOUS
  <2>1. e \in EntryRow /\ BeganOn(e, date) \in {date - 1, date}
    BY <1>1 DEF BeganOn
  <2>2. Weekday(BeganOn(e, date)) = e.day /\ Lasts(e, BeganOn(e, date), date, moment)
    BY <2>1, EntryIsOn
  <2> QED
    BY <1>3, <2>1, <2>2
<1>5. \A p \in on : p[1] \in active /\ p = Pair(p[1])
  <2> SUFFICES ASSUME NEW p \in on PROVE p[1] \in active /\ p = Pair(p[1])
    OBVIOUS
  <2>1. p = <<p[1], p[2]>> /\ p[1] \in weekly /\ p[2] \in {date - 1, date}
        /\ Weekday(p[2]) = p[1].day /\ Lasts(p[1], p[2], date, moment)
    BY <1>3
  <2>2. p[1] \in EntryRow
    BY <1>1, <2>1
  <2>3. Weekday(p[2]) = p[1].day /\ Lasts(p[1], p[2], date, moment)
          <=> ActiveOnDay(p[1], Weekday(date), moment) /\ p[2] = BeganOn(p[1], date)
    BY <2>1, <2>2, EntryIsOn
  <2>4. ActiveOnDay(p[1], today, moment) /\ p[2] = BeganOn(p[1], date)
    BY <2>1, <2>3
  <2> QED
    BY <2>1, <2>4
<1>6. \A e \in active : /\ Now(Pair(e)[2], Pair(e)[1].from) = Now(date, 0) + Late(e)
                        /\ Late(e) \in Int /\ Late(e) <= Slots
  <2> SUFFICES ASSUME NEW e \in active
               PROVE  /\ Now(Pair(e)[2], Pair(e)[1].from) = Now(date, 0) + Late(e)
                      /\ Late(e) \in Int /\ Late(e) <= Slots
    OBVIOUS
  <2>1. e \in EntryRow /\ date \in {date - 1, date}
    BY <1>1
  <2>2. /\ Now(BeganOn(e, date), e.from) = Now(date, 0) + EffectiveStart(e, Weekday(date))
        /\ EffectiveStart(e, Weekday(date)) \in Int /\ EffectiveStart(e, Weekday(date)) <= Slots
    BY <2>1, EntryIsOn
  <2> QED
    BY <2>2
<1>7. Now(date, 0) \in Int
  BY DayBefore
<1>8. active # {} => found # {}
  <2> SUFFICES ASSUME active # {} PROVE found # {}
    OBVIOUS
  <2> DEFINE f == [e \in active |-> Slots - Late(e)]
  <2>1. \A e \in active : f[e] \in Nat
    BY <1>6, SlotsArePositive
  <2>2. PICK e \in active : \A y \in active : f[e] <= f[y]
    <3> HIDE DEF f, active
    <3> QED
      BY <2>1, BestOne
  <2>3. \A y \in active : Late(y) <= Late(e)
    BY <1>6, <2>2, SlotsArePositive
  <2> QED
    BY <1>2, <2>3
<1>9. found \subseteq active
  BY <1>2
<1> HIDE DEF found, active, on, Late
<1>10. found # {} <=> on # {}
  BY <1>4, <1>5, <1>8, <1>9
<1>11. \A e \in active : e \in found <=> Pair(e) \in LastOf(on)
  <2> SUFFICES ASSUME NEW e \in active PROVE e \in found <=> Pair(e) \in LastOf(on)
    OBVIOUS
  <2>1. e \in found <=> \A f \in active : Late(f) <= Late(e)
    BY <1>2
  <2>2. Pair(e) \in LastOf(on)
          <=> \A q \in on : Now(q[2], q[1].from) <= Now(Pair(e)[2], Pair(e)[1].from)
    BY <1>4 DEF LastOf
  <2>3. ASSUME NEW f \in active
        PROVE  Now(Pair(f)[2], Pair(f)[1].from) <= Now(Pair(e)[2], Pair(e)[1].from)
                 <=> Late(f) <= Late(e)
    BY <1>6, <1>7
  <2>4. (\A q \in on : Now(q[2], q[1].from) <= Now(Pair(e)[2], Pair(e)[1].from))
          <=> \A f \in active : Late(f) <= Late(e)
    <3> HIDE DEF Pair
    <3> QED
      BY <1>4, <1>5, <2>3
  <2> QED
    BY <2>1, <2>2, <2>4
<1>12. {e.src : e \in found} = {p[1].src : p \in LastOf(on)}
  <2>1. ASSUME NEW e \in found PROVE \E p \in LastOf(on) : p[1].src = e.src
    <3>1. Pair(e) \in LastOf(on)
      BY <1>9, <1>11
    <3> QED
      BY <3>1
  <2>2. ASSUME NEW p \in LastOf(on) PROVE p[1] \in found
    <3>1. p \in on
      BY DEF LastOf
    <3>2. p[1] \in active /\ p = Pair(p[1])
      BY <1>5, <3>1
    <3> HIDE DEF Pair
    <3> QED
      BY <1>11, <3>2
  <2> QED
    BY <2>1, <2>2
<1> QED
  BY <1>10, <1>12 DEF found, on

(* The event that is on and has the earliest first date. *)
EventDay(e, date, moment) == IF Overnight(e) /\ moment < e.to THEN date - 1 ELSE date

FirstOn(due) ==
  {p \in due : \A q \in due : Now(p[1].date, p[1].from) <= Now(q[1].date, q[1].from)}

LEMMA EventIsOn ==
  ASSUME NEW date \in Int, NEW moment \in Moments, NEW e \in EventRow, NEW d \in {date - 1, date}
  PROVE  MatchesRecurrence(e, d) /\ Lasts(e, d, date, moment)
           <=> EventIsActive(e, date, moment) /\ d = EventDay(e, date, moment)
<1>1. e.from \in Moments /\ e.to \in Moments
  BY DEF EventRow, Moments
<1>2. /\ Lasts(e, date, date, moment) <=> e.from <= moment /\ (Overnight(e) \/ moment < e.to)
      /\ Lasts(e, date - 1, date, moment) <=> Overnight(e) /\ moment < e.to
  BY <1>1, LastsWhen
<1>3. e.from \in Int /\ e.to \in Int /\ moment \in Int /\ date - 1 # date
  BY <1>1 DEF Moments
<1>4. Overnight(e) <=> e.to <= e.from
  BY DEF Overnight
<1>5. EventIsActive(e, date, moment) <=>
        /\ MatchesRecurrence(e, EventDay(e, date, moment))
        /\ IF Overnight(e) THEN e.from <= moment \/ moment < e.to
           ELSE e.from <= moment /\ moment < e.to
  BY <1>3 DEF EventIsActive, EventDay
<1>6. CASE d = date
  BY <1>2, <1>3, <1>4, <1>5, <1>6 DEF EventDay
<1>7. CASE d = date - 1
  BY <1>2, <1>3, <1>4, <1>5, <1>7 DEF EventDay
<1> QED
  BY <1>6, <1>7

LEMMA EventsArePlayed ==
  ASSUME RowsAreTyped, NEW date \in Int, NEW moment \in Moments
  PROVE  /\ FindActiveEvent(date, moment) # {} <=> EventsOn(date, moment) # {}
         /\ {e.src : e \in FindActiveEvent(date, moment)}
              = {p[1].src : p \in FirstOn(EventsOn(date, moment))}
<1> DEFINE on == EventsOn(date, moment)
           active == {e \in events : EventIsActive(e, date, moment)}
           found == FindActiveEvent(date, moment)
           Pair(e) == <<e, EventDay(e, date, moment)>>
           StartOf(e) == Now(e.date, e.from)
<1>1. events \subseteq EventRow
  BY DEF RowsAreTyped
<1>2. found = {e \in active : \A f \in active :
                 e.date < f.date \/ (e.date = f.date /\ e.from <= f.from)}
  BY DEF FindActiveEvent
<1>3. on = {p \in events \X {date - 1, date} :
              MatchesRecurrence(p[1], p[2]) /\ Lasts(p[1], p[2], date, moment)}
  BY DEF EventsOn
<1>4. \A e \in active : Pair(e) \in on
  <2> SUFFICES ASSUME NEW e \in active PROVE Pair(e) \in on
    OBVIOUS
  <2>1. e \in EventRow /\ EventDay(e, date, moment) \in {date - 1, date}
    BY <1>1 DEF EventDay
  <2>2. MatchesRecurrence(e, EventDay(e, date, moment))
        /\ Lasts(e, EventDay(e, date, moment), date, moment)
    BY <2>1, EventIsOn
  <2> QED
    BY <1>3, <2>1, <2>2
<1>5. \A p \in on : p[1] \in active /\ p = Pair(p[1])
  <2> SUFFICES ASSUME NEW p \in on PROVE p[1] \in active /\ p = Pair(p[1])
    OBVIOUS
  <2>1. p = <<p[1], p[2]>> /\ p[1] \in events /\ p[2] \in {date - 1, date}
        /\ MatchesRecurrence(p[1], p[2]) /\ Lasts(p[1], p[2], date, moment)
    BY <1>3
  <2>2. EventIsActive(p[1], date, moment) /\ p[2] = EventDay(p[1], date, moment)
    BY <1>1, <2>1, EventIsOn
  <2> QED
    BY <2>1, <2>2
<1>6. \A e \in active : e.date \in Nat /\ e.from \in Moments
  BY <1>1, DaysAreNumbers DEF EventRow, Moments
<1>7. \A e, f \in active : /\ StartOf(e) \in Nat
                           /\ StartOf(e) <= StartOf(f) <=>
                                e.date < f.date \/ (e.date = f.date /\ e.from <= f.from)
  <2> SUFFICES ASSUME NEW e \in active, NEW f \in active
               PROVE  /\ StartOf(e) \in Nat
                      /\ StartOf(e) <= StartOf(f) <=>
                           e.date < f.date \/ (e.date = f.date /\ e.from <= f.from)
    OBVIOUS
  <2>1. e.date \in Nat /\ e.from \in Moments /\ f.date \in Nat /\ f.from \in Moments
    BY <1>6
  <2>2. StartOf(e) <= StartOf(f) <=> e.date < f.date \/ (e.date = f.date /\ e.from <= f.from)
    BY <2>1, DaysAreLong
  <2>3. StartOf(e) \in Nat
    <3>1. e.date * Slots \in Nat /\ e.from \in Nat
      BY <2>1, SlotsArePositive DEF Moments
    <3> QED
      BY <3>1 DEF Now
  <2> QED
    BY <2>2, <2>3
<1>8. active # {} => found # {}
  <2> SUFFICES ASSUME active # {} PROVE found # {}
    OBVIOUS
  <2> DEFINE f == [e \in active |-> StartOf(e)]
  <2>1. \A e \in active : f[e] \in Nat
    BY <1>7
  <2>2. PICK e \in active : \A y \in active : f[e] <= f[y]
    <3> HIDE DEF f, active
    <3> QED
      BY <2>1, BestOne
  <2>3. \A y \in active : e.date < y.date \/ (e.date = y.date /\ e.from <= y.from)
    BY <1>7, <2>2
  <2> QED
    BY <1>2, <2>3
<1>9. found \subseteq active
  BY <1>2
<1>10. found = {e \in active : \A f \in active : StartOf(e) <= StartOf(f)}
  BY <1>2, <1>7
<1> HIDE DEF found, active, on, StartOf
<1>11. found # {} <=> on # {}
  BY <1>4, <1>5, <1>8, <1>9
<1>12. \A p \in on : p \in FirstOn(on) <=> \A q \in on : StartOf(p[1]) <= StartOf(q[1])
  BY DEF FirstOn, StartOf
<1>13. \A e \in active : e \in found <=> Pair(e) \in FirstOn(on)
  <2> SUFFICES ASSUME NEW e \in active PROVE e \in found <=> Pair(e) \in FirstOn(on)
    OBVIOUS
  <2>1. Pair(e) \in on /\ Pair(e)[1] = e
    BY <1>4
  <2>2. \A f \in active : Pair(f) \in on /\ Pair(f)[1] = f
    BY <1>4
  <2> HIDE DEF Pair
  <2> QED
    BY <1>5, <1>10, <1>12, <2>1, <2>2
<1>14. {e.src : e \in found} = {p[1].src : p \in FirstOn(on)}
  <2>1. ASSUME NEW e \in found PROVE \E p \in FirstOn(on) : p[1].src = e.src
    <3>1. Pair(e) \in FirstOn(on)
      BY <1>9, <1>13
    <3> QED
      BY <3>1
  <2>2. ASSUME NEW p \in FirstOn(on) PROVE p[1] \in found
    <3>1. p \in on
      BY DEF FirstOn
    <3>2. p[1] \in active /\ p = Pair(p[1])
      BY <1>5, <3>1
    <3> HIDE DEF Pair
    <3> QED
      BY <1>13, <3>2
  <2> QED
    BY <2>1, <2>2
<1> QED
  BY <1>11, <1>14 DEF found, on

(* Whatever is stored, if it is typed. *)
LEMMA TypedRowsArePlayed == RowsAreTyped => OnPlays
<1> SUFFICES ASSUME RowsAreTyped, NEW t \in Times
             PROVE  SourcesAt(t[1], t[2], Null) =
                      IF EntriesOn(t[1], t[2]) # {}
                      THEN {p[1].src : p \in LastOf(EntriesOn(t[1], t[2]))}
                      ELSE IF EventsOn(t[1], t[2]) # {}
                      THEN {p[1].src : p \in FirstOn(EventsOn(t[1], t[2]))} ELSE {Null}
  BY DEF OnPlays, LastOf, FirstOn
<1>1. t[1] \in Int /\ t[2] \in Moments
  BY DaysAreNumbers DEF Times, Moments
<1>2. /\ FindActiveSchedule(t[1], t[2]) # {} <=> EntriesOn(t[1], t[2]) # {}
      /\ {e.src : e \in FindActiveSchedule(t[1], t[2])}
           = {p[1].src : p \in LastOf(EntriesOn(t[1], t[2]))}
  BY <1>1, EntriesArePlayed
<1>3. /\ FindActiveEvent(t[1], t[2]) # {} <=> EventsOn(t[1], t[2]) # {}
      /\ {e.src : e \in FindActiveEvent(t[1], t[2])}
           = {p[1].src : p \in FirstOn(EventsOn(t[1], t[2]))}
  BY <1>1, EventsArePlayed
<1> QED
  BY <1>2, <1>3 DEF SourcesAt

-----------------------------------------------------------------------------
(* How often a rule has taken place.                                       *)

LEMMA SameSize ==
  ASSUME NEW A, NEW B, IsFiniteSet(B), NEW f \in [A -> B],
         \A p, q \in A : f[p] = f[q] => p = q,
         \A b \in B : \E p \in A : f[p] = b
  PROVE  IsFiniteSet(A) /\ Cardinality(A) = Cardinality(B)
<1>1. f \in Bijection(A, B)
  BY Fun_IsBij
<1>2. ExistsBijection(A, B)
  BY <1>1 DEF ExistsBijection
<1>3. ExistsBijection(B, A)
  BY <1>2, Fun_ExistsBijSymmetric
<1> QED
  BY <1>3, FS_Bijection

LEMMA Numbered ==
  ASSUME NEW A, NEW n \in Nat, NEW f \in [A -> 0 .. n],
         \A p, q \in A : f[p] = f[q] => p = q,
         \A k \in 0 .. n : \E p \in A : f[p] = k
  PROVE  Cardinality(A) = n + 1
<1>1. IsFiniteSet(0 .. n) /\ Cardinality(0 .. n) = n + 1
  BY FS_Interval
<1> QED
  BY <1>1, SameSize

LEMMA Division ==
  ASSUME NEW a \in Nat, NEW k \in Nat \ {0}
  PROVE  a = k * (a \div k) + (a % k) /\ a \div k \in Nat /\ a % k \in 0 .. k - 1
BY Z3

LEMMA ExactDivision ==
  ASSUME NEW k \in Nat \ {0}
  PROVE  \A a \in Nat : a % k = 0 => a \div k \in Nat /\ a = k * (a \div k)
<1> SUFFICES ASSUME NEW a \in Nat, a % k = 0 PROVE a \div k \in Nat /\ a = k * (a \div k)
  OBVIOUS
<1>1. a = k * (a \div k) + (a % k) /\ a \div k \in Nat
  BY Division
<1>2. k * (a \div k) \in Nat
  BY <1>1
<1> QED
  BY <1>1, <1>2

LEMMA Multiple ==
  ASSUME NEW n \in Nat, NEW k \in Nat \ {0}
  PROVE  (k * n) % k = 0 /\ (k * n) \div k = n /\ k * n \in Nat
BY Z3

(* The dates of a rule up to one of them. *)
EveryCount(start, every, d) == {p \in Days : start <= p /\ p <= d /\ (p - start) % every = 0}
MonthlyCount(start, d) ==
  {p \in Days : start <= p /\ p <= d /\ DayOfMonth(p) = DayOfMonth(start)}
WeekdayCount(start, days, d) == {p \in Days : start <= p /\ p <= d /\ Weekday(p) \in days}

LEMMA EveryCounts ==
  ASSUME NEW start \in Days, NEW every \in Nat \ {0}, NEW d \in Days, start <= d,
         (d - start) % every = 0
  PROVE  /\ (d - start) \div every \in Nat
         /\ Cardinality(EveryCount(start, every, d)) = ((d - start) \div every) + 1
<1> DEFINE A == EveryCount(start, every, d)
           n == (d - start) \div every
           f == [p \in A |-> (p - start) \div every]
<1>1. start \in Nat /\ d \in Nat /\ Days = 0 .. FirstOf[MonthEnd] - 1 /\ FirstOf[MonthEnd] \in Nat
  BY DaysAreNumbers
<1>2. d - start \in Nat /\ n \in Nat /\ d - start = every * n
  <2>1. d - start \in Nat
    BY <1>1
  <2>2. \A a \in Nat : a % every = 0 => a \div every \in Nat /\ a = every * (a \div every)
    BY ExactDivision
  <2> QED
    BY <2>1, <2>2, Zenon
<1>3. ASSUME NEW p \in A
      PROVE  /\ p \in Nat /\ f[p] \in Nat /\ p = start + every * f[p] /\ f[p] <= n
  <2>1. p \in Nat /\ p - start \in Nat /\ (p - start) % every = 0 /\ p <= d
    BY <1>1 DEF EveryCount
  <2>2. f[p] \in Nat /\ p - start = every * f[p]
    <3>1. \A a \in Nat : a % every = 0 => a \div every \in Nat /\ a = every * (a \div every)
      BY ExactDivision
    <3> QED
      BY <2>1, <3>1, Zenon
  <2>3. every * f[p] <= every * n
    BY <1>1, <1>2, <2>1, <2>2
  <2>4. f[p] <= n
    <3> HIDE DEF f, n
    <3>1. n < f[p] => every * n + every <= every * f[p]
      BY <1>2, <2>2, Z3
    <3>2. every * n \in Int /\ every * f[p] \in Int
      BY <1>2, <2>2
    <3> QED
      BY <1>2, <2>2, <2>3, <3>1, <3>2
  <2> QED
    BY <1>1, <2>1, <2>2, <2>4
<1>4. f \in [A -> 0 .. n]
  BY <1>2, <1>3
<1>5. \A p, q \in A : f[p] = f[q] => p = q
  BY <1>3
<1>6. ASSUME NEW k \in 0 .. n PROVE \E p \in A : f[p] = k
  <2> DEFINE p == start + every * k
  <2>1. k \in Nat /\ every * k \in Nat /\ (every * k) % every = 0 /\ (every * k) \div every = k
    BY <1>2, Multiple
  <2>2. every * k <= every * n
    <3> HIDE DEF n
    <3>1. every * (n - k) \in Nat /\ every * n = every * k + every * (n - k)
      BY <1>2, <2>1, Z3
    <3> QED
      BY <1>2, <2>1, <3>1
  <2>3. p - start = every * k /\ p \in Nat /\ start <= p /\ p <= d
    BY <1>1, <1>2, <2>1, <2>2
  <2>4. p \in A
    BY <1>1, <2>1, <2>3 DEF EveryCount
  <2> QED
    BY <2>1, <2>3, <2>4
<1> HIDE DEF A, f, n
<1>7. Cardinality(A) = n + 1
  BY <1>2, <1>4, <1>5, <1>6, Numbered
<1> QED
  BY <1>2, <1>7 DEF A, n

LEMMA MonthsGrow ==
  ASSUME NEW p \in Days, NEW q \in Days, p <= q
  PROVE  MonthOf[p] <= MonthOf[q]
<1>1. /\ MonthOf[p] \in 1 .. Len(Months) /\ InMonth(p, MonthOf[p])
      /\ MonthOf[q] \in 1 .. Len(Months) /\ InMonth(q, MonthOf[q])
  BY MonthsCover
<1>2. MonthEnd = Len(Months) + 1 /\ Len(Months) \in Nat /\ p \in Nat /\ q \in Nat
  BY ScheduleAssumption, DaysAreNumbers DEF MonthEnd
<1> DEFINE m == MonthOf[q] + 1
           n == MonthOf[p]
<1>3. m \in 1 .. MonthEnd /\ n \in 1 .. MonthEnd
  BY <1>1, <1>2
<1>4. FirstOf[m] \in Nat /\ FirstOf[n] \in Nat /\ (m < n => FirstOf[m] < FirstOf[n])
  BY <1>3, FirstOfGrows
<1>5. FirstOf[n] <= p /\ q < FirstOf[m]
  BY <1>1 DEF InMonth
<1> QED
  BY <1>1, <1>2, <1>3, <1>4, <1>5

LEMMA MonthlyCounts ==
  ASSUME NEW start \in Days, NEW d \in Days, start <= d, DayOfMonth(d) = DayOfMonth(start),
         \A m \in DOMAIN Months : DayOfMonth(start) < Months[m]
  PROVE  /\ MonthOf[d] - MonthOf[start] \in Nat
         /\ Cardinality(MonthlyCount(start, d)) = (MonthOf[d] - MonthOf[start]) + 1
<1> DEFINE A == MonthlyCount(start, d)
           n == MonthOf[d] - MonthOf[start]
           f == [p \in A |-> MonthOf[p] - MonthOf[start]]
           day == DayOfMonth(start)
<1>1. /\ start \in Nat /\ d \in Nat /\ Days = 0 .. FirstOf[MonthEnd] - 1
      /\ FirstOf[MonthEnd] \in Nat /\ MonthEnd = Len(Months) + 1 /\ Len(Months) \in Nat
      /\ DOMAIN Months = 1 .. Len(Months) /\ \A m \in 1 .. Len(Months) : Months[m] \in Nat
  BY ScheduleAssumption, DaysAreNumbers DEF MonthEnd
<1>2. \A p \in Days : MonthOf[p] \in 1 .. Len(Months) /\ InMonth(p, MonthOf[p])
  BY MonthsCover
<1>3. \A m \in 1 .. MonthEnd : FirstOf[m] \in Nat
  BY FirstOfGrows
<1>4. \A p \in Days : /\ MonthOf[p] \in 1 .. Len(Months) /\ FirstOf[MonthOf[p]] \in Nat
                      /\ p = FirstOf[MonthOf[p]] + DayOfMonth(p) /\ DayOfMonth(p) \in Nat
  <2> SUFFICES ASSUME NEW p \in Days
               PROVE  /\ MonthOf[p] \in 1 .. Len(Months) /\ FirstOf[MonthOf[p]] \in Nat
                      /\ p = FirstOf[MonthOf[p]] + DayOfMonth(p) /\ DayOfMonth(p) \in Nat
    OBVIOUS
  <2>1. MonthOf[p] \in 1 .. Len(Months) /\ MonthOf[p] \in 1 .. MonthEnd
    BY <1>1, <1>2
  <2>2. FirstOf[MonthOf[p]] \in Nat /\ p \in Nat /\ FirstOf[MonthOf[p]] <= p
    BY <1>1, <1>2, <1>3, <2>1 DEF InMonth
  <2> QED
    BY <2>1, <2>2 DEF DayOfMonth
<1>5. ASSUME NEW p \in A
      PROVE  /\ p \in Days /\ DayOfMonth(p) = day
             /\ MonthOf[start] <= MonthOf[p] /\ MonthOf[p] <= MonthOf[d]
  <2>1. p \in Days /\ start <= p /\ p <= d /\ DayOfMonth(p) = day
    BY DEF MonthlyCount
  <2> QED
    BY <2>1, MonthsGrow
<1>6. n \in Nat
  <2>1. MonthOf[start] <= MonthOf[d]
    BY MonthsGrow
  <2> QED
    BY <1>4, <2>1
<1>7. f \in [A -> 0 .. n]
  <2>1. ASSUME NEW p \in A PROVE MonthOf[p] - MonthOf[start] \in 0 .. n
    BY <1>4, <1>5
  <2> QED
    BY <2>1
<1>8. ASSUME NEW p \in A, NEW q \in A, f[p] = f[q] PROVE p = q
  <2>1. MonthOf[p] = MonthOf[q]
    BY <1>4, <1>5, <1>8
  <2> QED
    BY <1>4, <1>5, <2>1
<1>9. ASSUME NEW k \in 0 .. n PROVE \E p \in A : f[p] = k
  <2> DEFINE m == MonthOf[start] + k
             p == FirstOf[m] + day
  <2>1. /\ MonthOf[start] \in 1 .. Len(Months) /\ MonthOf[d] \in 1 .. Len(Months)
        /\ start = FirstOf[MonthOf[start]] + day /\ d = FirstOf[MonthOf[d]] + day /\ day \in Nat
    BY <1>4
  <2>2. m \in 1 .. Len(Months) /\ MonthOf[start] <= m /\ m <= MonthOf[d] /\ m - MonthOf[start] = k
    <3>1. k \in Nat /\ k <= n /\ n = MonthOf[d] - MonthOf[start]
      BY <1>6
    <3>2. /\ MonthOf[start] \in 1 .. Len(Months) /\ MonthOf[d] \in 1 .. Len(Months)
          /\ Len(Months) \in Nat
      BY <1>1, <2>1
    <3> HIDE DEF n, day
    <3> QED
      BY <3>1, <3>2
  <2>3. m \in 1 .. MonthEnd /\ m + 1 \in 1 .. MonthEnd /\ MonthOf[start] \in 1 .. MonthEnd
        /\ MonthOf[d] \in 1 .. MonthEnd /\ MonthEnd \in 1 .. MonthEnd
    <3>1. /\ MonthOf[start] \in 1 .. Len(Months) /\ MonthOf[d] \in 1 .. Len(Months)
          /\ Len(Months) \in Nat /\ MonthEnd = Len(Months) + 1 /\ m \in 1 .. Len(Months)
      BY <1>1, <2>1, <2>2
    <3> HIDE DEF m, day
    <3> QED
      BY <3>1
  <2> HIDE DEF m
  <2>4. FirstOf[MonthOf[start]] <= FirstOf[m] /\ FirstOf[m] <= FirstOf[MonthOf[d]]
    <3>1. MonthOf[start] = m \/ MonthOf[start] < m
      BY <2>1, <2>2
    <3>2. MonthOf[d] = m \/ m < MonthOf[d]
      BY <2>1, <2>2
    <3>3. /\ MonthOf[start] < m => FirstOf[MonthOf[start]] < FirstOf[m]
          /\ m < MonthOf[d] => FirstOf[m] < FirstOf[MonthOf[d]]
      BY <2>3, FirstOfGrows
    <3>4. FirstOf[MonthOf[start]] \in Nat /\ FirstOf[m] \in Nat /\ FirstOf[MonthOf[d]] \in Nat
      BY <1>3, <2>3
    <3> QED
      BY <3>1, <3>2, <3>3, <3>4
  <2>5. p \in Nat /\ start <= p /\ p <= d
    <3>1. FirstOf[MonthOf[start]] \in Nat /\ FirstOf[m] \in Nat /\ FirstOf[MonthOf[d]] \in Nat
      BY <1>3, <2>3
    <3>2. p = FirstOf[m] + day
      OBVIOUS
    <3> HIDE DEF day, p
    <3> QED
      <4>1. day \in Nat
        BY <2>1
      <4>2. /\ FirstOf[MonthOf[start]] + day <= FirstOf[m] + day
            /\ FirstOf[m] + day <= FirstOf[MonthOf[d]] + day /\ FirstOf[m] + day \in Nat
        BY <2>4, <3>1, <4>1
      <4> QED
        BY <2>1, <3>2, <4>2, Zenon
  <2>6. p \in Days
    BY <1>1, <2>5
  <2>7. InMonth(p, m)
    <3>1. FirstOf[m + 1] = FirstOf[m] + Months[m] /\ Months[m] \in Nat /\ day < Months[m]
      BY <1>1, <2>2, FirstOfStep
    <3>2. FirstOf[m] \in Nat /\ FirstOf[m + 1] \in Nat
      BY <1>3, <2>3
    <3> HIDE DEF day
    <3> QED
      BY <2>1, <3>1, <3>2 DEF InMonth
  <2>8. MonthOf[p] = m
    BY <2>2, <2>6, <2>7, MonthsCover
  <2>9. DayOfMonth(p) = day
    <3>1. p = FirstOf[m] + DayOfMonth(p) /\ FirstOf[m] \in Nat /\ DayOfMonth(p) \in Nat
      BY <1>4, <2>6, <2>8
    <3> QED
      BY <2>1, <3>1
  <2>10. p \in A
    BY <2>5, <2>6, <2>9 DEF MonthlyCount
  <2> QED
    BY <2>2, <2>8, <2>10
<1> HIDE DEF A, f, n
<1>10. Cardinality(A) = n + 1
  BY <1>6, <1>7, <1>8, <1>9, Numbered
<1> QED
  BY <1>6, <1>10 DEF A, n

(* The chosen days of the week, counted by offset from a day of the week.  *)
Chosen(w, days, x) == {o \in 0 .. x : (w + o) % 7 \in days}

LEMMA ChosenAreFinite ==
  ASSUME NEW w, NEW days, NEW x \in Nat
  PROVE  IsFiniteSet(Chosen(w, days, x)) /\ Cardinality(Chosen(w, days, x)) \in Nat
<1>1. IsFiniteSet(0 .. x)
  <2>1. 0 \in Int /\ x \in Int
    OBVIOUS
  <2> QED
    BY <2>1, FS_Interval, Zenon
<1>2. Chosen(w, days, x) \in SUBSET (0 .. x)
  BY DEF Chosen
<1> QED
  BY <1>1, <1>2, FS_Subset, FS_CardinalityType

LEMMA DaysAreFinite ==
  ASSUME NEW days \in SUBSET (0 .. 6)
  PROVE  IsFiniteSet(days) /\ Cardinality(days) \in Nat
<1>1. IsFiniteSet(0 .. 6)
  <2>1. 0 \in Int /\ 6 \in Int
    OBVIOUS
  <2> QED
    BY <2>1, FS_Interval, Zenon
<1> QED
  BY <1>1, FS_Subset, FS_CardinalityType

LEMMA WeeksCount ==
  ASSUME NEW w \in 0 .. 6, NEW days \in SUBSET (0 .. 6), NEW x \in Nat, x >= 7
  PROVE  Cardinality(Chosen(w, days, x)) = Cardinality(Chosen(w, days, x - 7)) + Cardinality(days)
<1> DEFINE A == Chosen(w, days, x - 7)
           B == {o \in x - 6 .. x : (w + o) % 7 \in days}
           f == [o \in B |-> (w + o) % 7]
<1>1. Chosen(w, days, x) = A \cup B /\ A \cap B = {}
  BY DEF Chosen
<1>2. IsFiniteSet(A)
  <2>1. x - 7 \in Nat
    OBVIOUS
  <2> QED
    BY <2>1, ChosenAreFinite
<1>3. IsFiniteSet(days) /\ Cardinality(days) \in Nat
  BY DaysAreFinite
<1>4. f \in [B -> days]
  OBVIOUS
<1>5. \A p, q \in B : f[p] = f[q] => p = q
  <2>1. ASSUME NEW p \in x - 6 .. x, NEW q \in x - 6 .. x, (w + p) % 7 = (w + q) % 7
        PROVE  p = q
    BY <2>1, Z3
  <2> QED
    BY <2>1
<1>6. ASSUME NEW b \in days PROVE \E o \in B : f[o] = b
  <2> DEFINE o == (x - 6) + ((b - w - (x - 6)) % 7)
  <2>1. b \in 0 .. 6
    OBVIOUS
  <2>2. o \in x - 6 .. x /\ (w + o) % 7 = b
    BY <2>1, Z3
  <2> QED
    BY <2>2
<1> HIDE DEF A, B, f
<1>7. IsFiniteSet(B) /\ Cardinality(B) = Cardinality(days)
  BY <1>3, <1>4, <1>5, <1>6, SameSize
<1>8. Cardinality(A \cup B) = Cardinality(A) + Cardinality(B)
  <2>1. Cardinality(A \cup B) = Cardinality(A) + Cardinality(B) - Cardinality(A \cap B)
    BY <1>2, <1>7, FS_Union
  <2>2. Cardinality(A \cap B) = 0
    BY <1>1, FS_EmptySet
  <2>3. Cardinality(A) \in Nat /\ Cardinality(B) \in Nat
    BY <1>2, <1>7, FS_CardinalityType
  <2> QED
    BY <2>1, <2>2, <2>3
<1> QED
  BY <1>1, <1>7, <1>8 DEF A

LEMMA ChosenCounts ==
  ASSUME NEW w \in 0 .. 6, NEW days \in SUBSET (0 .. 6), NEW x \in Nat
  PROVE  Cardinality(Chosen(w, days, x))
           = (x \div 7) * Cardinality(days) + Cardinality(Chosen(w, days, x % 7))
<1> DEFINE Good(y) == Cardinality(Chosen(w, days, y))
                        = (y \div 7) * Cardinality(days) + Cardinality(Chosen(w, days, y % 7))
           Bad == {y \in Nat : ~ Good(y)}
<1>1. IsFiniteSet(days) /\ Cardinality(days) \in Nat
  BY DaysAreFinite
<1>2. ASSUME NEW y \in Nat PROVE Cardinality(Chosen(w, days, y)) \in Nat
  BY <1>2, ChosenAreFinite
<1>3. SUFFICES ASSUME Bad # {} PROVE FALSE
  OBVIOUS
<1>4. Bad \subseteq Nat
  OBVIOUS
<1>5. PICK y \in Bad : \A n \in Bad : y <= n
  <2> HIDE DEF Bad
  <2> QED
    BY <1>3, <1>4, LeastNat
<1>6. y \in Nat /\ ~ Good(y)
  BY <1>5
<1>7. y >= 7
  <2> SUFFICES ASSUME y < 7 PROVE FALSE
    BY <1>6
  <2>1. y \div 7 = 0 /\ y % 7 = y
    BY <1>6, Z3
  <2>2. Good(y)
    <3>1. 0 * Cardinality(days) = 0
      BY <1>1
    <3>2. Cardinality(Chosen(w, days, y)) \in Nat
      BY <1>2, <1>6
    <3> QED
      BY <2>1, <3>1, <3>2
  <2> QED
    BY <1>6, <2>2
<1> DEFINE z == y - 7
           c == Cardinality(days)
<1>8. z \in Nat /\ ~ y <= z
  BY <1>6, <1>7
<1>9. Good(z)
  BY <1>5, <1>8
<1>10. z \div 7 \in Nat /\ y \div 7 = (z \div 7) + 1 /\ z % 7 = y % 7 /\ y % 7 \in Nat
  BY <1>6, <1>7, Z3
<1>11. Cardinality(Chosen(w, days, y)) = Cardinality(Chosen(w, days, z)) + c
  BY <1>6, <1>7, WeeksCount
<1>12. ((z \div 7) + 1) * c = (z \div 7) * c + c /\ (z \div 7) * c \in Nat
  BY <1>1, <1>10
<1>13. Cardinality(Chosen(w, days, z))
         = (z \div 7) * c + Cardinality(Chosen(w, days, y % 7))
  BY <1>9, <1>10
<1>14. /\ c \in Nat /\ Cardinality(Chosen(w, days, y % 7)) \in Nat
  BY <1>1, <1>2, <1>10
<1>15. Cardinality(Chosen(w, days, y))
         = (y \div 7) * c + Cardinality(Chosen(w, days, y % 7))
  <2> HIDE DEF z, c
  <2> QED
    BY <1>10, <1>11, <1>12, <1>13, <1>14
<1> QED
  BY <1>6, <1>15

LEMMA CustomDaysCounts ==
  ASSUME NEW start \in Days, NEW days \in SUBSET (0 .. 6), NEW d \in Days, start <= d
  PROVE  Cardinality(WeekdayCount(start, days, d))
           = ((d - start) \div 7) * Cardinality(days)
               + Cardinality(Chosen(Weekday(start), days, (d - start) % 7))
<1> DEFINE A == WeekdayCount(start, days, d)
           x == d - start
           B == Chosen(Weekday(start), days, x)
           f == [p \in A |-> p - start]
<1>1. /\ start \in Nat /\ d \in Nat /\ x \in Nat /\ Days = 0 .. FirstOf[MonthEnd] - 1
      /\ FirstOf[MonthEnd] \in Nat
  BY DaysAreNumbers
<1>2. Weekday(start) \in 0 .. 6
  BY <1>1, Weekdays
<1>3. \A p \in Nat : start <= p => (Weekday(start) + (p - start)) % 7 = Weekday(p)
  <2>1. \A p \in Nat : ((start % 7) + (p - start)) % 7 = p % 7
    BY <1>1, Z3
  <2> QED
    BY <2>1 DEF Weekday
<1>4. ASSUME NEW p \in A PROVE p - start \in B /\ p \in Nat
  <2>1. p \in Nat /\ start <= p /\ p <= d /\ Weekday(p) \in days
    BY <1>1 DEF WeekdayCount
  <2>2. p - start \in 0 .. x
    BY <1>1, <2>1
  <2> QED
    BY <1>3, <2>1, <2>2 DEF Chosen
<1>5. f \in [A -> B]
  BY <1>4
<1>6. \A p, q \in A : f[p] = f[q] => p = q
  BY <1>1, <1>4
<1>7. ASSUME NEW o \in B PROVE \E p \in A : f[p] = o
  <2>1. o \in 0 .. x /\ (Weekday(start) + o) % 7 \in days
    BY DEF Chosen
  <2>2. start + o \in Days /\ start <= start + o /\ start + o <= d /\ (start + o) - start = o
    BY <1>1, <2>1
  <2>3. Weekday(start + o) \in days
    BY <1>1, <1>3, <2>1, <2>2
  <2>4. start + o \in A
    BY <2>2, <2>3 DEF WeekdayCount
  <2> QED
    BY <2>2, <2>4
<1>8. IsFiniteSet(B)
  BY <1>1, ChosenAreFinite
<1>9. Cardinality(A) = Cardinality(B)
  <2> HIDE DEF A, B, f
  <2> QED
    BY <1>5, <1>6, <1>7, <1>8, SameSize
<1> QED
  BY <1>1, <1>2, <1>9, ChosenCounts

(* A rule without its limit. *)
Unlimited(e) == [e EXCEPT !.count = Null]
InTime(e, d) == e.date <= d /\ (e.until = Null \/ d <= e.until)
Limited(e) == {d \in Days : MatchesRecurrence(e, d)}

LEMMA UnlimitedType ==
  ASSUME NEW e \in EventRow
  PROVE  /\ Unlimited(e).date = e.date /\ Unlimited(e).rule = e.rule
         /\ Unlimited(e).every = e.every /\ Unlimited(e).days = e.days
         /\ Unlimited(e).until = e.until /\ Unlimited(e).count = Null
         /\ e.date \in Days /\ e.days \in SUBSET (0 .. 6)
         /\ e.every \in Int \cup {Null} /\ e.until \in Int \cup {Null}
         /\ e.count \in Int \cup {Null}
         /\ e.rule \in {"none", "daily", "every_n_days", "weekly", "biweekly", "monthly",
                        "custom_days"}
BY DEF Unlimited, EventRow

(* The dates R of a rule, numbered as a limit counts them. *)
LEMMA LimitedDates ==
  ASSUME NEW e \in EventRow, NEW R \in SUBSET Days, NEW N,
         \A d \in Days : MatchesRecurrence(Unlimited(e), d) <=> InTime(e, d) /\ d \in R,
         \A d \in Days : MatchesRecurrence(e, d) <=> InTime(e, d) /\ d \in R /\ N[d] <= e.count,
         \A d \in R : e.date <= d => Cardinality({p \in R : e.date <= p /\ p <= d}) = N[d]
  PROVE  Limited(e) = {d \in Limited(Unlimited(e)) :
                         Cardinality({p \in Limited(Unlimited(e)) : p <= d}) <= e.count}
<1> DEFINE all == Limited(Unlimited(e))
<1>1. all = {d \in R : InTime(e, d)}
  BY DEF Limited
<1>2. e.date \in Nat /\ Days \subseteq Nat /\ e.until \in Int \cup {Null}
  BY UnlimitedType, DaysAreNumbers
<1>3. ASSUME NEW d \in all PROVE Cardinality({p \in all : p <= d}) = N[d]
  <2>1. {p \in all : p <= d} = {p \in R : e.date <= p /\ p <= d}
    <3>1. ASSUME NEW p \in R PROVE p \in all /\ p <= d <=> e.date <= p /\ p <= d
      <4>1. p \in Nat /\ d \in Nat /\ (e.until = Null \/ d <= e.until)
        BY <1>1, <1>2 DEF InTime
      <4>2. p <= d => (e.until = Null \/ p <= e.until)
        BY <1>2, <4>1
      <4>3. p \in all <=> e.date <= p /\ (e.until = Null \/ p <= e.until)
        BY <1>1 DEF InTime
      <4> QED
        BY <4>2, <4>3
    <3> HIDE DEF all
    <3> QED
      BY <1>1, <3>1
  <2>2. d \in R /\ e.date <= d
    BY <1>1 DEF InTime
  <2> HIDE DEF all
  <2> QED
    BY <2>1, <2>2
<1>4. Limited(e) = {d \in all : N[d] <= e.count}
  BY <1>1 DEF Limited
<1> HIDE DEF all
<1>5. Limited(e) = {d \in all : Cardinality({p \in all : p <= d}) <= e.count}
  BY <1>3, <1>4
<1> QED
  BY <1>5 DEF all

LEMMA EveryRule ==
  ASSUME NEW e \in EventRow, e.count # Null, NEW every \in Nat \ {0},
         \A d \in Days :
           /\ MatchesRecurrence(Unlimited(e), d) 
                <=> InTime(e, d) /\ EveryDays(Unlimited(e), d, every)
           /\ MatchesRecurrence(e, d) <=> InTime(e, d) /\ EveryDays(e, d, every)
  PROVE  Limited(e) = {d \in Limited(Unlimited(e)) :
                         Cardinality({p \in Limited(Unlimited(e)) : p <= d}) <= e.count}
<1> DEFINE R == {d \in Days : e.date <= d /\ (d - e.date) % every = 0}
           N == [d \in Days |-> ((d - e.date) \div every) + 1]
<1>1. /\ e.date \in Days /\ e.count \in Int
      /\ Unlimited(e).date = e.date /\ Unlimited(e).count = Null
  BY UnlimitedType
<1>2. \A d \in Days : MatchesRecurrence(Unlimited(e), d) <=> InTime(e, d) /\ d \in R
  BY <1>1 DEF EveryDays, Below, InTime
<1>3. ASSUME NEW d \in R
      PROVE  (d - e.date) \div every \in Nat
             /\ Cardinality({p \in R : e.date <= p /\ p <= d}) = N[d]
  <2>1. {p \in R : e.date <= p /\ p <= d} = EveryCount(e.date, every, d)
    BY DEF EveryCount
  <2> QED
    BY <1>1, <2>1, EveryCounts
<1>4. ASSUME NEW d \in Days
      PROVE  MatchesRecurrence(e, d) <=> InTime(e, d) /\ d \in R /\ N[d] <= e.count
  <2>1. MatchesRecurrence(e, d)
          <=> InTime(e, d) /\ d \in R /\ (d - e.date) \div every < e.count
    BY <1>1 DEF EveryDays, Below, InTime
  <2>2. CASE d \in R
    <3> DEFINE x == (d - e.date) \div every
    <3>1. x \in Nat /\ e.count \in Int /\ N[d] = x + 1
      BY <1>1, <1>3, <2>2
    <3>2. x < e.count <=> N[d] <= e.count
      <4> HIDE DEF x, N
      <4> QED
        BY <3>1
    <3> QED
      BY <2>1, <2>2, <3>2
  <2>3. CASE d \notin R
    BY <2>1, <2>3
  <2> QED
    BY <2>2, <2>3
<1> HIDE DEF R, N
<1>5. R \in SUBSET Days
  BY DEF R
<1> QED
  BY <1>2, <1>3, <1>4, <1>5, LimitedDates

LEMMA MonthlyRule ==
  ASSUME NEW e \in EventRow, e.count # Null, e.rule = "monthly",
         \A m \in DOMAIN Months : DayOfMonth(e.date) < Months[m]
  PROVE  Limited(e) = {d \in Limited(Unlimited(e)) :
                         Cardinality({p \in Limited(Unlimited(e)) : p <= d}) <= e.count}
<1> DEFINE R == {d \in Days : e.date <= d /\ DayOfMonth(d) = DayOfMonth(e.date)}
           N == [d \in Days |-> (MonthOf[d] - MonthOf[e.date]) + 1]
<1>1. /\ e.date \in Days /\ e.count \in Int /\ Unlimited(e).until = e.until
      /\ Unlimited(e).date = e.date /\ Unlimited(e).count = Null /\ Unlimited(e).rule = "monthly"
  BY UnlimitedType
<1>2. \A d \in Days : MatchesRecurrence(Unlimited(e), d) <=> InTime(e, d) /\ d \in R
  <2>1. \A d \in Days : d >= e.date <=> e.date <= d
    BY <1>1, DaysAreNumbers
  <2> QED
    BY <1>1, <2>1 DEF MatchesRecurrence, MatchMonthly, Below, InTime
<1>3. ASSUME NEW d \in R
      PROVE  MonthOf[d] - MonthOf[e.date] \in Nat
             /\ Cardinality({p \in R : e.date <= p /\ p <= d}) = N[d]
  <2>1. {p \in R : e.date <= p /\ p <= d} = MonthlyCount(e.date, d)
    BY DEF MonthlyCount
  <2> QED
    BY <1>1, <2>1, MonthlyCounts
<1>4. ASSUME NEW d \in Days
      PROVE  MatchesRecurrence(e, d) <=> InTime(e, d) /\ d \in R /\ N[d] <= e.count
  <2>1. MatchesRecurrence(e, d)
          <=> InTime(e, d) /\ d \in R /\ MonthOf[d] - MonthOf[e.date] < e.count
    <3>1. d >= e.date <=> e.date <= d
      BY <1>1, DaysAreNumbers
    <3> QED
      BY <1>1, <3>1 DEF MatchesRecurrence, MatchMonthly, Below, InTime
  <2>2. CASE d \in R
    <3> DEFINE x == MonthOf[d] - MonthOf[e.date]
    <3>1. x \in Nat /\ e.count \in Int /\ N[d] = x + 1
      BY <1>1, <1>3, <2>2
    <3>2. x < e.count <=> N[d] <= e.count
      <4> HIDE DEF x, N
      <4> QED
        BY <3>1
    <3> QED
      BY <2>1, <2>2, <3>2
  <2>3. CASE d \notin R
    BY <2>1, <2>3
  <2> QED
    BY <2>2, <2>3
<1> HIDE DEF R, N
<1>5. R \in SUBSET Days
  BY DEF R
<1> QED
  BY <1>2, <1>3, <1>4, <1>5, LimitedDates

LEMMA CustomDaysRule ==
  ASSUME NEW e \in EventRow, e.count # Null, e.rule = "custom_days"
  PROVE  Limited(e) = {d \in Limited(Unlimited(e)) :
                         Cardinality({p \in Limited(Unlimited(e)) : p <= d}) <= e.count}
<1> DEFINE R == {d \in Days : e.date <= d /\ Weekday(d) \in e.days}
           N == [d \in Days |-> ((d - e.date) \div 7) * Cardinality(e.days)
                                  + Cardinality(Chosen(Weekday(e.date), e.days, (d - e.date) % 7))]
<1>1. /\ e.date \in Days /\ e.count \in Int /\ Unlimited(e).until = e.until
      /\ Unlimited(e).date = e.date /\ Unlimited(e).count = Null
      /\ Unlimited(e).rule = "custom_days" /\ Unlimited(e).days = e.days
      /\ e.days \in SUBSET (0 .. 6)
  BY UnlimitedType
<1>2. \A d \in Days : d >= e.date <=> e.date <= d
  BY <1>1, DaysAreNumbers
<1>3. \A d \in Days : MatchesRecurrence(Unlimited(e), d) <=> InTime(e, d) /\ d \in R
  BY <1>1, <1>2 DEF MatchesRecurrence, MatchCustomDays, InTime
<1>4. ASSUME NEW d \in R
      PROVE  Cardinality({p \in R : e.date <= p /\ p <= d}) = N[d]
  <2>1. {p \in R : e.date <= p /\ p <= d} = WeekdayCount(e.date, e.days, d)
    BY DEF WeekdayCount
  <2>2. d \in Days /\ e.date <= d
    OBVIOUS
  <2>3. Cardinality(WeekdayCount(e.date, e.days, d))
          = ((d - e.date) \div 7) * Cardinality(e.days)
              + Cardinality(Chosen(Weekday(e.date), e.days, (d - e.date) % 7))
    BY <1>1, <2>2, CustomDaysCounts
  <2> QED
    BY <2>1, <2>2, <2>3
<1>5. \A d \in Days : MatchesRecurrence(e, d) <=> InTime(e, d) /\ d \in R /\ N[d] <= e.count
  BY <1>1, <1>2 DEF MatchesRecurrence, MatchCustomDays, InTime, Chosen
<1> HIDE DEF R, N
<1>6. R \in SUBSET Days
  BY DEF R
<1> QED
  BY <1>3, <1>4, <1>5, <1>6, LimitedDates

LEMMA TypedRowsAreCounted == RowsAreTyped => CountsFirstDates
<1> SUFFICES ASSUME RowsAreTyped, NEW e \in events, e.count # Null, e.rule # "none",
                    e.rule = "monthly" => \A m \in DOMAIN Months : DayOfMonth(e.date) < Months[m]
             PROVE  Limited(e) = {d \in Limited(Unlimited(e)) :
                       Cardinality({p \in Limited(Unlimited(e)) : p <= d}) <= e.count}
  BY DEF CountsFirstDates, Limited, Unlimited
<1>1. e \in EventRow
  BY DEF RowsAreTyped
<1>2. /\ Unlimited(e).date = e.date /\ Unlimited(e).rule = e.rule
      /\ Unlimited(e).every = e.every /\ Unlimited(e).until = e.until
      /\ e.date \in Days /\ e.every \in Int \cup {Null}
      /\ e.rule \in {"none", "daily", "every_n_days", "weekly", "biweekly", "monthly",
                     "custom_days"}
  BY <1>1, UnlimitedType
<1>3. \A d \in Days : d >= e.date <=> e.date <= d
  BY <1>2, DaysAreNumbers
<1>4. CASE e.rule = "daily"
  <2>1. \A d \in Days :
           /\ MatchesRecurrence(Unlimited(e), d) <=> InTime(e, d) /\ EveryDays(Unlimited(e), d, 1)
           /\ MatchesRecurrence(e, d) <=> InTime(e, d) /\ EveryDays(e, d, 1)
    BY <1>2, <1>3, <1>4 DEF MatchesRecurrence, InTime
  <2>2. 1 \in Nat \ {0}
    OBVIOUS
  <2> QED
    BY <1>1, <2>1, <2>2, EveryRule
<1>5. CASE e.rule = "weekly"
  <2>1. \A d \in Days :
           /\ MatchesRecurrence(Unlimited(e), d) <=> InTime(e, d) /\ EveryDays(Unlimited(e), d, 7)
           /\ MatchesRecurrence(e, d) <=> InTime(e, d) /\ EveryDays(e, d, 7)
    BY <1>2, <1>3, <1>5 DEF MatchesRecurrence, InTime
  <2>2. 7 \in Nat \ {0}
    OBVIOUS
  <2> QED
    BY <1>1, <2>1, <2>2, EveryRule
<1>6. CASE e.rule = "biweekly"
  <2>1. \A d \in Days :
           /\ MatchesRecurrence(Unlimited(e), d) <=> InTime(e, d) /\ EveryDays(Unlimited(e), d, 14)
           /\ MatchesRecurrence(e, d) <=> InTime(e, d) /\ EveryDays(e, d, 14)
    BY <1>2, <1>3, <1>6 DEF MatchesRecurrence, InTime
  <2>2. 14 \in Nat \ {0}
    OBVIOUS
  <2> QED
    BY <1>1, <2>1, <2>2, EveryRule
<1>7. CASE e.rule = "every_n_days"
  <2> DEFINE every == AtLeastOne(e.every)
  <2>1. \A d \in Days :
           /\ MatchesRecurrence(Unlimited(e), d) 
                <=> InTime(e, d) /\ EveryDays(Unlimited(e), d, every)
           /\ MatchesRecurrence(e, d) <=> InTime(e, d) /\ EveryDays(e, d, every)
    BY <1>2, <1>3, <1>7 DEF MatchesRecurrence, InTime
  <2>2. every \in Nat \ {0}
    BY <1>2 DEF AtLeastOne
  <2> HIDE DEF every
  <2> QED
    BY <1>1, <2>1, <2>2, EveryRule
<1> QED
  BY <1>1, <1>2, <1>4, <1>5, <1>6, <1>7, MonthlyRule, CustomDaysRule

-----------------------------------------------------------------------------
(* Booked apart.                                                           *)

LeftType == left \in [requests : Nat, edits : Nat, fills : Nat, commits : Nat, faults : Nat]

RequestRow ==
  [kind : {"weekly", "event"}, id : Nat, row : EntryRow \cup EventRow, new : BOOLEAN,
   missed : SUBSET Nat]

(* Two rows that may not both be booked. *)
WeeklyClash == {p \in EntryRow \X EntryRow : p[1].day = p[2].day /\ Share(p[1], p[2])}
EventClash ==
  {p \in EventRow \X EventRow :
     /\ Share(p[1], p[2])
     /\ \E date \in Days : /\ MatchesRecurrence(p[1], date) /\ MatchesRecurrence(p[2], date)
                           /\ date < p[1].date + Horizon /\ date < p[2].date + Horizon}

Apart(table, clash, races) ==
  \A e, f \in table : e.id # f.id /\ <<e, f>> \in clash => {e.id, f.id} \in races

(* What a request has checked, for the rows written since it did. *)
FitsIn(r, table, clash) ==
  \A f \in table : f.id # r.id /\ f.id \notin r.missed => <<r.row, f>> \notin clash

Asks(c, kind) == request[c] # Null /\ request[c].kind = kind
IdsOf(table, kind) ==
  {f.id : f \in table} \cup {request[c].id : c \in {d \in Clients : Asks(d, kind)}}

ProgrammeTypes ==
  /\ RowsAreTyped /\ LeftType
  /\ request \in [Clients -> RequestRow \cup {Null}]
  /\ \A c \in Clients : Asks(c, "weekly") => request[c].row \in EntryRow
  /\ \A c \in Clients : Asks(c, "event") => request[c].row \in EventRow
  /\ \A c \in Clients : request[c] # Null => request[c].row.id = request[c].id

(* No row has the identity of one of the other table, nor one still to be given. *)
IdsAreApart ==
  /\ IdsOf(weekly, "weekly") \cap IdsOf(events, "event") = {}
  /\ \A i \in IdsOf(weekly, "weekly") \cup IdsOf(events, "event") : left.requests < i

RowsAreApart == Apart(weekly, WeeklyClash, raced) /\ Apart(events, EventClash, raced)

RequestsFit ==
  /\ \A c \in Clients : Asks(c, "weekly") => FitsIn(request[c], weekly, WeeklyClash)
  /\ \A c \in Clients : Asks(c, "event") => FitsIn(request[c], events, EventClash)

ProgrammeInv == ProgrammeTypes /\ IdsAreApart /\ RowsAreApart /\ RequestsFit

LEMMA ClashesAreMutual ==
  /\ \A e, f : <<e, f>> \in WeeklyClash => <<f, e>> \in WeeklyClash
  /\ \A e, f : <<e, f>> \in EventClash => <<f, e>> \in EventClash
<1>1. \A e, f : Share(e, f) <=> Share(f, e)
  BY DEF Share
<1>2. ASSUME NEW e, NEW f, <<e, f>> \in WeeklyClash PROVE <<f, e>> \in WeeklyClash
  BY <1>1, <1>2 DEF WeeklyClash
<1>3. ASSUME NEW e, NEW f, <<e, f>> \in EventClash PROVE <<f, e>> \in EventClash
  <2>1. e \in EventRow /\ f \in EventRow /\ Share(f, e)
    BY <1>1, <1>3 DEF EventClash
  <2>2. PICK date \in Days :
          /\ MatchesRecurrence(e, date) /\ MatchesRecurrence(f, date)
          /\ date < e.date + Horizon /\ date < f.date + Horizon
    BY <1>3 DEF EventClash
  <2> QED
    BY <2>1, <2>2 DEF EventClash
<1> QED
  BY <1>2, <1>3

(* What two rows of a table share their requests' times overlap in. *)
LEMMA SharingOverlaps ==
  ASSUME NEW e, e.from \in Moments, e.to \in Moments, NEW f, f.from \in Moments, f.to \in Moments,
         Share(e, f)
  PROVE  TimesOverlap(e, f)
<1>1. /\ e.from \in Int /\ e.to \in Int /\ f.from \in Int /\ f.to \in Int
      /\ Slots \in Nat
  BY SlotsArePositive DEF Moments
<1> QED
  BY <1>1 DEF Share, TimesOverlap, Overnight, Ends

LEMMA BookedApartIsApart == RowsAreTyped /\ RowsAreApart => BookedApart
<1> SUFFICES ASSUME RowsAreTyped, RowsAreApart PROVE BookedApart
  OBVIOUS
<1>1. ASSUME NEW e \in weekly, NEW f \in weekly, e.id # f.id, e.day = f.day, Share(e, f)
      PROVE  {e.id, f.id} \in raced
  <2>1. <<e, f>> \in WeeklyClash
    BY <1>1 DEF WeeklyClash, RowsAreTyped
  <2> QED
    BY <1>1, <2>1 DEF RowsAreApart, Apart
<1>2. ASSUME NEW e \in events, NEW f \in events, NEW date \in Days, e.id # f.id, Share(e, f),
             MatchesRecurrence(e, date), MatchesRecurrence(f, date),
             date < e.date + Horizon, date < f.date + Horizon
      PROVE  {e.id, f.id} \in raced
  <2>1. e \in EventRow /\ f \in EventRow
    BY DEF RowsAreTyped
  <2>2. <<e, f>> \in EventClash
    BY <1>2, <2>1 DEF EventClash
  <2> QED
    BY <1>2, <2>2 DEF RowsAreApart, Apart
<1> QED
  BY <1>1, <1>2 DEF BookedApart

(* A written row races with those its request missed and with no other. *)
LEMMA WriteKeepsApart ==
  ASSUME NEW table, NEW clash, NEW races, NEW fresh, NEW new, NEW missed,
         \A e, f : <<e, f>> \in clash => <<f, e>> \in clash,
         Apart(table, clash, races),
         \A f \in table : f.id # fresh.id /\ f.id \notin missed => <<fresh, f>> \notin clash,
         NEW after, \A p \in races : fresh.id \notin p => p \in after,
         \A o \in missed : {fresh.id, o} \in after
  PROVE  Apart(Put(table, fresh, new), clash, after)
<1>1. SUFFICES ASSUME NEW e \in Put(table, fresh, new), NEW f \in Put(table, fresh, new),
                      e.id # f.id, <<e, f>> \in clash
               PROVE  {e.id, f.id} \in after
  BY DEF Apart
<1>2. \A g \in Put(table, fresh, new) : g = fresh \/ (g \in table /\ g.id # fresh.id)
  BY DEF Put
<1>3. CASE e = fresh
  <2>1. f \in table /\ f.id # fresh.id
    BY <1>1, <1>2, <1>3
  <2>2. f.id \in missed
    BY <1>1, <1>3, <2>1
  <2> QED
    BY <1>3, <2>2
<1>4. CASE f = fresh
  <2>1. e \in table /\ e.id # fresh.id
    BY <1>1, <1>2, <1>4
  <2>2. e.id \in missed
    BY <1>1, <1>4, <2>1
  <2>3. {e.id, fresh.id} = {fresh.id, e.id}
    OBVIOUS
  <2> QED
    BY <1>4, <2>2, <2>3
<1>5. CASE e # fresh /\ f # fresh
  <2>1. e \in table /\ e.id # fresh.id /\ f \in table /\ f.id # fresh.id
    BY <1>2, <1>5
  <2>2. {e.id, f.id} \in races
    BY <1>1, <2>1 DEF Apart
  <2> QED
    BY <2>1, <2>2
<1> QED
  BY <1>3, <1>4, <1>5

(* And takes no race away from rows of other identities. *)
LEMMA WriteLeavesApart ==
  ASSUME NEW table, NEW clash, NEW races, NEW id,
         Apart(table, clash, races), \A f \in table : f.id # id,
         NEW after, \A p \in races : id \notin p => p \in after
  PROVE  Apart(table, clash, after)
<1> SUFFICES ASSUME NEW e \in table, NEW f \in table, e.id # f.id, <<e, f>> \in clash
             PROVE  {e.id, f.id} \in after
  BY DEF Apart
<1>1. {e.id, f.id} \in races /\ e.id # id /\ f.id # id
  BY DEF Apart
<1> QED
  BY <1>1

LEMMA SpendKeeps ==
  ASSUME LeftType, NEW kind \in {"requests", "edits", "fills", "commits", "faults"}, Spend(kind)
  PROVE  /\ LeftType' /\ left.requests \in Nat /\ left'.requests \in Nat
         /\ left'.requests <= left.requests
         /\ kind = "requests" => left'.requests < left.requests
<1>1. CASE kind = "requests"
  BY <1>1 DEF LeftType, Spend
<1>2. CASE kind = "edits"
  BY <1>2 DEF LeftType, Spend
<1>3. CASE kind = "fills"
  BY <1>3 DEF LeftType, Spend
<1>4. CASE kind = "commits"
  BY <1>4 DEF LeftType, Spend
<1>5. CASE kind = "faults"
  BY <1>5 DEF LeftType, Spend
<1> QED
  BY <1>1, <1>2, <1>3, <1>4, <1>5

(* Spending a bound leaves the programme as it is. *)
LEMMA InvFrame ==
  ASSUME ProgrammeInv, UNCHANGED programme, LeftType', left'.requests <= left.requests
  PROVE  ProgrammeInv'
<1>1. /\ weekly' = weekly /\ events' = events /\ request' = request /\ raced' = raced
  BY DEF programme
<1>2. left.requests \in Nat /\ left'.requests \in Nat
  BY DEF ProgrammeInv, ProgrammeTypes, LeftType
<1>3. ProgrammeTypes'
  BY <1>1 DEF ProgrammeInv, ProgrammeTypes, RowsAreTyped, Asks
<1>4. /\ IdsOf(weekly, "weekly")' = IdsOf(weekly, "weekly")
      /\ IdsOf(events, "event")' = IdsOf(events, "event")
  BY <1>1 DEF IdsOf, Asks
<1>5. IdsAreApart'
  <2>1. \A i \in IdsOf(weekly, "weekly") \cup IdsOf(events, "event") : i \in Nat
    BY DEF ProgrammeInv, ProgrammeTypes, RowsAreTyped, EntryRow, EventRow, RequestRow, IdsOf,
           Asks
  <2> HIDE DEF IdsOf
  <2>2. \A i \in IdsOf(weekly, "weekly") \cup IdsOf(events, "event") : left'.requests < i
    BY <1>2, <2>1 DEF ProgrammeInv, IdsAreApart
  <2> QED
    BY <1>4, <2>2 DEF ProgrammeInv, IdsAreApart
<1>6. RowsAreApart' /\ RequestsFit'
  BY <1>1 DEF ProgrammeInv, RowsAreApart, RequestsFit, Asks, FitsIn, Apart
<1> QED
  BY <1>3, <1>5, <1>6 DEF ProgrammeInv

(* A row made of what a client asks for. *)
LEMMA WithIdKeeps ==
  ASSUME NEW e, NEW id \in Nat
  PROVE  /\ WithId(e, id).id = id
         /\ WithId(e, 0) \in EntryRow =>
              /\ WithId(e, id) \in EntryRow /\ WithId(e, id).day = e.day
              /\ WithId(e, id).from = e.from /\ WithId(e, id).to = e.to
         /\ WithId(e, 0) \in EventRow =>
              /\ WithId(e, id) \in EventRow /\ WithId(e, id).date = e.date
              /\ WithId(e, id).from = e.from /\ WithId(e, id).to = e.to
              /\ WithId(e, id).rule = e.rule /\ WithId(e, id).every = e.every
              /\ WithId(e, id).days = e.days /\ WithId(e, id).until = e.until
              /\ WithId(e, id).count = e.count
<1> DEFINE W(n) == WithId(e, n)
<1>1. \A n : W(n) = [k \in DOMAIN e \cup {"id"} |-> IF k = "id" THEN n ELSE e[k]]
  BY DEF WithId
<1>2. WithId(e, id).id = id
  BY <1>1
<1>3. ASSUME W(0) \in EntryRow
      PROVE  /\ W(id) \in EntryRow /\ W(id).day = e.day /\ W(id).from = e.from /\ W(id).to = e.to
  <2>1. DOMAIN e \cup {"id"} = {"id", "day", "from", "to", "src"}
    BY <1>1, <1>3 DEF EntryRow
  <2>2. /\ W(id) = [k \in {"id", "day", "from", "to", "src"} |-> IF k = "id" THEN id ELSE e[k]]
        /\ W(0) = [k \in {"id", "day", "from", "to", "src"} |-> IF k = "id" THEN 0 ELSE e[k]]
    BY <1>1, <2>1
  <2>3. /\ e.day = W(0).day /\ e.from = W(0).from /\ e.to = W(0).to /\ e.src = W(0).src
    BY <2>2
  <2>4. /\ W(id).day = e.day /\ W(id).from = e.from /\ W(id).to = e.to /\ W(id).src = e.src
    BY <2>2
  <2>5. W(id) = [id |-> id, day |-> e.day, from |-> e.from, to |-> e.to, src |-> e.src]
    BY <2>2
  <2> HIDE DEF W
  <2> QED
    BY <1>3, <2>3, <2>4, <2>5 DEF EntryRow
<1>4. ASSUME W(0) \in EventRow
      PROVE  /\ W(id) \in EventRow /\ W(id).date = e.date /\ W(id).from = e.from
             /\ W(id).to = e.to /\ W(id).rule = e.rule /\ W(id).every = e.every
             /\ W(id).days = e.days /\ W(id).until = e.until /\ W(id).count = e.count
  <2> DEFINE fields == {"id", "date", "from", "to", "rule", "every", "days", "until", "count",
                        "src"}
  <2>1. DOMAIN e \cup {"id"} = fields
    BY <1>1, <1>4 DEF EventRow
  <2>2. /\ W(id) = [k \in fields |-> IF k = "id" THEN id ELSE e[k]]
        /\ W(0) = [k \in fields |-> IF k = "id" THEN 0 ELSE e[k]]
    BY <1>1, <2>1
  <2>3. /\ e.date = W(0).date /\ e.from = W(0).from /\ e.to = W(0).to /\ e.src = W(0).src
        /\ e.rule = W(0).rule /\ e.every = W(0).every /\ e.days = W(0).days
        /\ e.until = W(0).until /\ e.count = W(0).count
    BY <2>2
  <2>4. /\ W(id).date = e.date /\ W(id).from = e.from /\ W(id).to = e.to /\ W(id).src = e.src
        /\ W(id).rule = e.rule /\ W(id).every = e.every /\ W(id).days = e.days
        /\ W(id).until = e.until /\ W(id).count = e.count
    BY <2>2
  <2>5. W(id) = [id |-> id, date |-> e.date, from |-> e.from, to |-> e.to, rule |-> e.rule,
                 every |-> e.every, days |-> e.days, until |-> e.until, count |-> e.count,
                 src |-> e.src]
    BY <2>2
  <2> HIDE DEF W
  <2> QED
    BY <1>4, <2>3, <2>4, <2>5 DEF EventRow
<1> QED
  BY <1>2, <1>3, <1>4

(* The overlap checks admit what does not clash. *)
LEMMA WeeklyCheckFits ==
  ASSUME RowsAreTyped, NEW e \in WeeklyOffers, NEW id \in Nat, ~ CheckScheduleOverlap(id, e),
         NEW r, r.id = id, r.row = WithId(e, id)
  PROVE  FitsIn(r, weekly, WeeklyClash)
<1>1. WithId(e, 0) \in EntryRow
  BY ProgrammeAssumption
<1> DEFINE fresh == WithId(e, id)
<1>2. fresh \in EntryRow /\ fresh.day = e.day /\ fresh.from = e.from /\ fresh.to = e.to
  BY <1>1, WithIdKeeps
<1> HIDE DEF fresh
<1>3. ASSUME NEW f \in weekly, f.id # id, <<fresh, f>> \in WeeklyClash PROVE FALSE
  <2>1. f \in EntryRow /\ fresh.day = f.day /\ Share(fresh, f)
    BY <1>3 DEF WeeklyClash
  <2>2. TimesOverlap(fresh, f)
    <3>1. fresh.from \in Moments /\ fresh.to \in Moments /\ f.from \in Moments /\ f.to \in Moments
      BY <1>2, <2>1 DEF EntryRow, Moments
    <3> QED
      BY <2>1, <3>1, SharingOverlaps
  <2>3. TimesOverlap(e, f)
    BY <1>2, <2>2 DEF TimesOverlap, Overnight
  <2> QED
    BY <1>2, <1>3, <2>1, <2>3 DEF CheckScheduleOverlap
<1> QED
  BY <1>3 DEF FitsIn, fresh

LEMMA EventCheckFits ==
  ASSUME RowsAreTyped, NEW e \in EventOffers, NEW id \in Nat, ~ CheckEventOverlap(id, e),
         NEW r, r.id = id, r.row = WithId(e, id)
  PROVE  FitsIn(r, events, EventClash)
<1>1. WithId(e, 0) \in EventRow
  BY ProgrammeAssumption
<1> DEFINE fresh == WithId(e, id)
<1>2. /\ fresh \in EventRow /\ fresh.date = e.date /\ fresh.from = e.from /\ fresh.to = e.to
      /\ fresh.rule = e.rule /\ fresh.every = e.every /\ fresh.days = e.days
      /\ fresh.until = e.until /\ fresh.count = e.count
  BY <1>1, WithIdKeeps
<1> HIDE DEF fresh
<1>3. ASSUME NEW f \in events, f.id # id, <<fresh, f>> \in EventClash PROVE FALSE
  <2>1. f \in EventRow /\ Share(fresh, f)
    BY <1>3 DEF EventClash
  <2>2. PICK date \in Days :
          /\ MatchesRecurrence(fresh, date) /\ MatchesRecurrence(f, date)
          /\ date < fresh.date + Horizon
    BY <1>3 DEF EventClash
  <2>3. TimesOverlap(fresh, f)
    <3>1. fresh.from \in Moments /\ fresh.to \in Moments /\ f.from \in Moments /\ f.to \in Moments
      BY <1>2, <2>1 DEF EventRow, Moments
    <3> QED
      BY <2>1, <3>1, SharingOverlaps
  <2>4. TimesOverlap(e, f)
    BY <1>2, <2>3 DEF TimesOverlap, Overnight
  <2>5. MatchesRecurrence(e, date)
    BY <1>2, <2>2 DEF MatchesRecurrence, EveryDays, MatchMonthly, MatchCustomDays, Below
  <2>6. date - e.date \in 0 .. Horizon - 1
    <3>1. date \in Nat /\ fresh.date \in Nat /\ Horizon \in Nat
      BY <1>2, DaysAreNumbers, ScheduleAssumption DEF EventRow
    <3>2. date >= fresh.date
      BY <2>2 DEF MatchesRecurrence
    <3> QED
      BY <1>2, <2>2, <3>1, <3>2
  <2> QED
    BY <1>3, <2>2, <2>4, <2>5, <2>6 DEF CheckEventOverlap
<1> QED
  BY <1>3 DEF FitsIn, fresh

LEMMA ProgrammeStarts == AutoDjInit => ProgrammeInv
<1> SUFFICES ASSUME AutoDjInit PROVE ProgrammeInv
  OBVIOUS
<1>1. /\ weekly = InitialWeekly /\ events = InitialEvents /\ left \in Budgets /\ raced = {}
      /\ request = [c \in Clients |-> Null]
  BY DEF AutoDjInit, ScheduleInit
<1>2. \A kind : \A c \in Clients : ~ Asks(c, kind)
  BY <1>1 DEF Asks
<1>3. RowsAreTyped
  BY <1>1, ProgrammeAssumption DEF RowsAreTyped
<1>4. LeftType
  BY <1>1, ScheduleAssumption DEF LeftType
<1>5. ProgrammeTypes
  BY <1>1, <1>2, <1>3, <1>4 DEF ProgrammeTypes
<1>6. /\ IdsOf(weekly, "weekly") = {f.id : f \in InitialWeekly}
      /\ IdsOf(events, "event") = {f.id : f \in InitialEvents}
  BY <1>1, <1>2 DEF IdsOf
<1>7. IdsAreApart
  BY <1>1, <1>6, ProgrammeAssumption DEF IdsAreApart
<1>8. Apart(weekly, WeeklyClash, raced)
  <2>1. \A e, f \in InitialWeekly : e.id # f.id => <<e, f>> \notin WeeklyClash
    BY ProgrammeAssumption DEF WeeklyClash
  <2> QED
    BY <1>1, <2>1 DEF Apart
<1>9. Apart(events, EventClash, raced)
  <2>1. \A e, f \in InitialEvents : e.id # f.id => <<e, f>> \notin EventClash
    BY ProgrammeAssumption DEF EventClash
  <2> QED
    BY <1>1, <2>1 DEF Apart
<1>10. RequestsFit
  BY <1>2 DEF RequestsFit
<1> QED
  BY <1>5, <1>7, <1>8, <1>9, <1>10 DEF ProgrammeInv, RowsAreApart

(* A request that has checked fits in its table, under an identity of it. *)
LEMMA CheckedKeeps ==
  ASSUME ProgrammeInv, NEW c \in Clients, NEW kind \in {"weekly", "event"}, NEW id \in Nat,
         NEW e, NEW new \in BOOLEAN, Checked(c, kind, id, e, new),
         kind = "weekly" => /\ WithId(e, id) \in EntryRow
                            /\ FitsIn(request[c]', weekly, WeeklyClash),
         kind = "event" => /\ WithId(e, id) \in EventRow
                           /\ FitsIn(request[c]', events, EventClash),
         \/ id = left.requests
         \/ kind = "weekly" /\ \E f \in weekly : f.id = id
         \/ kind = "event" /\ \E f \in events : f.id = id
  PROVE  ProgrammeInv'
<1> DEFINE r == [kind |-> kind, id |-> id, row |-> WithId(e, id), new |-> new, missed |-> {}]
<1>1. /\ Spend("requests") /\ request[c] = Null
      /\ request' = [request EXCEPT ![c] = r]
      /\ weekly' = weekly /\ events' = events /\ raced' = raced
  BY DEF Checked
<1>2. /\ ProgrammeTypes /\ IdsAreApart /\ RowsAreApart /\ RequestsFit
      /\ request \in [Clients -> RequestRow \cup {Null}] /\ LeftType /\ RowsAreTyped
  BY DEF ProgrammeInv, ProgrammeTypes
<1>3. /\ LeftType' /\ left.requests \in Nat /\ left'.requests \in Nat
      /\ left'.requests < left.requests
  BY <1>1, <1>2, SpendKeeps
<1>4. WithId(e, id).id = id /\ WithId(e, id) \in EntryRow \cup EventRow
  BY WithIdKeeps
<1>5. r \in RequestRow /\ r.kind = kind /\ r.id = id /\ r.row = WithId(e, id)
  BY <1>4 DEF RequestRow
<1> HIDE DEF r
<1>6. /\ request' \in [Clients -> RequestRow \cup {Null}]
      /\ request'[c] = r /\ \A d \in Clients \ {c} : request'[d] = request[d]
  BY <1>1, <1>2, <1>5
<1>7. /\ \A k : \A d \in Clients \ {c} : Asks(d, k)' <=> Asks(d, k)
      /\ \A k : Asks(c, k)' => k = kind
      /\ \A k : ~ Asks(c, k)
  BY <1>1, <1>5, <1>6 DEF Asks
<1>8. ProgrammeTypes'
  <2>1. RowsAreTyped'
    BY <1>1, <1>2 DEF RowsAreTyped
  <2>2. \A d \in Clients : Asks(d, "weekly")' => request'[d].row \in EntryRow
    BY <1>2, <1>5, <1>6, <1>7 DEF ProgrammeTypes
  <2>3. \A d \in Clients : Asks(d, "event")' => request'[d].row \in EventRow
    BY <1>2, <1>5, <1>6, <1>7 DEF ProgrammeTypes
  <2>4. \A d \in Clients : request'[d] # Null => request'[d].row.id = request'[d].id
    BY <1>2, <1>4, <1>5, <1>6 DEF ProgrammeTypes
  <2> QED
    BY <1>3, <1>6, <2>1, <2>2, <2>3, <2>4 DEF ProgrammeTypes
<1>9. IdsAreApart'
  <2> DEFINE W == IdsOf(weekly, "weekly")
             E == IdsOf(events, "event")
             W2 == IdsOf(weekly, "weekly")'
             E2 == IdsOf(events, "event")'
  <2>1. W \cap E = {} /\ \A i \in W \cup E : left.requests < i
    BY <1>2 DEF IdsAreApart
  <2>2. /\ W2 \subseteq W \cup (IF kind = "weekly" THEN {id} ELSE {})
        /\ E2 \subseteq E \cup (IF kind = "event" THEN {id} ELSE {})
    BY <1>1, <1>5, <1>6, <1>7 DEF IdsOf
  <2>3. \/ id = left.requests
        \/ kind = "weekly" /\ id \in W
        \/ kind = "event" /\ id \in E
    BY DEF IdsOf
  <2>4. W \subseteq Nat /\ E \subseteq Nat
    BY <1>2 DEF IdsOf, ProgrammeTypes, RowsAreTyped, EntryRow, EventRow, RequestRow, Asks
  <2> HIDE DEF W, E, W2, E2
  <2>5. id \in W => id \notin E
    BY <2>1
  <2>6. id = left.requests => id \notin W /\ id \notin E
    BY <1>3, <2>1
  <2>7. W2 \cap E2 = {}
    BY <2>1, <2>2, <2>3, <2>5, <2>6
  <2>8. left'.requests < id
    BY <1>3, <2>1, <2>3, <2>4
  <2>9. \A i \in W2 \cup E2 : left'.requests < i
    BY <1>3, <2>1, <2>2, <2>4, <2>8
  <2> QED
    BY <2>7, <2>9 DEF IdsAreApart, W2, E2
<1>10. RowsAreApart'
  BY <1>1, <1>2 DEF RowsAreApart, Apart
<1>11. RequestsFit'
  <2>1. \A d \in Clients : Asks(d, "weekly")' => FitsIn(request'[d], weekly, WeeklyClash)
    BY <1>2, <1>6, <1>7 DEF RequestsFit
  <2>2. \A d \in Clients : Asks(d, "event")' => FitsIn(request'[d], events, EventClash)
    BY <1>2, <1>6, <1>7 DEF RequestsFit
  <2> QED
    BY <1>1, <2>1, <2>2 DEF RequestsFit, FitsIn
<1> QED
  BY <1>8, <1>9, <1>10, <1>11 DEF ProgrammeInv

LEMMA RequestsKeep ==
  ASSUME ProgrammeInv, NEW c \in Clients,
         \/ CreateSchedule(c) \/ UpdateSchedule(c)
         \/ CreateScheduleEvent(c) \/ UpdateScheduleEvent(c)
  PROVE  ProgrammeInv'
<1>1. RowsAreTyped /\ left.requests \in Nat /\ request \in [Clients -> RequestRow \cup {Null}]
  BY DEF ProgrammeInv, ProgrammeTypes, LeftType
<1>2. ASSUME NEW e \in WeeklyOffers, NEW id \in Nat, NEW new \in BOOLEAN,
             ~ CheckScheduleOverlap(id, e), Checked(c, "weekly", id, e, new),
             id = left.requests \/ \E f \in weekly : f.id = id
      PROVE  ProgrammeInv'
  <2>1. request'[c].id = id /\ request'[c].row = WithId(e, id)
    <3>1. request'[c] = [kind |-> "weekly", id |-> id, row |-> WithId(e, id), new |-> new,
                         missed |-> {}]
      BY <1>1, <1>2 DEF Checked
    <3> QED
      BY <3>1
  <2>2. FitsIn(request[c]', weekly, WeeklyClash)
    BY <1>1, <1>2, <2>1, WeeklyCheckFits
  <2>3. WithId(e, id) \in EntryRow
    BY ProgrammeAssumption, WithIdKeeps
  <2> QED
    BY <1>2, <2>2, <2>3, CheckedKeeps
<1>3. ASSUME NEW e \in EventOffers, NEW id \in Nat, NEW new \in BOOLEAN,
             ~ CheckEventOverlap(id, e), Checked(c, "event", id, e, new),
             id = left.requests \/ \E f \in events : f.id = id
      PROVE  ProgrammeInv'
  <2>1. request'[c].id = id /\ request'[c].row = WithId(e, id)
    <3>1. request'[c] = [kind |-> "event", id |-> id, row |-> WithId(e, id), new |-> new,
                         missed |-> {}]
      BY <1>1, <1>3 DEF Checked
    <3> QED
      BY <3>1
  <2>2. FitsIn(request[c]', events, EventClash)
    BY <1>1, <1>3, <2>1, EventCheckFits
  <2>3. WithId(e, id) \in EventRow
    BY ProgrammeAssumption, WithIdKeeps
  <2> QED
    BY <1>3, <2>2, <2>3, CheckedKeeps
<1>4. CASE CreateSchedule(c)
  BY <1>1, <1>2, <1>4 DEF CreateSchedule, NewId
<1>5. CASE UpdateSchedule(c)
  <2>1. PICK old \in weekly, e \in WeeklyOffers :
          ~ CheckScheduleOverlap(old.id, e) /\ Checked(c, "weekly", old.id, e, FALSE)
    BY <1>5 DEF UpdateSchedule
  <2>2. old.id \in Nat
    BY <1>1 DEF RowsAreTyped, EntryRow
  <2> QED
    BY <1>2, <2>1, <2>2
<1>6. CASE CreateScheduleEvent(c)
  BY <1>1, <1>3, <1>6 DEF CreateScheduleEvent, NewId
<1>7. CASE UpdateScheduleEvent(c)
  <2>1. PICK old \in events, e \in EventOffers :
          ~ CheckEventOverlap(old.id, e) /\ Checked(c, "event", old.id, e, FALSE)
    BY <1>7 DEF UpdateScheduleEvent
  <2>2. old.id \in Nat
    BY <1>1 DEF RowsAreTyped, EventRow
  <2> QED
    BY <1>3, <2>1, <2>2
<1> QED
  BY <1>4, <1>5, <1>6, <1>7

LEMMA DeletesKeep ==
  ASSUME ProgrammeInv, DeleteSchedule \/ DeleteScheduleEvent
  PROVE  ProgrammeInv'
<1>1. /\ weekly' \subseteq weekly /\ events' \subseteq events /\ request' = request
      /\ raced' = raced /\ Spend("requests")
  BY DEF DeleteSchedule, DeleteScheduleEvent
<1>2. /\ LeftType' /\ left.requests \in Nat /\ left'.requests \in Nat
      /\ left'.requests < left.requests
  BY <1>1, SpendKeeps DEF ProgrammeInv, ProgrammeTypes
<1>3. ProgrammeTypes'
  BY <1>1, <1>2 DEF ProgrammeInv, ProgrammeTypes, RowsAreTyped, Asks
<1>4. IdsAreApart'
  <2>1. /\ IdsOf(weekly, "weekly")' \subseteq IdsOf(weekly, "weekly")
        /\ IdsOf(events, "event")' \subseteq IdsOf(events, "event")
    BY <1>1 DEF IdsOf, Asks
  <2>2. \A i \in IdsOf(weekly, "weekly") \cup IdsOf(events, "event") : i \in Nat
    BY DEF ProgrammeInv, ProgrammeTypes, RowsAreTyped, EntryRow, EventRow, RequestRow, IdsOf,
           Asks
  <2> HIDE DEF IdsOf
  <2>3. \A i \in IdsOf(weekly, "weekly") \cup IdsOf(events, "event") : left'.requests < i
    BY <1>2, <2>2 DEF ProgrammeInv, IdsAreApart
  <2> QED
    BY <2>1, <2>3 DEF ProgrammeInv, IdsAreApart
<1>5. RowsAreApart'
  BY <1>1 DEF ProgrammeInv, RowsAreApart, Apart
<1>6. RequestsFit'
  BY <1>1 DEF ProgrammeInv, RequestsFit, FitsIn, Asks
<1> QED
  BY <1>3, <1>4, <1>5, <1>6 DEF ProgrammeInv

(* What another client has checked fits with what is written, as missed. *)
LEMMA WriteKeepsFit ==
  ASSUME NEW r \in RequestRow, NEW table, NEW clash, NEW fresh, NEW new, FitsIn(r, table, clash)
  PROVE  FitsIn([r EXCEPT !.missed = @ \cup {fresh.id}], Put(table, fresh, new), clash)
<1> DEFINE s == [r EXCEPT !.missed = @ \cup {fresh.id}]
<1>1. s.id = r.id /\ s.row = r.row /\ s.missed = r.missed \cup {fresh.id}
  BY DEF RequestRow
<1>2. \A g \in Put(table, fresh, new) : g = fresh \/ (g \in table /\ g.id # fresh.id)
  BY DEF Put
<1> HIDE DEF s
<1>3. FitsIn(s, Put(table, fresh, new), clash)
  BY <1>1, <1>2 DEF FitsIn
<1> QED
  BY <1>3 DEF s

LEMMA MissingMoreFits ==
  ASSUME NEW r \in RequestRow, NEW table, NEW clash, NEW id, FitsIn(r, table, clash)
  PROVE  FitsIn([r EXCEPT !.missed = @ \cup {id}], table, clash)
<1> DEFINE s == [r EXCEPT !.missed = @ \cup {id}]
<1>1. s.id = r.id /\ s.row = r.row /\ s.missed = r.missed \cup {id}
  BY DEF RequestRow
<1> HIDE DEF s
<1>2. FitsIn(s, table, clash)
  BY <1>1 DEF FitsIn
<1> QED
  BY <1>2 DEF s

LEMMA WritesKeep ==
  ASSUME ProgrammeInv, NEW c \in Clients, Write(c)
  PROVE  ProgrammeInv'
<1> DEFINE r == request[c]
           marked(d) == [request[d] EXCEPT !.missed = @ \cup {r.id}]
<1>1. /\ ProgrammeTypes /\ IdsAreApart /\ RowsAreApart /\ RequestsFit
      /\ request \in [Clients -> RequestRow \cup {Null}] /\ LeftType /\ RowsAreTyped
  BY DEF ProgrammeInv, ProgrammeTypes
<1>2. /\ r # Null /\ r \in RequestRow /\ r.row.id = r.id
      /\ r.kind \in {"weekly", "event"} /\ r.id \in Nat
  BY <1>1 DEF Write, ProgrammeTypes, RequestRow
<1>3. /\ request' = [d \in Clients |->
              IF d = c \/ request[d] = Null THEN IF d = c THEN Null ELSE request[d]
              ELSE [request[d] EXCEPT !.missed = @ \cup {r.id}]]
      /\ raced' = {p \in raced : r.row.id \notin p} \cup {{r.row.id, other} : other \in r.missed}
      /\ left' = left
  BY <1>2 DEF Write
<1>4. \/ /\ r.kind = "weekly" /\ r.row \in EntryRow
         /\ weekly' = Put(weekly, r.row, r.new) /\ events' = events
      \/ /\ r.kind = "event" /\ r.row \in EventRow
         /\ events' = Put(events, r.row, r.new) /\ weekly' = weekly
  BY <1>1, <1>2 DEF Write, ProgrammeTypes, Asks
<1>5. ASSUME NEW d \in Clients, request'[d] # Null
      PROVE  d # c /\ request[d] # Null /\ request'[d] = marked(d) /\ request[d] \in RequestRow
  BY <1>1, <1>3, <1>5
<1>6. ASSUME NEW d \in Clients, request[d] \in RequestRow
      PROVE  /\ marked(d) \in RequestRow /\ marked(d).kind = request[d].kind
             /\ marked(d).id = request[d].id /\ marked(d).row = request[d].row
  BY <1>2, <1>6 DEF RequestRow
<1>7. request' \in [Clients -> RequestRow \cup {Null}]
  BY <1>1, <1>3, <1>6
<1> HIDE DEF r, marked
<1>8. ASSUME NEW k, NEW d \in Clients, Asks(d, k)'
      PROVE  /\ Asks(d, k) /\ d # c /\ request[d] \in RequestRow
             /\ request'[d] = marked(d) /\ request'[d].id = request[d].id
             /\ request'[d].row = request[d].row
  BY <1>5, <1>6, <1>8 DEF Asks
<1>9. /\ r.kind = "weekly" => r.id \in IdsOf(weekly, "weekly")
      /\ r.kind = "event" => r.id \in IdsOf(events, "event")
  BY <1>2 DEF IdsOf, Asks, r
<1>10. ProgrammeTypes'
  <2>1. RowsAreTyped'
    BY <1>1, <1>4 DEF RowsAreTyped, Put
  <2>2. \A d \in Clients : Asks(d, "weekly")' => request'[d].row \in EntryRow
    BY <1>1, <1>8 DEF ProgrammeTypes
  <2>3. \A d \in Clients : Asks(d, "event")' => request'[d].row \in EventRow
    BY <1>1, <1>8 DEF ProgrammeTypes
  <2>4. \A d \in Clients : request'[d] # Null => request'[d].row.id = request'[d].id
    BY <1>1, <1>5, <1>6 DEF ProgrammeTypes
  <2>5. LeftType'
    BY <1>1, <1>3 DEF LeftType
  <2> QED
    BY <1>7, <2>1, <2>2, <2>3, <2>4, <2>5 DEF ProgrammeTypes
<1>11. IdsAreApart'
  <2>1. IdsOf(weekly, "weekly")' \subseteq IdsOf(weekly, "weekly")
    <3>1. \A f \in weekly' : f \in weekly \/ (r.kind = "weekly" /\ f.id = r.id)
      BY <1>2, <1>4 DEF Put
    <3>2. \A f \in weekly' : f.id \in IdsOf(weekly, "weekly")
      BY <1>9, <3>1 DEF IdsOf
    <3>3. \A d \in Clients : Asks(d, "weekly")' => request'[d].id \in IdsOf(weekly, "weekly")
      BY <1>8 DEF IdsOf
    <3> QED
      BY <3>2, <3>3 DEF IdsOf
  <2>2. IdsOf(events, "event")' \subseteq IdsOf(events, "event")
    <3>1. \A f \in events' : f \in events \/ (r.kind = "event" /\ f.id = r.id)
      BY <1>2, <1>4 DEF Put
    <3>2. \A f \in events' : f.id \in IdsOf(events, "event")
      BY <1>9, <3>1 DEF IdsOf
    <3>3. \A d \in Clients : Asks(d, "event")' => request'[d].id \in IdsOf(events, "event")
      BY <1>8 DEF IdsOf
    <3> QED
      BY <3>2, <3>3 DEF IdsOf
  <2> QED
    BY <1>1, <1>3, <2>1, <2>2 DEF IdsAreApart
<1>12. /\ r.kind = "weekly" => \A f \in events : f.id # r.row.id
       /\ r.kind = "event" => \A f \in weekly : f.id # r.row.id
  BY <1>1, <1>2, <1>9 DEF IdsAreApart, IdsOf
<1>13. /\ \A p \in raced : r.row.id \notin p => p \in raced'
       /\ \A o \in r.missed : {r.row.id, o} \in raced'
  BY <1>3
<1>14. RowsAreApart'
  <2>1. CASE r.kind = "weekly"
    <3>1. FitsIn(r, weekly, WeeklyClash)
      BY <1>1, <1>2, <2>1 DEF RequestsFit, Asks, r
    <3>2. Apart(weekly, WeeklyClash, raced)'
      <4>1. \A f \in weekly : f.id # r.row.id /\ f.id \notin r.missed
                                => <<r.row, f>> \notin WeeklyClash
        BY <1>2, <3>1 DEF FitsIn
      <4>2. Apart(weekly, WeeklyClash, raced)
        BY <1>1 DEF RowsAreApart
      <4>3. \A e, f : <<e, f>> \in WeeklyClash => <<f, e>> \in WeeklyClash
        BY ClashesAreMutual
      <4>4. Apart(Put(weekly, r.row, r.new), WeeklyClash, raced')
        BY <1>13, <4>1, <4>2, <4>3, WriteKeepsApart
      <4>5. weekly' = Put(weekly, r.row, r.new)
        BY <1>4, <2>1
      <4> QED
        BY <4>4, <4>5 DEF Apart
    <3>3. Apart(events, EventClash, raced)'
      <4>1. Apart(events, EventClash, raced')
        <5>1. Apart(events, EventClash, raced) /\ \A f \in events : f.id # r.row.id
          BY <1>1, <1>12, <2>1 DEF RowsAreApart
        <5> QED
          BY <1>13, <5>1, WriteLeavesApart
      <4>2. events' = events
        BY <1>4, <2>1
      <4> QED
        BY <4>1, <4>2 DEF Apart
    <3> QED
      BY <3>2, <3>3 DEF RowsAreApart
  <2>2. CASE r.kind = "event"
    <3>1. FitsIn(r, events, EventClash)
      BY <1>1, <1>2, <2>2 DEF RequestsFit, Asks, r
    <3>2. Apart(events, EventClash, raced)'
      <4>1. \A f \in events : f.id # r.row.id /\ f.id \notin r.missed
                                => <<r.row, f>> \notin EventClash
        BY <1>2, <3>1 DEF FitsIn
      <4>2. Apart(events, EventClash, raced)
        BY <1>1 DEF RowsAreApart
      <4>3. \A e, f : <<e, f>> \in EventClash => <<f, e>> \in EventClash
        BY ClashesAreMutual
      <4>4. Apart(Put(events, r.row, r.new), EventClash, raced')
        BY <1>13, <4>1, <4>2, <4>3, WriteKeepsApart
      <4>5. events' = Put(events, r.row, r.new)
        BY <1>4, <2>2
      <4> QED
        BY <4>4, <4>5 DEF Apart
    <3>3. Apart(weekly, WeeklyClash, raced)'
      <4>1. Apart(weekly, WeeklyClash, raced')
        <5>1. Apart(weekly, WeeklyClash, raced) /\ \A f \in weekly : f.id # r.row.id
          BY <1>1, <1>12, <2>2 DEF RowsAreApart
        <5> QED
          BY <1>13, <5>1, WriteLeavesApart
      <4>2. weekly' = weekly
        BY <1>4, <2>2
      <4> QED
        BY <4>1, <4>2 DEF Apart
    <3> QED
      BY <3>2, <3>3 DEF RowsAreApart
  <2> QED
    BY <1>2, <2>1, <2>2
<1>15. RequestsFit'
  <2>1. ASSUME NEW d \in Clients, Asks(d, "weekly")'
        PROVE  FitsIn(request'[d], weekly', WeeklyClash)
    <3>1. /\ request[d] \in RequestRow /\ FitsIn(request[d], weekly, WeeklyClash)
          /\ request'[d] = marked(d)
      BY <1>1, <1>8, <2>1 DEF RequestsFit
    <3>2. marked(d) = [request[d] EXCEPT !.missed = @ \cup {r.row.id}]
      BY <1>2 DEF marked
    <3>3. weekly' = weekly \/ weekly' = Put(weekly, r.row, r.new)
      BY <1>4
    <3>4. FitsIn([request[d] EXCEPT !.missed = @ \cup {r.row.id}], weekly, WeeklyClash)
      BY <3>1, MissingMoreFits
    <3>5. FitsIn([request[d] EXCEPT !.missed = @ \cup {r.row.id}], Put(weekly, r.row, r.new),
                WeeklyClash)
      BY <3>1, WriteKeepsFit
    <3> QED
      BY <3>1, <3>2, <3>3, <3>4, <3>5
  <2>2. ASSUME NEW d \in Clients, Asks(d, "event")'
        PROVE  FitsIn(request'[d], events', EventClash)
    <3>1. /\ request[d] \in RequestRow /\ FitsIn(request[d], events, EventClash)
          /\ request'[d] = marked(d)
      BY <1>1, <1>8, <2>2 DEF RequestsFit
    <3>2. marked(d) = [request[d] EXCEPT !.missed = @ \cup {r.row.id}]
      BY <1>2 DEF marked
    <3>3. events' = events \/ events' = Put(events, r.row, r.new)
      BY <1>4
    <3>4. FitsIn([request[d] EXCEPT !.missed = @ \cup {r.row.id}], events, EventClash)
      BY <3>1, MissingMoreFits
    <3>5. FitsIn([request[d] EXCEPT !.missed = @ \cup {r.row.id}], Put(events, r.row, r.new),
                EventClash)
      BY <3>1, WriteKeepsFit
    <3> QED
      BY <3>1, <3>2, <3>3, <3>4, <3>5
  <2> QED
    BY <2>1, <2>2 DEF RequestsFit, FitsIn
<1> QED
  BY <1>10, <1>11, <1>14, <1>15 DEF ProgrammeInv

LEMMA ProgrammeInvHolds == AutoDjSpec => []ProgrammeInv
<1>1. ASSUME ProgrammeInv, [AutoDjNext]_autoDjVars
      PROVE  ProgrammeInv'
  <2>1. CASE UNCHANGED autoDjVars
    <3>1. UNCHANGED programme /\ left' = left
      BY <2>1 DEF autoDjVars, scheduleVars
    <3>2. LeftType' /\ left'.requests <= left.requests
      BY <1>1, <3>1 DEF ProgrammeInv, ProgrammeTypes, LeftType
    <3> QED
      BY <1>1, <3>1, <3>2, InvFrame
  <2>2. CASE ScheduleRequest
    BY <1>1, <2>2, RequestsKeep, DeletesKeep DEF ScheduleRequest
  <2>3. CASE \E c \in Clients : Write(c)
    BY <1>1, <2>3, WritesKeep
  <2>4. CASE Begin /\ UNCHANGED programme
    <3>1. \E kind \in {"edits", "fills", "commits", "faults"} : Spend(kind)
      BY <2>4 DEF Begin, CommitCurrent, Refill, Rollback, AddSong, RemoveRow, Reorder
    <3>2. LeftType' /\ left'.requests <= left.requests
      BY <1>1, <3>1, SpendKeeps DEF ProgrammeInv, ProgrammeTypes
    <3> QED
      BY <1>1, <2>4, <3>2, InvFrame
  <2>5. CASE Continue /\ UNCHANGED scheduleVars
    <3>1. UNCHANGED programme /\ left' = left
      BY <2>5 DEF scheduleVars
    <3>2. LeftType' /\ left'.requests <= left.requests
      BY <1>1, <3>1 DEF ProgrammeInv, ProgrammeTypes, LeftType
    <3> QED
      BY <1>1, <3>1, <3>2, InvFrame
  <2> QED
    BY <1>1, <2>1, <2>2, <2>3, <2>4, <2>5 DEF AutoDjNext
<1> QED
  BY ProgrammeStarts, <1>1, PTL DEF AutoDjSpec

(* Whatever is booked, changed and deleted, in any order of the requests'  *)
(* checks and writes: rows that share a moment were checked past each      *)
(* other, and a limit counts dates.                                        *)
THEOREM ProgrammeStaysSound == AutoDjSpec => []ProgrammeIsSound
<1>1. ProgrammeInv => ProgrammeIsSound
  <2> SUFFICES ASSUME ProgrammeInv PROVE ProgrammeIsSound
    OBVIOUS
  <2>1. RowsAreTyped /\ RowsAreApart
    BY DEF ProgrammeInv, ProgrammeTypes
  <2> QED
    BY <2>1, BookedApartIsApart, TypedRowsAreCounted DEF ProgrammeIsSound
<1> QED
  BY <1>1, ProgrammeInvHolds, PTL

(* At every moment of every day, with any rows in the tables, the source   *)
(* service/mod.rs finds from weekdays and times of day is that of what is  *)
(* on.                                                                     *)
THEOREM WhatIsOnIsPlayed == AutoDjSpec => WhatIsOnPlays
<1>1. ProgrammeInv => OnPlays
  BY TypedRowsArePlayed DEF ProgrammeInv, ProgrammeTypes
<1>2. ProgrammeInv' => OnPlays'
  BY <1>1, PTL
<1>3. ProgrammeInv' => (UNCHANGED <<weekly, events>> \/ OnPlays')
  BY <1>2
<1>4. AutoDjSpec => OnPlays
  BY <1>1, ProgrammeInvHolds, PTL
<1>5. AutoDjSpec => [][UNCHANGED <<weekly, events>> \/ OnPlays']_<<weekly, events>>
  BY <1>3, ProgrammeInvHolds, PTL
<1> QED
  BY <1>4, <1>5 DEF WhatIsOnPlays

-----------------------------------------------------------------------------
(* The fills.                                                              *)

Ids(s) == {r.id : r \in s}
SongsOf(s) == {r.song : r \in s}

(* What may ever be on the queue. *)
Tracks ==
  Songs
    \cup (UNION {UNION Source[src].lists : src \in Sources})
    \cup (UNION {{Source[src].order[i] : i \in DOMAIN Source[src].order} : src \in Sources})

QueueRow == [id : Nat, song : Tracks, pos : Nat, fill : BOOLEAN]
CursorType == [cur : Nat \cup {Null}, index : Nat, used : SUBSET Nat]
TxType ==
  [at : {"count", "insert"}, cursor : CursorType \cup {Null}, gone : SUBSET Nat,
   added : SUBSET QueueRow, need : Nat, src : Sources, excluded : SUBSET Tracks,
   counted : [rows : SUBSET QueueRow, cursor : CursorType]]

SoundRows(s) ==
  s \subseteq QueueRow /\ IsFiniteSet(s) /\ \A r, q \in s : r.id = q.id => r = q
SoundCursor(c) == c \in CursorType /\ IsFiniteSet(c.used) /\ c.cur \notin c.used

(* What transaction t sees of rows s and of cursor c. *)
SeenRows(t, s) == {r \in s : r.id \notin t.gone} \cup t.added
SeenCursor(t, c) == IF t.cursor = Null THEN c ELSE t.cursor

(* What has been added and what is still wanted are what was wanted when   *)
(* it counted; the cursor has at most ended its track since, and nothing   *)
(* but the fill's own rows counts that did not count then.                 *)
Demanded(t) ==
  Cardinality(t.added) + t.need = FillDemand(t.counted.rows, t.counted.cursor, Source[t.src].ahead)
CursorSince(t, c) ==
  LET was == t.counted.cursor
      is == SeenCursor(t, c)
  IN  /\ was.used \subseteq is.used
      /\ is.cur = was.cur \/ (is.cur = Null /\ was.cur \in is.used)
RowsSince(t, s) ==
  LET cur == t.counted.cursor.cur
  IN  /\ \A r \in s : r.id \notin t.gone /\ (r.fill \/ r.id = cur) => r.id \in Ids(t.counted.rows)
      /\ \A a \in t.added : a.id # cur

(* A song that is on the queue twice without need. *)
Known(t) == ActiveSongs(t.counted.rows, t.counted.cursor)
Repeats(t) ==
  SongsOf(t.added) \cap Known(t) # {} \/ Cardinality(SongsOf(t.added)) < Cardinality(t.added)
Excused(t) ==
  Source[t.src].order = <<>> /\ UNION Source[t.src].lists \subseteq Known(t) \cup SongsOf(t.added)

TxSound(t, s, c) ==
  /\ t \in TxType /\ IsFiniteSet(t.gone) /\ SoundCursor(SeenCursor(t, c))
  /\ SoundRows(t.added) /\ \A r \in s, a \in t.added : r.id # a.id
  /\ SoundRows(t.counted.rows) /\ SoundCursor(t.counted.cursor)
TxFills(t, s, c) ==
  /\ t.at = "count" => t.added = {}
  /\ t.at = "insert" => /\ Demanded(t) /\ CursorSince(t, c) /\ RowsSince(t, s)
                        /\ t.excluded = Known(t) \cup SongsOf(t.added)
                        /\ Repeats(t) => Excused(t)

FillTypes ==
  /\ SoundRows(rows) /\ SoundCursor(cursor)
  /\ tx \in [Fillers -> TxType \cup {Null}]
  /\ adder # Null => adder \in [song : Songs, pos : Nat \cup {Null}]
  /\ \A v, w \in Fillers : tx[v] # Null /\ tx[w] # Null => v = w

TxsAreSound ==
  \A w \in Fillers : tx[w] # Null => TxSound(tx[w], rows, cursor) /\ TxFills(tx[w], rows, cursor)

FillInv == FillTypes /\ TxsAreSound /\ surplus = FALSE

LEMMA RowFields ==
  ASSUME NEW id \in Nat, NEW song \in Tracks, NEW pos \in Nat, NEW fill \in BOOLEAN
  PROVE  /\ Row(id, song, pos, fill) \in QueueRow /\ Row(id, song, pos, fill).id = id
         /\ Row(id, song, pos, fill).song = song /\ Row(id, song, pos, fill).fill = fill
BY DEF Row, QueueRow

LEMMA RowType ==
  ASSUME NEW r \in QueueRow
  PROVE  r.id \in Nat /\ r.song \in Tracks /\ r.pos \in Nat /\ r.fill \in BOOLEAN
BY DEF QueueRow

LEMMA CursorFields ==
  ASSUME NEW c, SoundCursor(c)
  PROVE  /\ c.cur \in Nat \cup {Null} /\ c.index \in Nat /\ c.used \in SUBSET Nat
         /\ IsFiniteSet(c.used) /\ c.cur \notin c.used
BY DEF SoundCursor, CursorType

LEMMA TxFields ==
  ASSUME NEW t \in TxType
  PROVE  /\ t.at \in {"count", "insert"} /\ t.gone \in SUBSET Nat /\ t.added \in SUBSET QueueRow
         /\ t.need \in Nat /\ t.src \in Sources /\ t.excluded \in SUBSET Tracks
         /\ t.cursor \in CursorType \cup {Null}
         /\ t.counted \in [rows : SUBSET QueueRow, cursor : CursorType]
BY DEF TxType

LEMMA IdsAreFinite ==
  ASSUME NEW s, IsFiniteSet(s)
  PROVE  IsFiniteSet(Ids(s)) /\ Cardinality(Ids(s)) <= Cardinality(s) /\ Cardinality(s) \in Nat
         /\ Cardinality(Ids(s)) \in Nat
<1> DEFINE f == [r \in s |-> r.id]
<1>1. Ids(s) = {f[r] : r \in s}
  BY DEF Ids
<1>2. f \in Surjection(s, Ids(s))
  BY DEF Surjection, Ids
<1> HIDE DEF f
<1>3. IsFiniteSet(Ids(s)) /\ Cardinality(Ids(s)) <= Cardinality(s)
  BY <1>2, FS_Surjection
<1> QED
  BY <1>3, FS_CardinalityType

(* Rows of different identities are as many as their identities. *)
LEMMA IdsCountRows ==
  ASSUME NEW s, SoundRows(s)
  PROVE  Cardinality(s) = Cardinality(Ids(s)) /\ IsFiniteSet(Ids(s))
<1> DEFINE f == [r \in s |-> r.id]
<1>1. IsFiniteSet(Ids(s))
  BY IdsAreFinite DEF SoundRows
<1>2. f \in [s -> Ids(s)]
  BY DEF Ids
<1>3. \A p, q \in s : f[p] = f[q] => p = q
  BY DEF SoundRows
<1>4. \A b \in Ids(s) : \E p \in s : f[p] = b
  BY DEF Ids
<1> HIDE DEF f
<1> QED
  BY <1>1, <1>2, <1>3, <1>4, SameSize

LEMMA SubsetIsSound ==
  ASSUME NEW s, SoundRows(s), NEW u, u \subseteq s
  PROVE  SoundRows(u)
<1>1. IsFiniteSet(u)
  BY FS_Subset DEF SoundRows
<1> QED
  BY <1>1 DEF SoundRows

(* A number beyond a finite set of them. *)
LEMMA SomeAreFree ==
  ASSUME NEW S, IsFiniteSet(S)
  PROVE  \E n \in 1 .. Cardinality(S) + 1 : n \notin S
<1>1. Cardinality(S) \in Nat
  BY FS_CardinalityType
<1> DEFINE k == Cardinality(S) + 1
<1>2. k \in Nat /\ 1 \in Int /\ k \in Int /\ ~ 1 > k
  BY <1>1
<1>3. Cardinality(1 .. k) = k
  <2>1. Cardinality(1 .. k) = k - 1 + 1
    BY <1>2, FS_Interval
  <2> QED
    BY <1>2, <2>1
<1>4. SUFFICES ASSUME 1 .. k \subseteq S PROVE FALSE
  OBVIOUS
<1>5. Cardinality(1 .. k) <= Cardinality(S)
  BY <1>4, FS_Subset
<1> QED
  BY <1>1, <1>3, <1>5

(* What the next identity must not be. *)
UsedBy(c) == c.used \cup ({c.cur} \ {Null})
HeldBy(w) ==
  Ids(tx[w].added \cup tx[w].counted.rows) \cup tx[w].gone \cup UsedBy(CursorSeen(w))
Taken == Ids(rows) \cup UsedBy(cursor)
         \cup UNION {HeldBy(w) : w \in {v \in Fillers : tx[v] # Null}}

LEMMA SeenIs ==
  \A w : /\ Visible(w) = SeenRows(tx[w], rows)
         /\ CursorSeen(w) = SeenCursor(tx[w], cursor)
BY DEF Visible, CursorSeen, SeenRows, SeenCursor

LEMMA UsedIsFinite ==
  ASSUME NEW c, SoundCursor(c)
  PROVE  /\ IsFiniteSet(UsedBy(c)) /\ c.used \subseteq UsedBy(c)
         /\ c.cur # Null => c.cur \in UsedBy(c)
<1>1. IsFiniteSet(c.used) /\ IsFiniteSet({c.cur})
  BY FS_Singleton DEF SoundCursor
<1>2. IsFiniteSet({c.cur} \ {Null})
  BY <1>1, FS_Subset
<1> QED
  BY <1>1, <1>2, FS_Union DEF UsedBy

LEMMA NewRowIsNew ==
  ASSUME FillInv
  PROVE  /\ NewRow \in Nat
         /\ NewRow \notin Ids(rows)
         /\ NewRow \notin cursor.used /\ NewRow # cursor.cur
         /\ \A w \in Fillers : tx[w] # Null =>
              /\ NewRow \notin Ids(tx[w].added) /\ NewRow \notin Ids(tx[w].counted.rows)
              /\ NewRow \notin tx[w].gone
              /\ NewRow \notin CursorSeen(w).used /\ NewRow # CursorSeen(w).cur
<1>1. /\ SoundRows(rows) /\ SoundCursor(cursor)
      /\ \A w \in Fillers : tx[w] # Null => TxSound(tx[w], rows, cursor)
  BY DEF FillInv, FillTypes, TxsAreSound
<1>2. \A w \in Fillers : tx[w] # Null => SoundCursor(CursorSeen(w))
  BY <1>1, SeenIs DEF TxSound
<1>3. ASSUME NEW w \in Fillers, tx[w] # Null PROVE IsFiniteSet(HeldBy(w))
  <2>1. /\ IsFiniteSet(tx[w].added) /\ IsFiniteSet(tx[w].counted.rows) /\ IsFiniteSet(tx[w].gone)
    BY <1>1, <1>3 DEF TxSound, SoundRows
  <2>2. IsFiniteSet(tx[w].added \cup tx[w].counted.rows)
    BY <2>1, FS_Union
  <2>3. IsFiniteSet(Ids(tx[w].added \cup tx[w].counted.rows))
    BY <2>2, IdsAreFinite
  <2>4. IsFiniteSet(UsedBy(CursorSeen(w)))
    BY <1>2, <1>3, UsedIsFinite
  <2>5. IsFiniteSet(Ids(tx[w].added \cup tx[w].counted.rows) \cup tx[w].gone)
    BY <2>1, <2>3, FS_Union
  <2> QED
    BY <2>4, <2>5, FS_Union DEF HeldBy
<1>4. IsFiniteSet(Taken)
  <2> DEFINE H(w) == IF tx[w] # Null THEN HeldBy(w) ELSE {}
  <2>1. UNION {HeldBy(w) : w \in {v \in Fillers : tx[v] # Null}} = H("runtime") \cup H("operator")
    BY DEF Fillers
  <2>2. IsFiniteSet(H("runtime")) /\ IsFiniteSet(H("operator"))
    BY <1>3, FS_EmptySet DEF Fillers
  <2>3. IsFiniteSet(Ids(rows)) /\ IsFiniteSet(UsedBy(cursor))
    BY <1>1, UsedIsFinite, IdsAreFinite DEF SoundRows
  <2> HIDE DEF H
  <2>4. IsFiniteSet(Ids(rows) \cup UsedBy(cursor))
    BY <2>3, FS_Union
  <2>5. IsFiniteSet(H("runtime") \cup H("operator"))
    BY <2>2, FS_Union
  <2> QED
    BY <2>1, <2>4, <2>5, FS_Union DEF Taken
<1>5. NewRow = CHOOSE n \in 1 .. Cardinality(Taken) + 1 : n \notin Taken
  BY DEF NewRow, Taken, HeldBy, UsedBy, Ids
<1>6. NewRow \in 1 .. Cardinality(Taken) + 1 /\ NewRow \notin Taken
  BY <1>4, <1>5, SomeAreFree
<1>7. NewRow \in Nat
  <2>1. Cardinality(Taken) \in Nat
    BY <1>4, FS_CardinalityType
  <2> QED
    BY <1>6, <2>1
<1>8. NewRow # Null
  BY <1>7, AutoDjAssumption
<1>9. NewRow \notin Ids(rows) /\ NewRow \notin UsedBy(cursor)
  BY <1>6 DEF Taken
<1>10. ASSUME NEW w \in Fillers, tx[w] # Null PROVE NewRow \notin HeldBy(w)
  BY <1>6, <1>10 DEF Taken
<1>11. NewRow \notin cursor.used /\ NewRow # cursor.cur
  BY <1>1, <1>8, <1>9, UsedIsFinite
<1>12. ASSUME NEW w \in Fillers, tx[w] # Null
       PROVE  /\ NewRow \notin Ids(tx[w].added) /\ NewRow \notin Ids(tx[w].counted.rows)
              /\ NewRow \notin tx[w].gone
              /\ NewRow \notin CursorSeen(w).used /\ NewRow # CursorSeen(w).cur
  <2>1. NewRow \notin HeldBy(w)
    BY <1>10, <1>12
  <2>2. NewRow \notin UsedBy(CursorSeen(w))
    BY <2>1 DEF HeldBy
  <2>3. NewRow \notin CursorSeen(w).used /\ NewRow # CursorSeen(w).cur
    BY <1>2, <1>8, <1>12, <2>2, UsedIsFinite
  <2> QED
    BY <2>1, <2>3 DEF HeldBy, Ids
<1> QED
  BY <1>7, <1>9, <1>11, <1>12

(* What others do to rows s and to cursor c beside transaction t. *)
RowsMove(t, s, s2) ==
  \A r \in s2 :
    \/ \E q \in s : q.id = r.id /\ q.fill = r.fill
    \/ /\ r.fill = FALSE /\ r.id \notin Ids(t.added)
       /\ t.at = "insert" => r.id # t.counted.cursor.cur
CursorMoves(c, c2) ==
  /\ c.used \subseteq c2.used
  /\ c2.cur = c.cur \/ (c2.cur = Null /\ c.cur # Null /\ c.cur \in c2.used)

(* A transaction is not misled by rows that leave, move or are added by    *)
(* others, nor by a cursor whose track ends.                               *)
LEMMA OthersKeepTx ==
  ASSUME NEW t, NEW s, NEW c, TxSound(t, s, c), TxFills(t, s, c), SoundCursor(c),
         NEW s2, NEW c2, SoundCursor(c2), RowsMove(t, s, s2), CursorMoves(c, c2)
  PROVE  TxSound(t, s2, c2) /\ TxFills(t, s2, c2)
<1> DEFINE was == t.counted.cursor
           is == SeenCursor(t, c)
           is2 == SeenCursor(t, c2)
<1>1. TxSound(t, s2, c2)
  <2>1. SoundCursor(SeenCursor(t, c2))
    BY DEF TxSound, SeenCursor
  <2>2. \A r \in s2, a \in t.added : r.id # a.id
    BY DEF TxSound, Ids, RowsMove
  <2> QED
    BY <2>1, <2>2 DEF TxSound
<1>2. CursorSince(t, c) => CursorSince(t, c2)
  <2> SUFFICES ASSUME CursorSince(t, c) PROVE CursorSince(t, c2)
    OBVIOUS
  <2>1. /\ was.used \subseteq is.used
        /\ is.cur = was.cur \/ (is.cur = Null /\ was.cur \in is.used)
    BY DEF CursorSince
  <2>2. CASE t.cursor = Null
    <3>1. is = c /\ is2 = c2
      BY <2>2 DEF SeenCursor
    <3> QED
      BY <2>1, <3>1 DEF CursorSince, CursorMoves
  <2>3. CASE t.cursor # Null
    <3>1. is2 = is
      BY <2>3 DEF SeenCursor
    <3> QED
      BY <2>1, <3>1 DEF CursorSince, CursorMoves
  <2> QED
    BY <2>2, <2>3
<1>3. t.at = "insert" /\ RowsSince(t, s) => RowsSince(t, s2)
  <2> SUFFICES ASSUME t.at = "insert", RowsSince(t, s), NEW r \in s2,
                      r.id \notin t.gone, r.fill \/ r.id = was.cur
               PROVE  r.id \in Ids(t.counted.rows)
    BY DEF RowsSince
  <2>1. PICK q \in s : q.id = r.id /\ q.fill = r.fill
    BY DEF RowsMove
  <2> QED
    BY <2>1 DEF RowsSince
<1> QED
  BY <1>1, <1>2, <1>3 DEF TxFills

LEMMA MaxNat ==
  ASSUME NEW S, S \subseteq Nat, IsFiniteSet(S), S # {}
  PROVE  \E m \in S : \A n \in S : n <= m
<1> DEFINE NoMax(T) == /\ T \subseteq Nat /\ IsFiniteSet(T) /\ T # {}
                       /\ ~ \E m \in T : \A n \in T : n <= m
           Bad == {k \in Nat : \E T : NoMax(T) /\ Cardinality(T) = k}
<1>1. SUFFICES ASSUME NoMax(S) PROVE FALSE
  OBVIOUS
<1>2. Cardinality(S) \in Bad
  <2>1. Cardinality(S) \in Nat
    BY FS_CardinalityType
  <2> HIDE DEF NoMax
  <2> QED
    BY <1>1, <2>1
<1>3. PICK k \in Bad : \A n \in Bad : k <= n
  <2>1. Bad \subseteq Nat
    OBVIOUS
  <2> HIDE DEF Bad
  <2> QED
    BY <1>2, <2>1, LeastNat
<1>4. PICK T : NoMax(T) /\ Cardinality(T) = k
  OBVIOUS
<1>5. PICK x \in T : TRUE
  BY <1>4
<1> DEFINE U == T \ {x}
<1>6. U \subseteq Nat /\ IsFiniteSet(U) /\ Cardinality(U) = k - 1 /\ k \in Nat
  BY <1>4, FS_RemoveElement
<1>7. Cardinality(U) \in Nat /\ ~ k <= Cardinality(U)
  <2>1. Cardinality(U) \in Nat
    BY <1>6, FS_CardinalityType
  <2> QED
    BY <1>6, <2>1
<1>8. ~ NoMax(U)
  <2> HIDE DEF NoMax, U
  <2> QED
    BY <1>3, <1>7
<1>9. U = {} \/ \E m \in U : \A n \in U : n <= m
  BY <1>6, <1>8
<1>10. x \in Nat /\ T = U \cup {x} /\ T \subseteq Nat /\ ~ \E m \in T : \A n \in T : n <= m
  BY <1>4
<1>11. CASE U = {}
  <2>1. \A n \in T : n <= x
    BY <1>10, <1>11
  <2> QED
    BY <1>10, <2>1
<1>12. CASE \E m \in U : \A n \in U : n <= m
  <2> HIDE DEF U, NoMax
  <2>1. PICK m \in U : \A n \in U : n <= m
    BY <1>12
  <2>2. m \in Nat /\ m \in T
    BY <1>6, <1>10, <2>1
  <2>3. CASE x <= m
    <3>1. \A n \in T : n <= m
      BY <1>10, <2>1, <2>3
    <3> QED
      BY <1>10, <2>2, <3>1
  <2>4. CASE m <= x
    <3>1. \A n \in T : n <= x
      BY <1>10, <2>1, <2>2, <2>4
    <3> QED
      BY <1>10, <3>1
  <2> QED
    BY <1>10, <2>2, <2>3, <2>4
<1> QED
  BY <1>9, <1>11, <1>12

LEMMA NextPositionType ==
  ASSUME NEW s, SoundRows(s)
  PROVE  NextPosition(s) \in Nat
<1>1. CASE s = {}
  BY <1>1 DEF NextPosition
<1>2. CASE s # {}
  <2> DEFINE P == {r.pos : r \in s}
             f == [r \in s |-> r.pos]
  <2>1. P \subseteq Nat /\ P # {}
    BY <1>2, RowType DEF SoundRows
  <2>2. IsFiniteSet(P)
    <3>1. f \in Surjection(s, P)
      BY DEF Surjection
    <3> HIDE DEF f, P
    <3> QED
      BY <3>1, FS_Surjection DEF SoundRows
  <2>3. \E m \in P : \A n \in P : n <= m
    <3> HIDE DEF P
    <3> QED
      BY <2>1, <2>2, MaxNat
  <2>4. \E p \in P : \A r \in s : r.pos <= p
    BY <2>3
  <2>5. NextPosition(s) = 1 + CHOOSE p \in P : \A r \in s : r.pos <= p
    BY <1>2 DEF NextPosition
  <2> DEFINE top == CHOOSE p \in P : \A r \in s : r.pos <= p
  <2>6. top \in P
    BY <2>4
  <2> HIDE DEF P
  <2>7. top \in Nat
    BY <2>1, <2>6
  <2> QED
    BY <2>5, <2>7
<1> QED
  BY <1>1, <1>2

LEMMA FillsStart == AutoDjInit => FillInv
<1> SUFFICES ASSUME AutoDjInit PROVE FillInv
  OBVIOUS
<1> DEFINE f == [i \in 1 .. Len(Listed) |-> Row(i, Listed[i], i - 1, FALSE)]
<1>1. /\ rows = {Row(i, Listed[i], i - 1, FALSE) : i \in DOMAIN Listed}
      /\ cursor = [cur |-> Null, index |-> 0, used |-> {}]
      /\ tx = [w \in Fillers |-> Null] /\ adder = Null /\ surplus = FALSE
  BY DEF AutoDjInit
<1>2. Len(Listed) \in Nat /\ DOMAIN Listed = 1 .. Len(Listed)
      /\ \A i \in 1 .. Len(Listed) : Listed[i] \in Tracks
  BY AutoDjAssumption DEF Tracks
<1>3. ASSUME NEW i \in 1 .. Len(Listed) PROVE f[i] \in QueueRow /\ f[i].id = i
  <2>1. i \in Nat /\ Listed[i] \in Tracks /\ i - 1 \in Nat /\ FALSE \in BOOLEAN
    BY <1>2
  <2> QED
    BY <2>1 DEF Row, QueueRow
<1>4. /\ f \in Surjection(1 .. Len(Listed), rows)
      /\ \A r \in rows : \E i \in 1 .. Len(Listed) : r = f[i]
  BY <1>1, <1>2 DEF Surjection
<1> HIDE DEF f
<1>5. IsFiniteSet(rows)
  <2>1. IsFiniteSet(1 .. Len(Listed))
    BY <1>2, FS_Interval
  <2> QED
    BY <1>4, <2>1, FS_Surjection
<1>6. SoundRows(rows)
  BY <1>3, <1>4, <1>5 DEF SoundRows
<1>7. SoundCursor(cursor)
  BY <1>1, FS_EmptySet DEF SoundCursor, CursorType
<1>8. FillTypes
  BY <1>1, <1>6, <1>7 DEF FillTypes
<1>9. TxsAreSound
  BY <1>1 DEF TxsAreSound
<1> QED
  BY <1>1, <1>8, <1>9 DEF FillInv

(* What is known of a transaction under way. *)
LEMMA TxKnown ==
  ASSUME FillInv, NEW w \in Fillers, tx[w] # Null
  PROVE  /\ tx[w] \in TxType /\ TxSound(tx[w], rows, cursor) /\ TxFills(tx[w], rows, cursor)
         /\ Visible(w) = SeenRows(tx[w], rows) /\ CursorSeen(w) = SeenCursor(tx[w], cursor)
         /\ \A v \in Fillers : v # w => tx[v] = Null
BY SeenIs DEF FillInv, FillTypes, TxsAreSound

(* Only transaction w changes. *)
LEMMA TxSteps ==
  ASSUME FillInv, NEW w \in Fillers, \A v \in Fillers : v # w => tx[v] = Null,
         NEW t, tx' = [tx EXCEPT ![w] = t],
         t # Null => TxSound(t, rows, cursor) /\ TxFills(t, rows, cursor),
         UNCHANGED <<rows, cursor, adder, surplus>>
  PROVE  FillInv'
<1>1. rows' = rows /\ cursor' = cursor /\ adder' = adder /\ surplus' = surplus
  OBVIOUS
<1>2. FillTypes /\ surplus = FALSE /\ tx \in [Fillers -> TxType \cup {Null}]
  BY DEF FillInv, FillTypes
<1>3. /\ tx'[w] = t /\ \A v \in Fillers : v # w => tx'[v] = Null
      /\ tx' \in [Fillers -> TxType \cup {Null}]
  BY <1>2 DEF TxSound
<1>4. FillTypes'
  BY <1>1, <1>2, <1>3 DEF FillTypes
<1>5. TxsAreSound'
  BY <1>1, <1>3 DEF TxsAreSound
<1> QED
  BY <1>1, <1>2, <1>4, <1>5 DEF FillInv

(* Only rows and cursor change, as others may change them. *)
LEMMA OthersStep ==
  ASSUME FillInv, tx' = tx, surplus' = surplus, SoundRows(rows'), SoundCursor(cursor'),
         adder' # Null => adder' \in [song : Songs, pos : Nat \cup {Null}],
         \A w \in Fillers : tx[w] # Null => RowsMove(tx[w], rows, rows'),
         CursorMoves(cursor, cursor')
  PROVE  FillInv'
<1>1. FillTypes /\ surplus = FALSE /\ SoundCursor(cursor)
  BY DEF FillInv, FillTypes
<1>2. FillTypes'
  BY <1>1 DEF FillTypes
<1>3. ASSUME NEW w \in Fillers, tx[w] # Null
      PROVE  TxSound(tx[w], rows', cursor') /\ TxFills(tx[w], rows', cursor')
  <2>1. TxSound(tx[w], rows, cursor) /\ TxFills(tx[w], rows, cursor)
    BY <1>3, TxKnown
  <2>2. RowsMove(tx[w], rows, rows')
    BY <1>3
  <2> QED
    BY <1>1, <2>1, <2>2, OthersKeepTx
<1>4. TxsAreSound'
  BY <1>3 DEF TxsAreSound
<1> QED
  BY <1>1, <1>2, <1>4 DEF FillInv

LEMMA LocksKeep ==
  ASSUME FillInv, NEW w \in Fillers, NEW c, c = Null \/ SoundCursor(c),
         NEW gone \in SUBSET Nat, IsFiniteSet(gone), Lock(w, c, gone),
         UNCHANGED <<rows, cursor, adder, surplus>>
  PROVE  FillInv'
<1> DEFINE t == Began(c, gone)
<1>1. SoundCursor(cursor) /\ SoundRows({})
  BY FS_EmptySet DEF FillInv, FillTypes, SoundRows
<1>2. t = [at |-> "count", cursor |-> c, gone |-> gone, added |-> {}, need |-> 0, src |-> Config,
           excluded |-> {}, counted |-> [rows |-> {}, cursor |-> cursor]]
  BY DEF Began
<1>3. /\ t.at = "count" /\ t.cursor = c /\ t.gone = gone /\ t.added = {}
      /\ t.counted.rows = {} /\ t.counted.cursor = cursor
  BY <1>2
<1>4. t \in TxType
  <2>1. c \in CursorType \cup {Null} /\ cursor \in CursorType /\ Config \in Sources
    BY <1>1, AutoDjAssumption DEF SoundCursor
  <2> QED
    BY <1>2, <2>1 DEF TxType
<1>5. /\ tx' = [tx EXCEPT ![w] = t] /\ \A v \in Fillers : tx[v] = Null
  BY DEF Lock
<1> HIDE DEF t
<1>6. SoundCursor(SeenCursor(t, cursor))
  BY <1>1, <1>3 DEF SeenCursor
<1>7. TxSound(t, rows, cursor) /\ TxFills(t, rows, cursor)
  BY <1>1, <1>3, <1>4, <1>6 DEF TxSound, TxFills
<1> QED
  BY <1>5, <1>7, TxSteps

LEMMA CommitCurrentKeeps ==
  ASSUME FillInv, CommitCurrent
  PROVE  FillInv'
<1>1. SoundRows(rows) /\ SoundCursor(cursor)
  BY DEF FillInv, FillTypes
<1> DEFINE C(r) == [cur |-> r.id, index |-> r.pos,
                    used |-> cursor.used \cup ({cursor.cur} \ {Null})]
           Gone(r) == Victims(rows, C(r))
           D(r) == [C(r) EXCEPT !.used = @ \ Gone(r)]
<1>2. PICK r \in Successors : Lock("runtime", D(r), Gone(r))
  BY DEF CommitCurrent
<1>3. r \in rows /\ r.id \notin cursor.used /\ r.id # cursor.cur /\ r.id \in Nat /\ r.pos \in Nat
  BY <1>1, RowType DEF Successors, Unconsumed, SoundRows
<1>4. C(r).used \in SUBSET Nat /\ IsFiniteSet(C(r).used) /\ r.id \notin C(r).used
      /\ C(r).used = UsedBy(cursor)
  <2>1. C(r).used = UsedBy(cursor)
    BY DEF UsedBy
  <2> QED
    BY <1>1, <1>3, <2>1, UsedIsFinite, CursorFields DEF UsedBy
<1>5. D(r) = [cur |-> r.id, index |-> r.pos, used |-> C(r).used \ Gone(r)]
  OBVIOUS
<1>6. Gone(r) \in SUBSET Ids(rows)
  BY DEF Victims, Ids
<1> HIDE DEF C, Gone, D
<1>7. Gone(r) \in SUBSET Nat /\ IsFiniteSet(Gone(r))
  <2>1. IsFiniteSet(Ids(rows)) /\ Ids(rows) \subseteq Nat
    BY <1>1, IdsAreFinite, RowType DEF SoundRows, Ids
  <2> QED
    BY <1>6, <2>1, FS_Subset
<1>8. SoundCursor(D(r))
  <2>1. IsFiniteSet(C(r).used \ Gone(r))
    BY <1>4, FS_Subset
  <2>2. D(r) \in CursorType /\ D(r).used = C(r).used \ Gone(r) /\ D(r).cur = r.id
    BY <1>3, <1>4, <1>5 DEF CursorType
  <2> QED
    BY <1>4, <2>1, <2>2 DEF SoundCursor
<1>9. "runtime" \in Fillers
  BY DEF Fillers
<1> QED
  BY <1>2, <1>7, <1>8, <1>9, LocksKeep DEF CommitCurrent

LEMMA RefillKeeps ==
  ASSUME FillInv, NEW w \in Fillers, Refill(w)
  PROVE  FillInv'
<1>1. {} \in SUBSET Nat /\ IsFiniteSet({})
  BY FS_EmptySet
<1> QED
  BY <1>1, LocksKeep DEF Refill

LEMMA RollbackKeeps ==
  ASSUME FillInv, NEW w \in Fillers, Rollback(w)
  PROVE  FillInv'
BY TxKnown, TxSteps DEF Rollback

(* What takes no lock. *)
LEMMA SameCursor == SoundCursor(cursor) => CursorMoves(cursor, cursor)
BY DEF CursorMoves

LEMMA LeavingKeeps ==
  ASSUME FillInv, rows' \subseteq rows, cursor' = cursor, tx' = tx, surplus' = surplus,
         adder' # Null => adder' \in [song : Songs, pos : Nat \cup {Null}]
  PROVE  FillInv'
<1>1. SoundRows(rows) /\ SoundCursor(cursor)
  BY DEF FillInv, FillTypes
<1>2. SoundRows(rows')
  BY <1>1, SubsetIsSound
<1>3. \A w \in Fillers : tx[w] # Null => RowsMove(tx[w], rows, rows')
  BY DEF RowsMove
<1>4. SoundCursor(cursor') /\ CursorMoves(cursor, cursor')
  BY <1>1, SameCursor
<1> QED
  BY <1>2, <1>3, <1>4, OthersStep

LEMMA AddSongKeeps ==
  ASSUME FillInv, AddSong
  PROVE  FillInv'
<1>1. /\ rows' \subseteq rows /\ cursor' = cursor /\ tx' = tx /\ surplus' = surplus
  BY DEF AddSong, Unconsumed
<1>2. adder' \in [song : Songs, pos : Nat \cup {Null}]
  BY DEF AddSong
<1> QED
  BY <1>1, <1>2, LeavingKeeps

LEMMA ReadPositionKeeps ==
  ASSUME FillInv, ReadPosition
  PROVE  FillInv'
<1>1. SoundRows(rows) /\ adder \in [song : Songs, pos : Nat \cup {Null}]
  BY DEF FillInv, FillTypes, ReadPosition
<1>2. NextPosition(rows) \in Nat
  BY <1>1, NextPositionType
<1>3. adder' = [adder EXCEPT !.pos = NextPosition(rows)] /\ rows' \subseteq rows
      /\ cursor' = cursor /\ tx' = tx /\ surplus' = surplus
  BY DEF ReadPosition
<1>4. adder' \in [song : Songs, pos : Nat \cup {Null}]
  BY <1>1, <1>2, <1>3
<1> QED
  BY <1>3, <1>4, LeavingKeeps

LEMMA RemoveRowKeeps ==
  ASSUME FillInv, RemoveRow
  PROVE  FillInv'
<1>1. /\ rows' \subseteq rows /\ cursor' = cursor /\ tx' = tx /\ surplus' = surplus
      /\ adder' = adder
  BY DEF RemoveRow
<1>2. adder' # Null => adder' \in [song : Songs, pos : Nat \cup {Null}]
  BY <1>1 DEF FillInv, FillTypes
<1> QED
  BY <1>1, <1>2, LeavingKeeps

LEMMA InsertRowKeeps ==
  ASSUME FillInv, InsertRow
  PROVE  FillInv'
<1>1. SoundRows(rows) /\ SoundCursor(cursor) /\ adder \in [song : Songs, pos : Nat \cup {Null}]
  BY DEF FillInv, FillTypes, InsertRow
<1> DEFINE fresh == Row(NewRow, adder.song, adder.pos, FALSE)
<1>2. /\ adder.pos \in Nat /\ adder.song \in Tracks
      /\ rows' = rows \cup {fresh} /\ adder' = Null
      /\ cursor' = cursor /\ tx' = tx /\ surplus' = surplus
  BY <1>1 DEF InsertRow, Tracks
<1>3. fresh \in QueueRow /\ fresh.id = NewRow /\ fresh.fill = FALSE
  <2>1. NewRow \in Nat
    BY NewRowIsNew
  <2>2. \A id \in Nat, song \in Tracks, pos \in Nat :
            LET r == Row(id, song, pos, FALSE)
            IN  r \in QueueRow /\ r.id = id /\ r.fill = FALSE
    BY DEF Row, QueueRow
  <2> QED
    BY <1>2, <2>1, <2>2
<1> HIDE DEF fresh
<1>4. SoundRows(rows')
  <2>1. \A r \in rows : r.id # fresh.id
    BY <1>3, NewRowIsNew DEF Ids
  <2>2. IsFiniteSet(rows')
    BY <1>1, <1>2, FS_AddElement DEF SoundRows
  <2> QED
    BY <1>1, <1>2, <1>3, <2>1, <2>2 DEF SoundRows
<1>5. ASSUME NEW w \in Fillers, tx[w] # Null
      PROVE  RowsMove(tx[w], rows, rows')
  <2> DEFINE t == tx[w]
  <2>1. TxSound(t, rows, cursor) /\ TxFills(t, rows, cursor) /\ t \in TxType
        /\ CursorSeen(w) = SeenCursor(t, cursor)
    BY <1>5, TxKnown
  <2>2. /\ NewRow \notin Ids(t.added) /\ NewRow \notin CursorSeen(w).used
        /\ NewRow # CursorSeen(w).cur /\ NewRow \in Nat
    BY <1>5, NewRowIsNew
  <2> HIDE DEF t
  <2>3. t.at = "insert" => NewRow # t.counted.cursor.cur
    BY <2>1, <2>2 DEF TxFills, CursorSince
  <2>4. \A r \in rows' : r \in rows \/ r = fresh
    BY <1>2
  <2>5. RowsMove(t, rows, rows')
    BY <1>3, <2>2, <2>3, <2>4 DEF RowsMove
  <2> QED
    BY <2>5 DEF t
<1>6. CursorMoves(cursor, cursor') /\ SoundCursor(cursor')
  BY <1>1, <1>2, SameCursor
<1> QED
  BY <1>2, <1>4, <1>5, <1>6, OthersStep

LEMMA FinishCurrentKeeps ==
  ASSUME FillInv, FinishCurrent
  PROVE  FillInv'
<1>1. SoundRows(rows) /\ SoundCursor(cursor) /\ \A r \in rows : r.id \in Nat /\ r.pos \in Nat
  BY RowType DEF FillInv, FillTypes, SoundRows
<1>2. PICK r \in rows :
        /\ r.id = cursor.cur
        /\ cursor' = [cur |-> Null, index |-> r.pos, used |-> cursor.used \cup {r.id}]
  BY DEF FinishCurrent
<1>3. cursor.cur # Null /\ Null \notin Nat
  BY <1>1, <1>2, AutoDjAssumption
<1>4. SoundCursor(cursor')
  <2>1. cursor'.cur = Null /\ cursor'.used = cursor.used \cup {r.id} /\ cursor' \in CursorType
    BY <1>1, <1>2, CursorFields DEF CursorType
  <2>2. IsFiniteSet(cursor.used \cup {r.id})
    BY <1>1, CursorFields, FS_AddElement
  <2>3. cursor'.used \in SUBSET Nat
    BY <1>1, <1>2, <2>1, CursorFields
  <2> QED
    BY <1>3, <2>1, <2>2, <2>3 DEF SoundCursor
<1>5. CursorMoves(cursor, cursor')
  BY <1>2, <1>3 DEF CursorMoves
<1>6. rows' = rows /\ tx' = tx /\ adder' = adder /\ surplus' = surplus
  BY DEF FinishCurrent
<1>7. \A w \in Fillers : tx[w] # Null => RowsMove(tx[w], rows, rows')
  BY <1>6 DEF RowsMove
<1>8. adder' # Null => adder' \in [song : Songs, pos : Nat \cup {Null}]
  BY <1>6 DEF FillInv, FillTypes
<1> QED
  BY <1>1, <1>4, <1>5, <1>6, <1>7, <1>8, OthersStep

(* Where a row is moved to. *)
MovedPos(first, r) ==
  IF r = first THEN 0
  ELSE 1 + Cardinality({q \in rows \ {first} : q.pos < r.pos \/ (q.pos = r.pos /\ q.id < r.id)})
MovedRow(first, r) == [r EXCEPT !.pos = MovedPos(first, r)]

LEMMA ReorderKeeps ==
  ASSUME FillInv, Reorder
  PROVE  FillInv'
<1>1. SoundRows(rows) /\ SoundCursor(cursor)
  BY DEF FillInv, FillTypes
<1>2. PICK first \in rows :
        LET current == {r \in rows : r.id = cursor.cur}
        IN  /\ rows' = {MovedRow(first, r) : r \in rows}
            /\ cursor' = [cursor EXCEPT !.index =
                 IF current = {} THEN @ ELSE MovedRow(first, CHOOSE r \in current : TRUE).pos]
  BY DEF Reorder, MovedRow, MovedPos
<1> DEFINE current == {r \in rows : r.id = cursor.cur}
           index == IF current = {} THEN cursor.index
                    ELSE MovedRow(first, CHOOSE r \in current : TRUE).pos
<1>3. rows' = {MovedRow(first, r) : r \in rows} /\ cursor' = [cursor EXCEPT !.index = index]
      /\ tx' = tx /\ adder' = adder /\ surplus' = surplus
  BY <1>2 DEF Reorder
<1>4. ASSUME NEW r \in rows
      PROVE  /\ MovedRow(first, r) \in QueueRow /\ MovedRow(first, r).id = r.id
             /\ MovedRow(first, r).fill = r.fill /\ MovedRow(first, r).pos \in Nat
  <2> DEFINE S == {q \in rows \ {first} : q.pos < r.pos \/ (q.pos = r.pos /\ q.id < r.id)}
  <2>1. Cardinality(S) \in Nat
    <3>1. S \in SUBSET rows
      OBVIOUS
    <3> HIDE DEF S
    <3> QED
      BY <1>1, <3>1, FS_Subset, FS_CardinalityType DEF SoundRows
  <2>2. MovedPos(first, r) \in Nat
    BY <2>1 DEF MovedPos
  <2>3. r \in QueueRow
    BY <1>1 DEF SoundRows
  <2> QED
    BY <2>2, <2>3 DEF MovedRow, QueueRow
<1>5. index \in Nat
  <2>1. current # {} => (CHOOSE r \in current : TRUE) \in rows
    OBVIOUS
  <2>2. cursor.index \in Nat
    BY <1>1, CursorFields
  <2> QED
    BY <1>4, <2>1, <2>2
<1> HIDE DEF index, current
<1>6. /\ SoundCursor(cursor') /\ cursor'.cur = cursor.cur /\ cursor'.used = cursor.used
  BY <1>1, <1>3, <1>5 DEF SoundCursor, CursorType
<1>7. SoundRows(rows')
  <2> DEFINE f == [r \in rows |-> MovedRow(first, r)]
  <2>1. f \in Surjection(rows, rows')
    BY <1>3 DEF Surjection
  <2> HIDE DEF f
  <2>2. IsFiniteSet(rows')
    BY <1>1, <2>1, FS_Surjection DEF SoundRows
  <2>3. rows' \subseteq QueueRow
    BY <1>3, <1>4
  <2>4. ASSUME NEW a \in rows', NEW b \in rows', a.id = b.id PROVE a = b
    <3>1. PICK r \in rows : a = MovedRow(first, r)
      BY <1>3
    <3>2. PICK q \in rows : b = MovedRow(first, q)
      BY <1>3
    <3>3. r = q
      BY <1>1, <1>4, <2>4, <3>1, <3>2 DEF SoundRows
    <3> QED
      BY <3>1, <3>2, <3>3
  <2> QED
    BY <2>2, <2>3, <2>4 DEF SoundRows
<1>8. \A w \in Fillers : tx[w] # Null => RowsMove(tx[w], rows, rows')
  BY <1>3, <1>4 DEF RowsMove
<1>9. CursorMoves(cursor, cursor')
  BY <1>6 DEF CursorMoves
<1>10. adder' # Null => adder' \in [song : Songs, pos : Nat \cup {Null}]
  BY <1>3 DEF FillInv, FillTypes
<1> QED
  BY <1>3, <1>6, <1>7, <1>8, <1>9, <1>10, OthersStep

(* The steps of a fill. *)
LEMMA SourcesAreKnown ==
  ASSUME RowsAreTyped, NEW date, NEW moment
  PROVE  SourcesAt(date, moment, Config) \subseteq Sources
<1>1. \A e \in FindActiveSchedule(date, moment) : e.src \in Sources
  BY DEF FindActiveSchedule, RowsAreTyped, EntryRow
<1>2. \A e \in FindActiveEvent(date, moment) : e.src \in Sources
  BY DEF FindActiveEvent, RowsAreTyped, EventRow
<1> QED
  BY <1>1, <1>2, AutoDjAssumption DEF SourcesAt

LEMMA DemandType ==
  ASSUME NEW s, NEW c, IsFiniteSet(s), NEW ahead \in Int
  PROVE  FillDemand(s, c, ahead) \in Nat /\ Cardinality(Upcoming(s, c)) \in Nat
<1>1. Upcoming(s, c) \in SUBSET s
  BY DEF Upcoming, Unconsumed
<1>2. Cardinality(Upcoming(s, c)) \in Nat
  BY <1>1, FS_Subset, FS_CardinalityType
<1> DEFINE n == Cardinality(Upcoming(s, c))
           e == IF Unconsumed(s, c) = {} THEN 1 ELSE 0
<1>3. FillDemand(s, c, ahead) = IF n >= ahead THEN 0 ELSE ahead - n + e
  BY DEF FillDemand
<1>4. n \in Nat /\ e \in Nat
  BY <1>2
<1> HIDE DEF n, e
<1>5. FillDemand(s, c, ahead) \in Nat
  BY <1>3, <1>4
<1> QED
  BY <1>2, <1>5

LEMMA CountKeeps ==
  ASSUME FillInv, RowsAreTyped, NEW w \in Fillers, Count(w)
  PROVE  FillInv'
<1> DEFINE t == tx[w]
           s == SeenRows(t, rows)
           c == SeenCursor(t, cursor)
<1>1. /\ t # Null /\ t.at = "count" /\ t \in TxType
      /\ TxSound(t, rows, cursor) /\ TxFills(t, rows, cursor)
      /\ Visible(w) = s /\ CursorSeen(w) = c
      /\ \A v \in Fillers : v # w => tx[v] = Null
  BY TxKnown DEF Count
<1>2. PICK src \in UNION {SourcesAt(m[1], m[2], Config) : m \in FillTimes} :
        tx' = [tx EXCEPT ![w].at = "insert", ![w].src = src,
                 ![w].need = FillDemand(s, c, Source[src].ahead),
                 ![w].excluded = ActiveSongs(s, c),
                 ![w].counted = [rows |-> s, cursor |-> c]]
  BY <1>1 DEF Count
<1>3. src \in Sources /\ Source[src].ahead \in Int
  BY SourcesAreKnown, AutoDjAssumption
<1> DEFINE need == FillDemand(s, c, Source[src].ahead)
           songs == ActiveSongs(s, c)
           u == [t EXCEPT !.at = "insert", !.src = src, !.need = need, !.excluded = songs,
                          !.counted = [rows |-> s, cursor |-> c]]
<1>4. t.added = {}
  BY <1>1 DEF TxFills
<1>5. SoundRows(rows) /\ tx \in [Fillers -> TxType \cup {Null}]
  BY DEF FillInv, FillTypes
<1>6. SoundRows(s) /\ s = {r \in rows : r.id \notin t.gone} /\ SoundCursor(c)
  <2>1. s = {r \in rows : r.id \notin t.gone}
    BY <1>4 DEF SeenRows
  <2>2. s \subseteq rows
    BY <2>1
  <2>3. SoundRows(s)
    BY <1>5, <2>2, SubsetIsSound
  <2>4. SoundCursor(c)
    BY <1>1 DEF TxSound
  <2> QED
    BY <2>1, <2>3, <2>4
<1>7. tx' = [tx EXCEPT ![w] = u]
  BY <1>2, <1>5
<1>8. need \in Nat /\ songs \in SUBSET Tracks
  <2>1. need \in Nat
    BY <1>3, <1>6, DemandType DEF SoundRows
  <2>2. songs \in SUBSET Tracks
    BY <1>6 DEF ActiveSongs, SoundRows, QueueRow
  <2> QED
    BY <2>1, <2>2
<1> HIDE DEF t, s, c, need, songs
<1>9. /\ u.at = "insert" /\ u.src = src /\ u.need = need /\ u.excluded = songs
      /\ u.counted = [rows |-> s, cursor |-> c] /\ u.added = {}
      /\ u.gone = t.gone /\ u.cursor = t.cursor
  BY <1>1, <1>4 DEF TxType
<1>10. u \in TxType
  <2>1. s \in SUBSET QueueRow /\ c \in CursorType
    BY <1>6 DEF SoundRows, SoundCursor
  <2>2. [rows |-> s, cursor |-> c] \in [rows : SUBSET QueueRow, cursor : CursorType]
    BY <2>1
  <2> QED
    BY <1>1, <1>3, <1>8, <2>2 DEF TxType
<1>11. u.counted.rows = s /\ u.counted.cursor = c /\ SeenCursor(u, cursor) = c
  BY <1>9 DEF SeenCursor, c
<1> HIDE DEF u
<1>12. TxSound(u, rows, cursor)
  <2>1. SoundRows({})
    BY FS_EmptySet DEF SoundRows
  <2>2. IsFiniteSet(t.gone)
    BY <1>1 DEF TxSound
  <2> QED
    BY <1>6, <1>9, <1>10, <1>11, <2>1, <2>2 DEF TxSound
<1>13. TxFills(u, rows, cursor)
  <2>1. Demanded(u)
    <3>1. Cardinality(u.added) = 0
      BY <1>9, FS_EmptySet
    <3> QED
      BY <1>8, <1>9, <1>11, <3>1 DEF Demanded, need
  <2>2. CursorSince(u, cursor)
    BY <1>11 DEF CursorSince
  <2>3. RowsSince(u, rows)
    BY <1>6, <1>9, <1>11 DEF RowsSince, Ids
  <2>4. SongsOf(u.added) = {}
    BY <1>9 DEF SongsOf
  <2>5. u.excluded = Known(u) \cup SongsOf(u.added)
    BY <1>9, <1>11, <2>4 DEF Known, songs
  <2>6. ~ Repeats(u)
    BY <1>9, <2>4, FS_EmptySet DEF Repeats
  <2> QED
    BY <1>9, <2>1, <2>2, <2>3, <2>5, <2>6 DEF TxFills
<1>14. rows' = rows /\ cursor' = cursor /\ adder' = adder /\ surplus' = surplus
  BY DEF Count
<1> QED
  BY <1>1, <1>7, <1>12, <1>13, <1>14, TxSteps DEF t

(* A source offers what is known already only when it has nothing else. *)
LEMMA OffersNew ==
  ASSUME NEW w, NEW song \in Offered(w), song \in tx[w].excluded
  PROVE  Source[tx[w].src].order = <<>> /\ UNION Source[tx[w].src].lists \subseteq tx[w].excluded
<1> DEFINE source == Source[tx[w].src]
           excluded == tx[w].excluded
<1>1. source.order = <<>>
  <2> SUFFICES ASSUME source.order # <<>> PROVE FALSE
    OBVIOUS
  <2>1. song \in NextInOrder(source.order, excluded)
    BY DEF Offered
  <2> QED
    BY <2>1 DEF NextInOrder
<1>2. song \in Candidates(source.lists, excluded)
  BY <1>1 DEF Offered
<1> HIDE DEF source, excluded
<1>3. {l \ excluded : l \in source.lists} \ {{}} = {}
  BY <1>2 DEF Candidates, excluded
<1>4. UNION source.lists \subseteq excluded
  <2> SUFFICES ASSUME NEW l \in source.lists, NEW x \in l PROVE x \in excluded
    OBVIOUS
  <2>1. l \ excluded = {}
    BY <1>3
  <2> QED
    BY <2>1
<1> QED
  BY <1>1, <1>4 DEF source, excluded

LEMMA OffersTracks ==
  ASSUME NEW w, tx[w].src \in Sources
  PROVE  Offered(w) \subseteq Tracks
<1> DEFINE Ordered(src) == {Source[src].order[i] : i \in DOMAIN Source[src].order}
           Listing(src) == UNION Source[src].lists
<1>1. NextInOrder(Source[tx[w].src].order, tx[w].excluded) \subseteq Ordered(tx[w].src)
  BY DEF NextInOrder
<1>2. Candidates(Source[tx[w].src].lists, tx[w].excluded) \subseteq Listing(tx[w].src)
  BY DEF Candidates
<1>3. Offered(w) \subseteq Ordered(tx[w].src) \cup Listing(tx[w].src)
  BY <1>1, <1>2 DEF Offered
<1> DEFINE AllOrdered == UNION {Ordered(src) : src \in Sources}
           AllListed == UNION {Listing(src) : src \in Sources}
<1>4. Tracks = Songs \cup AllListed \cup AllOrdered
  BY Zenon DEF Tracks
<1> HIDE DEF Ordered, Listing
<1>5. Ordered(tx[w].src) \subseteq AllOrdered
  OBVIOUS
<1>6. Listing(tx[w].src) \subseteq AllListed
  OBVIOUS
<1> HIDE DEF AllOrdered, AllListed
<1>7. Offered(w) \subseteq AllOrdered \cup AllListed
  BY <1>3, <1>5, <1>6
<1> QED
  BY <1>4, <1>7

LEMMA PickAndInsertKeeps ==
  ASSUME FillInv, NEW w \in Fillers, PickAndInsert(w)
  PROVE  FillInv'
<1> DEFINE t == tx[w]
<1>1. /\ t # Null /\ t.at = "insert" /\ t \in TxType /\ t.need > 0
      /\ TxSound(t, rows, cursor) /\ TxFills(t, rows, cursor)
      /\ Visible(w) = SeenRows(t, rows) /\ CursorSeen(w) = SeenCursor(t, cursor)
      /\ \A v \in Fillers : v # w => tx[v] = Null
  BY TxKnown DEF PickAndInsert
<1>2. PICK song \in Offered(w) : Insert(w, song)
  BY DEF PickAndInsert
<1>3. SoundRows(rows) /\ tx \in [Fillers -> TxType \cup {Null}]
  BY DEF FillInv, FillTypes
<1>4. SoundRows(SeenRows(t, rows))
  <2>1. SoundRows(t.added) /\ \A r \in rows, a \in t.added : r.id # a.id
    BY <1>1 DEF TxSound
  <2>2. IsFiniteSet({r \in rows : r.id \notin t.gone})
    BY <1>3, FS_Subset DEF SoundRows
  <2>3. IsFiniteSet({r \in rows : r.id \notin t.gone} \cup t.added)
    BY <2>1, <2>2, FS_Union DEF SoundRows
  <2> HIDE DEF t
  <2> QED
    BY <1>3, <2>1, <2>3 DEF SeenRows, SoundRows
<1> DEFINE fresh == Row(NewRow, song, Position(w), TRUE)
           u == [t EXCEPT !.need = @ - 1, !.excluded = @ \cup {song}, !.added = @ \cup {fresh}]
<1>5. fresh \in QueueRow /\ fresh.id = NewRow /\ fresh.song = song /\ song \in Tracks
  <2>1. Position(w) \in Nat
    <3>1. NextPosition(Visible(w)) \in Nat
      BY <1>1, <1>4, NextPositionType
    <3>2. SoundRows(t.counted.rows) /\ SoundRows(t.added)
      BY <1>1 DEF TxSound
    <3>3. NextPosition(t.counted.rows) \in Nat
      BY <3>2, NextPositionType
    <3>4. Cardinality(t.added) \in Nat
      BY <3>2, FS_CardinalityType DEF SoundRows
    <3>5. \/ Position(w) = NextPosition(t.counted.rows) + Cardinality(t.added)
          \/ Position(w) = NextPosition(Visible(w))
      BY DEF Position
    <3> HIDE DEF t
    <3> QED
      BY <3>1, <3>3, <3>4, <3>5
  <2>2. song \in Tracks
    BY <1>1, <1>2, TxFields, OffersTracks
  <2>3. NewRow \in Nat
    BY NewRowIsNew
  <2> QED
    BY <2>1, <2>2, <2>3 DEF Row, QueueRow
<1>6. tx' = [tx EXCEPT ![w] = u]
  BY <1>2, <1>3 DEF Insert
<1>7. song \in t.excluded
        => Source[t.src].order = <<>> /\ UNION Source[t.src].lists \subseteq t.excluded
  BY <1>2, OffersNew
<1>8. /\ NewRow \notin Ids(t.added) /\ NewRow \notin Ids(rows)
      /\ NewRow # t.counted.cursor.cur
  <2>1. /\ NewRow \notin Ids(t.added) /\ NewRow \notin Ids(rows)
        /\ NewRow \notin CursorSeen(w).used /\ NewRow # CursorSeen(w).cur
    BY <1>1, NewRowIsNew
  <2>2. CursorSince(t, cursor)
    BY <1>1 DEF TxFills
  <2> HIDE DEF t
  <2> QED
    BY <1>1, <2>1, <2>2 DEF CursorSince
<1> HIDE DEF t, fresh
<1>9. /\ t.need - 1 \in Nat /\ t.excluded \cup {song} \in SUBSET Tracks
      /\ t.added \cup {fresh} \in SUBSET QueueRow
  BY <1>1, <1>5, TxFields
<1>10. u \in TxType
  BY <1>1, <1>9 DEF TxType
<1>11. /\ u.at = "insert" /\ u.src = t.src /\ u.need = t.need - 1
       /\ u.excluded = t.excluded \cup {song} /\ u.added = t.added \cup {fresh}
       /\ u.counted = t.counted /\ u.gone = t.gone /\ u.cursor = t.cursor
  BY <1>1 DEF TxType
<1> HIDE DEF u
<1>12. fresh \notin t.added /\ IsFiniteSet(u.added)
       /\ Cardinality(u.added) = Cardinality(t.added) + 1
       /\ IsFiniteSet(t.added) /\ Cardinality(t.added) \in Nat
  <2>1. fresh \notin t.added
    BY <1>5, <1>8 DEF Ids
  <2>2. IsFiniteSet(t.added)
    BY <1>1 DEF TxSound, SoundRows
  <2> QED
    BY <1>11, <2>1, <2>2, FS_AddElement, FS_CardinalityType
<1>13. TxSound(u, rows, cursor)
  <2>1. SoundRows(u.added)
    BY <1>1, <1>5, <1>8, <1>11, <1>12 DEF TxSound, SoundRows, Ids
  <2>2. \A r \in rows, a \in u.added : r.id # a.id
    BY <1>1, <1>5, <1>8, <1>11 DEF TxSound, Ids
  <2>3. SeenCursor(u, cursor) = SeenCursor(t, cursor)
    BY <1>11 DEF SeenCursor
  <2> QED
    BY <1>1, <1>10, <1>11, <2>1, <2>2, <2>3 DEF TxSound
<1>14. SongsOf(u.added) = SongsOf(t.added) \cup {song} /\ Known(u) = Known(t)
  BY <1>5, <1>11 DEF SongsOf, Known
<1>15. Repeats(u) => Excused(u)
  <2>1. t.excluded = Known(t) \cup SongsOf(t.added) /\ (Repeats(t) => Excused(t))
    BY <1>1 DEF TxFills
  <2>2. CASE song \in t.excluded
    BY <1>7, <1>11, <1>14, <2>1, <2>2 DEF Excused
  <2>3. CASE song \notin t.excluded
    <3>1. song \notin Known(t) /\ song \notin SongsOf(t.added)
      BY <2>1, <2>3
    <3>2. IsFiniteSet(SongsOf(t.added))
      <4> DEFINE f == [r \in t.added |-> r.song]
      <4>1. f \in Surjection(t.added, SongsOf(t.added))
        BY DEF Surjection, SongsOf
      <4> HIDE DEF f
      <4> QED
        BY <1>12, <4>1, FS_Surjection
    <3>3. /\ Cardinality(SongsOf(u.added)) = Cardinality(SongsOf(t.added)) + 1
          /\ Cardinality(SongsOf(t.added)) \in Nat
      BY <1>14, <3>1, <3>2, FS_AddElement, FS_CardinalityType
    <3>4. Cardinality(SongsOf(u.added)) < Cardinality(u.added)
            <=> Cardinality(SongsOf(t.added)) < Cardinality(t.added)
      BY <1>12, <3>3
    <3>5. Repeats(u) => Repeats(t)
      BY <1>14, <3>1, <3>4 DEF Repeats
    <3>6. Excused(t) => Excused(u)
      BY <1>11, <1>14 DEF Excused
    <3> QED
      BY <2>1, <3>5, <3>6
  <2> QED
    BY <2>2, <2>3
<1>16. TxFills(u, rows, cursor)
  <2>1. Demanded(t) /\ CursorSince(t, cursor) /\ RowsSince(t, rows)
        /\ t.excluded = Known(t) \cup SongsOf(t.added)
    BY <1>1 DEF TxFills
  <2>2. Demanded(u)
    <3>1. t.need \in Nat
      BY <1>1, TxFields
    <3> QED
      BY <1>11, <1>12, <2>1, <3>1 DEF Demanded
  <2>3. CursorSince(u, cursor)
    BY <1>11, <2>1 DEF CursorSince, SeenCursor
  <2>4. RowsSince(u, rows)
    BY <1>5, <1>8, <1>11, <2>1 DEF RowsSince
  <2>5. u.excluded = Known(u) \cup SongsOf(u.added)
    BY <1>11, <1>14, <2>1
  <2> QED
    BY <1>11, <1>15, <2>2, <2>3, <2>4, <2>5 DEF TxFills
<1>17. rows' = rows /\ cursor' = cursor /\ adder' = adder /\ surplus' = surplus
  BY DEF PickAndInsert
<1> QED
  BY <1>1, <1>6, <1>13, <1>16, <1>17, TxSteps DEF t

(* What a fill leaves waiting was waiting when it counted or is its own. *)
StillWaiting(t) ==
  {r \in Unconsumed(t.counted.rows, t.counted.cursor) : r.id # t.counted.cursor.cur}

LEMMA WaitingIsCounted ==
  ASSUME NEW w \in Fillers, NEW s, NEW c, SoundRows(s), TxSound(tx[w], s, c),
         TxFills(tx[w], s, c), tx[w].at = "insert"
  PROVE  LET W == Waiting(w, SeenRows(tx[w], s), SeenCursor(tx[w], c))
         IN  /\ Cardinality(W) \in Nat
             /\ Cardinality(StillWaiting(tx[w])) \in Nat
             /\ Cardinality(W) <= Cardinality(StillWaiting(tx[w])) + Cardinality(tx[w].added)
<1> DEFINE t == tx[w]
           V == SeenRows(t, s)
           is == SeenCursor(t, c)
           was == t.counted.cursor
           W == Waiting(w, V, is)
           U == StillWaiting(t)
<1>1. /\ SoundRows(t.added) /\ SoundRows(t.counted.rows) /\ \A r \in s, a \in t.added : r.id # a.id
      /\ CursorSince(t, c) /\ RowsSince(t, s)
  BY DEF TxSound, TxFills
<1>2. V = {r \in s : r.id \notin t.gone} \cup t.added
  BY DEF SeenRows
<1>3. W = {r \in V : /\ r.id \notin is.used /\ r.id # is.cur
                     /\ r.fill \/ r \in t.counted.rows}
  BY DEF Waiting, Unconsumed
<1> HIDE DEF V, W, t, is, U
<1>4. SoundRows(W)
  <2>1. SoundRows(V)
    <3>1. IsFiniteSet({r \in s : r.id \notin t.gone})
      BY FS_Subset DEF SoundRows
    <3>2. IsFiniteSet(V)
      BY <1>1, <1>2, <3>1, FS_Union DEF SoundRows
    <3> QED
      BY <1>1, <1>2, <3>2 DEF SoundRows
  <2> QED
    BY <1>3, <2>1, SubsetIsSound
<1>5. SoundRows(U)
  BY <1>1, SubsetIsSound DEF U, StillWaiting, Unconsumed
<1>6. Ids(W) \subseteq Ids(U) \cup Ids(t.added)
  <2> SUFFICES ASSUME NEW r \in W, r \notin t.added PROVE r.id \in Ids(U)
    BY DEF Ids
  <2>1. /\ r \in s /\ r.id \notin t.gone /\ r.id \notin is.used /\ r.id # is.cur
        /\ r.fill \/ r \in t.counted.rows
    BY <1>2, <1>3
  <2>2. r.id \in Ids(t.counted.rows)
    BY <1>1, <2>1 DEF RowsSince, Ids
  <2>3. PICK q \in t.counted.rows : q.id = r.id
    BY <2>2 DEF Ids
  <2>4. /\ was.used \subseteq is.used
        /\ is.cur = was.cur \/ (is.cur = Null /\ was.cur \in is.used)
    BY <1>1 DEF CursorSince, is
  <2>5. q.id \notin was.used /\ q.id # was.cur
    BY <2>1, <2>3, <2>4
  <2>6. q \in U
    BY <2>3, <2>5 DEF U, StillWaiting, Unconsumed
  <2> QED
    BY <2>3, <2>6 DEF Ids
<1>7. /\ Cardinality(W) = Cardinality(Ids(W)) /\ IsFiniteSet(Ids(W))
      /\ Cardinality(U) = Cardinality(Ids(U)) /\ IsFiniteSet(Ids(U))
      /\ Cardinality(t.added) = Cardinality(Ids(t.added)) /\ IsFiniteSet(Ids(t.added))
  BY <1>1, <1>4, <1>5, IdsCountRows
<1> DEFINE A == Ids(U)
           B == Ids(t.added)
           C == Ids(W)
<1>8. /\ IsFiniteSet(A) /\ IsFiniteSet(B) /\ IsFiniteSet(C) /\ C \subseteq A \cup B
      /\ Cardinality(W) = Cardinality(C) /\ Cardinality(U) = Cardinality(A)
      /\ Cardinality(t.added) = Cardinality(B)
  BY <1>6, <1>7
<1> HIDE DEF A, B, C
<1>9. /\ IsFiniteSet(A \cup B)
      /\ Cardinality(A \cup B) = Cardinality(A) + Cardinality(B) - Cardinality(A \cap B)
  BY <1>8, FS_Union
<1>10. /\ Cardinality(A) \in Nat /\ Cardinality(B) \in Nat /\ Cardinality(C) \in Nat
       /\ Cardinality(A \cup B) \in Nat /\ Cardinality(A \cap B) \in Nat
  <2>1. IsFiniteSet(A \cap B)
    BY <1>8, FS_Subset
  <2> QED
    BY <1>8, <1>9, <2>1, FS_CardinalityType
<1>11. Cardinality(C) <= Cardinality(A \cup B)
  BY <1>8, <1>9, FS_Subset
<1>12. /\ Cardinality(W) \in Nat /\ Cardinality(U) \in Nat
       /\ Cardinality(W) <= Cardinality(U) + Cardinality(t.added)
  BY <1>8, <1>9, <1>10, <1>11
<1> QED
  BY <1>12 DEF W, V, is, U, t

LEMMA FillFits ==
  ASSUME NEW w \in Fillers, NEW s, NEW c, SoundRows(s), TxSound(tx[w], s, c),
         TxFills(tx[w], s, c), tx[w].at = "insert", tx[w].added # {}, ~ Misled(w)
  PROVE  ~ Overfull(w, SeenRows(tx[w], s), SeenCursor(tx[w], c))
<1> DEFINE t == tx[w]
           V == SeenRows(t, s)
           is == SeenCursor(t, c)
           was == t.counted.cursor
           R0 == t.counted.rows
           ahead == Source[t.src].ahead
           n == Cardinality(Upcoming(R0, was))
           free == Unconsumed(R0, was)
           wait == Cardinality(Waiting(w, V, is))
           still == Cardinality(StillWaiting(t))
           added == Cardinality(t.added)
<1>1. /\ SoundRows(t.added) /\ SoundRows(R0) /\ SoundCursor(was) /\ t \in TxType
      /\ Demanded(t) /\ CursorSince(t, c) /\ RowsSince(t, s) /\ SoundCursor(is)
  BY DEF TxSound, TxFills
<1>2. wait \in Nat /\ still \in Nat /\ wait <= still + added
  BY WaitingIsCounted
<1>3. ahead \in Int /\ t.need \in Nat
  BY <1>1, TxFields, AutoDjAssumption
<1>4. n \in Nat
  BY <1>1, <1>3, DemandType DEF SoundRows
<1>5. added \in Nat /\ added # 0
  BY <1>1, FS_EmptySet, FS_CardinalityType DEF SoundRows
<1>6. added + t.need = IF n >= ahead THEN 0 ELSE ahead - n + (IF free = {} THEN 1 ELSE 0)
  BY <1>1 DEF Demanded, FillDemand
<1>7. \A r \in V : r.id \in Nat
  BY <1>1, RowType DEF SeenRows, SoundRows
<1>8. \A r \in R0 : r.id \in Nat /\ r.pos \in Int
  BY <1>1, RowType DEF SoundRows
<1>9. was.index \in Int /\ Null \notin Nat
  BY <1>1, CursorFields, AutoDjAssumption
<1>10. free = {} => ~ \E r \in V : r.id = is.cur
  <2> SUFFICES ASSUME free = {}, NEW r \in V, r.id = is.cur PROVE FALSE
    OBVIOUS
  <2>1. is.cur = was.cur
    BY <1>1, <1>7, <1>9 DEF CursorSince
  <2>2. r \notin t.added
    BY <1>1, <2>1 DEF RowsSince
  <2>3. r \in s /\ r.id \notin t.gone
    BY <2>2 DEF SeenRows
  <2>4. PICK q \in R0 : q.id = was.cur
    BY <1>1, <2>1, <2>3 DEF RowsSince, Ids
  <2>5. was.cur \notin was.used
    BY <1>1, CursorFields
  <2>6. q \in free
    BY <2>4, <2>5 DEF Unconsumed
  <2> QED
    BY <2>6
<1>11. Overfull(w, V, is) <=> wait > ahead + IF \E r \in V : r.id = is.cur THEN 0 ELSE 1
  BY DEF Overfull
<1>12. CASE was.cur # Null
  <2>1. Upcoming(R0, was) = StillWaiting(t)
    BY <1>12 DEF Upcoming, StillWaiting
  <2>2. n = still
    BY <2>1
  <2> HIDE DEF wait, n, still, added, free, ahead, t, V, is
  <2>3. wait <= ahead + IF free = {} THEN 1 ELSE 0
    BY <1>2, <1>3, <1>4, <1>5, <1>6, <2>2
  <2> QED
    BY <1>2, <1>3, <1>10, <1>11, <2>3 DEF V, is, t
<1>13. CASE was.cur = Null
  <2> DEFINE L == {r \in free : r.pos <= was.index}
             G == {r \in free : r.pos > was.index}
  <2>1. StillWaiting(t) = free
    BY <1>8, <1>9, <1>13 DEF StillWaiting, Unconsumed
  <2>2. Upcoming(R0, was) = G
    BY <1>13 DEF Upcoming
  <2>3. Cardinality(L) <= 1 /\ Cardinality(L) \in Nat
    <3>1. IsFiniteSet(L)
      <4>1. L \in SUBSET R0
        BY DEF Unconsumed
      <4> HIDE DEF L
      <4> QED
        BY <1>1, <4>1, FS_Subset DEF SoundRows
    <3>2. ~ Cardinality(L) > 1
      BY <1>13 DEF Misled
    <3>3. Cardinality(L) \in Nat
      BY <3>1, FS_CardinalityType
    <3> HIDE DEF L
    <3> QED
      BY <3>2, <3>3
  <2>4. free = L \cup G /\ free \subseteq R0
    BY <1>8, <1>9 DEF Unconsumed
  <2> HIDE DEF L, G
  <2>5. Cardinality(free) <= Cardinality(L) + Cardinality(G)
    <3>1. IsFiniteSet(L) /\ IsFiniteSet(G)
      BY <1>1, <2>4, FS_Subset DEF SoundRows
    <3>2. Cardinality(free) = Cardinality(L) + Cardinality(G) - Cardinality(L \cap G)
      BY <2>4, <3>1, FS_Union
    <3>3. IsFiniteSet(L \cap G)
      BY <3>1, FS_Subset
    <3>4. Cardinality(L \cap G) \in Nat /\ Cardinality(L) \in Nat /\ Cardinality(G) \in Nat
      BY <3>1, <3>3, FS_CardinalityType
    <3> QED
      BY <3>2, <3>4
  <2>6. ~ \E r \in V : r.id = is.cur
    <3>1. is.cur = Null
      BY <1>1, <1>13 DEF CursorSince
    <3> QED
      BY <1>7, <1>9, <3>1
  <2>7. free = {} => still = 0
    BY <2>1, FS_EmptySet
  <2>8. still <= n + 1
    <3>1. still = Cardinality(free) /\ n = Cardinality(G)
      <4>1. still = Cardinality(free)
        BY <2>1
      <4>2. n = Cardinality(G)
        BY <2>2
      <4> QED
        BY <4>1, <4>2
    <3> HIDE DEF still, n, free
    <3> QED
      BY <1>2, <1>4, <2>3, <2>5, <3>1
  <2> HIDE DEF wait, n, still, added, free, ahead, t, V, is
  <2>9. wait <= ahead + 1
    BY <1>2, <1>3, <1>4, <1>5, <1>6, <2>7, <2>8
  <2> QED
    BY <1>2, <1>3, <1>11, <2>6, <2>9 DEF V, is, t
<1> QED
  BY <1>12, <1>13

LEMMA CommitKeeps ==
  ASSUME FillInv, NEW w \in Fillers, Commit(w)
  PROVE  FillInv'
<1> DEFINE t == tx[w]
<1>1. /\ t # Null /\ t \in TxType
      /\ TxSound(t, rows, cursor) /\ TxFills(t, rows, cursor)
      /\ Visible(w) = SeenRows(t, rows) /\ CursorSeen(w) = SeenCursor(t, cursor)
      /\ \A v \in Fillers : v # w => tx[v] = Null
  BY TxKnown DEF Commit
<1>2. SoundRows(rows) /\ tx \in [Fillers -> TxType \cup {Null}] /\ surplus = FALSE
  BY DEF FillInv, FillTypes
<1>3. /\ rows' = SeenRows(t, rows) /\ cursor' = SeenCursor(t, cursor)
      /\ tx' = [tx EXCEPT ![w] = Null] /\ adder' = adder
  BY <1>1 DEF Commit
<1>4. surplus' = (surplus \/ (t.added # {} /\ ~ Misled(w) /\ Overfull(w, rows', cursor')))
  BY DEF Commit
<1>5. surplus' = FALSE
  <2>1. t.at = "insert" /\ t.added # {} /\ ~ Misled(w) => ~ Overfull(w, rows', cursor')
    BY <1>1, <1>2, <1>3, FillFits
  <2>2. t.added # {} => t.at = "insert"
    BY <1>1, TxFields DEF TxFills
  <2> QED
    BY <1>2, <1>4, <2>1, <2>2
<1>6. SoundRows(rows')
  <2>1. SoundRows(t.added) /\ \A r \in rows, a \in t.added : r.id # a.id
    BY <1>1 DEF TxSound
  <2>2. IsFiniteSet({r \in rows : r.id \notin t.gone})
    BY <1>2, FS_Subset DEF SoundRows
  <2>3. IsFiniteSet({r \in rows : r.id \notin t.gone} \cup t.added)
    BY <2>1, <2>2, FS_Union DEF SoundRows
  <2> HIDE DEF t
  <2> QED
    BY <1>2, <1>3, <2>1, <2>3 DEF SeenRows, SoundRows
<1>7. SoundCursor(cursor')
  BY <1>1, <1>3 DEF TxSound
<1>8. \A v \in Fillers : tx'[v] = Null
  BY <1>1, <1>2, <1>3
<1>9. tx' \in [Fillers -> TxType \cup {Null}]
  BY <1>2, <1>3
<1>10. adder' # Null => adder' \in [song : Songs, pos : Nat \cup {Null}]
  BY <1>3 DEF FillInv, FillTypes
<1>11. FillTypes'
  BY <1>6, <1>7, <1>8, <1>9, <1>10 DEF FillTypes
<1>12. TxsAreSound'
  BY <1>8 DEF TxsAreSound
<1> QED
  BY <1>5, <1>11, <1>12 DEF FillInv

LEMMA FillFrame ==
  ASSUME FillInv, UNCHANGED queueVars
  PROVE  FillInv'
<1>1. rows' = rows /\ cursor' = cursor /\ tx' = tx /\ adder' = adder /\ surplus' = surplus
  BY DEF queueVars
<1> QED
  BY <1>1 DEF FillInv, FillTypes, TxsAreSound

(* However fills, commits, edits and requests interleave: none leaves more *)
(* than its window, none repeats without need.                             *)
THEOREM FillsStaySound == AutoDjSpec => []FillsAreSound
<1>1. ASSUME FillInv, ProgrammeInv, [AutoDjNext]_autoDjVars
      PROVE  FillInv'
  <2>1. CASE UNCHANGED queueVars
    BY <1>1, <2>1, FillFrame
  <2>2. CASE Begin
    BY <1>1, <2>2, CommitCurrentKeeps, RefillKeeps, RollbackKeeps, AddSongKeeps, RemoveRowKeeps,
       ReorderKeeps DEF Begin
  <2>3. CASE Continue
    <3>1. RowsAreTyped
      BY <1>1 DEF ProgrammeInv, ProgrammeTypes
    <3> QED
      BY <1>1, <2>3, <3>1, CountKeeps, PickAndInsertKeeps, CommitKeeps, FinishCurrentKeeps,
         ReadPositionKeeps, InsertRowKeeps DEF Continue
  <2>4. UNCHANGED autoDjVars => UNCHANGED queueVars
    BY DEF autoDjVars
  <2> QED
    BY <1>1, <2>1, <2>2, <2>3, <2>4 DEF AutoDjNext
<1>2. FillInv => FillsAreSound
  <2> SUFFICES ASSUME FillInv PROVE FillsAreSound
    OBVIOUS
  <2>1. WindowHolds
    BY DEF FillInv, WindowHolds
  <2>2. ASSUME NEW w \in Fillers, tx[w] # Null
        PROVE  Repeats(tx[w]) => Excused(tx[w])
    <3> DEFINE t == tx[w]
    <3>1. t \in TxType /\ TxFills(t, rows, cursor)
      BY <2>2, TxKnown
    <3>2. t.at \in {"count", "insert"}
      BY <3>1, TxFields
    <3>3. CASE t.at = "count"
      <4>1. t.added = {}
        BY <3>1, <3>3 DEF TxFills
      <4>2. SongsOf(t.added) = {}
        BY <4>1 DEF SongsOf
      <4> QED
        BY <4>1, <4>2, FS_EmptySet DEF Repeats
    <3>4. CASE t.at = "insert"
      BY <3>1, <3>4 DEF TxFills
    <3> QED
      BY <3>2, <3>3, <3>4
  <2>3. NoNeedlessRepeat
    BY <2>2 DEF NoNeedlessRepeat, Repeats, Excused, Known, ActiveSongs, SongsOf
  <2> QED
    BY <2>1, <2>3 DEF FillsAreSound
<1> QED
  BY <1>1, <1>2, FillsStart, ProgrammeInvHolds, PTL DEF AutoDjSpec
==============================================================================
