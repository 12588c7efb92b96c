-------------------------- MODULE LifecycleProofs ---------------------------
(* Theorems about Lifecycle, for any number of commands of any kinds.       *)
EXTENDS Lifecycle, TLAPS

LEMMA InitLockInv == Init => TypeOK /\ LockInv
<1> SUFFICES ASSUME Init PROVE TypeOK /\ LockInv
  OBVIOUS
<1>1. \A c \in Command : c # None
  BY CommandAssumption
<1> QED BY <1>1 DEF Init, TypeOK, LockInv, Inside

LEMMA PidOfIsPid == \A c \in Command : PidOf(c) \in Pid
BY DEF PidOf, Pid

LEMMA TypeStep ==
  ASSUME TypeOK, [Next]_vars
  PROVE  TypeOK'
<1> USE DEF TypeOK, Goto
<1>1. ASSUME NEW c \in Command, Invoke(c) PROVE TypeOK'
  BY <1>1 DEF Invoke, StopStages, DaemonStages, Ended
<1>2. ASSUME NEW c \in Command, Lock(c) PROVE TypeOK'
  BY <1>2 DEF Lock, StopStages, DaemonStages, Ended
<1>3. ASSUME NEW c \in Command, WritePid(c) PROVE TypeOK'
  BY <1>3, PidOfIsPid DEF WritePid, StopStages, DaemonStages, Ended
<1>4. ASSUME NEW c \in Command, LockFails(c) PROVE TypeOK'
  BY <1>4 DEF LockFails, StopStages, DaemonStages, Ended
<1>5. ASSUME NEW c \in Command, ReportNotRunning(c) PROVE TypeOK'
  BY <1>5 DEF ReportNotRunning, Release, AfterStop, StopStages, DaemonStages, Ended
<1>6. ASSUME NEW c \in Command, ReadPid(c) PROVE TypeOK'
  BY <1>6 DEF ReadPid, StopStages, DaemonStages, Ended
<1>7. ASSUME NEW c \in Command, KillTarget(c) PROVE TypeOK'
  BY <1>7 DEF KillTarget, AfterStop, Terminate, StopStages, DaemonStages, Ended
<1>8. ASSUME NEW c \in Command, MainEnds(c) PROVE TypeOK'
  BY <1>8 DEF MainEnds, StopStages, DaemonStages, Ended
<1>9. ASSUME NEW c \in Command, LeavePidFile(c) PROVE TypeOK'
  BY <1>9 DEF LeavePidFile, Release, StopStages, DaemonStages, Ended
<1>10. ASSUME NEW c \in Command, OnStopCalls(c) PROVE TypeOK'
  BY <1>10 DEF OnStopCalls, StopStages, DaemonStages, Ended
<1>11. ASSUME NEW c \in Command, Crash(c) PROVE TypeOK'
  BY <1>11 DEF Crash, StopStages, DaemonStages, Ended
<1>12. CASE UNCHANGED vars
  BY <1>12 DEF vars
<1> QED
  BY <1>1, <1>2, <1>3, <1>4, <1>5, <1>6, <1>7, <1>8, <1>9, <1>10, <1>11, <1>12
     DEF Next, Proceed

(* A step that moves only processes outside the `with`, and none into it.   *)
LEMMA OutsideFrame ==
  ASSUME LockInv, lock' = lock, file' = file,
         \A c \in Command : at[c] \in Inside => at'[c] = at[c],
         \A c \in Command : at[c] \notin Inside => at'[c] \notin Inside
  PROVE  LockInv'
BY DEF LockInv, Inside, PidOf, Detached, DaemonStages

LEMMA LockInvStep ==
  ASSUME TypeOK, LockInv, [Next]_vars
  PROVE  LockInv'
<1>1. \A c \in Command : c # None
  BY CommandAssumption
<1>2. ASSUME NEW c \in Command, Lock(c) PROVE LockInv'
  <2>1. /\ lock = None /\ lock' = c /\ at'[c] \in {"probed", "locked"}
        /\ \A d \in Command : d # c => at'[d] = at[d]
    BY <1>2 DEF Lock, Goto, TypeOK
  <2>2. \A d \in Command : at[d] \notin Inside
    BY <1>1, <2>1 DEF LockInv
  <2> QED BY <1>1, <2>1, <2>2 DEF LockInv, Inside
<1>3. ASSUME NEW c \in Command, WritePid(c) PROVE LockInv'
  <2>1. /\ at[c] \in {"probed", "locked"} /\ lock' = lock
        /\ at'[c] = IF at[c] = "probed" THEN "reporting" ELSE "main"
        /\ \A d \in Command : d # c => at'[d] = at[d]
        /\ file' = PidOf(c)
    BY <1>3 DEF WritePid, Goto, TypeOK
  <2>2. lock = c
    BY <2>1 DEF LockInv, Inside
  <2>3. \A d \in Command : d # c => at'[d] \notin Inside
    BY <2>1, <2>2 DEF LockInv
  <2>4. PidOf(c)' = PidOf(c)
    BY <2>1 DEF PidOf, Detached, DaemonStages
  <2> QED BY <2>1, <2>2, <2>3, <2>4 DEF LockInv, Inside
<1>4. ASSUME NEW c \in Command, ReportNotRunning(c) \/ LeavePidFile(c) PROVE LockInv'
  <2>1. /\ at[c] \in {"reporting", "leaving"} /\ lock' = None
        /\ at'[c] \notin Inside
        /\ \A d \in Command : d # c => at'[d] = at[d]
    BY <1>4 DEF ReportNotRunning, LeavePidFile, Release, AfterStop, Goto, TypeOK, Inside
  <2>2. \A d \in Command : d # c => at[d] \notin Inside
    BY <2>1 DEF LockInv, Inside
  <2>3. \A d \in Command : at'[d] \notin Inside
    BY <2>1, <2>2
  <2> QED BY <1>1, <2>1, <2>3 DEF LockInv, Inside
<1>5. ASSUME NEW c \in Command, MainEnds(c) PROVE LockInv'
  <2>1. /\ at[c] = "main" /\ at'[c] = "leaving" /\ lock' = lock /\ file' = file
        /\ \A d \in Command : d # c => at'[d] = at[d]
    BY <1>5 DEF MainEnds, Goto, TypeOK
  <2>2. \A d \in Command : PidOf(d)' = PidOf(d)
    BY <2>1 DEF PidOf, Detached, DaemonStages
  <2> QED BY <2>1, <2>2 DEF LockInv, Inside
<1>6. ASSUME NEW d \in Command, NEW s, s \notin Inside,
             at'[d] = s, \A c \in Command : at'[c] \in Inside /\ c # d => at'[c] = at[c],
             \A c \in Command : at[c] \in Inside /\ c # d => at'[c] = at[c],
             lock' = IF lock = d THEN None ELSE lock, file' = file
      PROVE  LockInv'
  BY <1>1, <1>6 DEF LockInv, Inside, PidOf, Detached, DaemonStages
<1>7. ASSUME NEW c \in Command, KillTarget(c) PROVE LockInv'
  <2>1. at[c] = "killing" /\ file' = file /\ AfterStop(c) \notin Inside
    BY <1>7 DEF KillTarget, AfterStop, Inside
  <2>2. CASE Goto(c, "failed") /\ UNCHANGED lock
    BY <2>1, <2>2, OutsideFrame DEF Goto, TypeOK, Inside
  <2>3. ASSUME NEW d \in Command,
               at' = [at EXCEPT ![c] = AfterStop(c), ![d] = Terminate(d)],
               lock' = IF lock = d /\ Terminate(d) = "killed" THEN None ELSE lock
        PROVE  LockInv'
    <3>1. /\ at'[d] = Terminate(d)
          /\ c # d => at'[c] = AfterStop(c)
          /\ \A e \in Command : e # c /\ e # d => at'[e] = at[e]
      BY <2>3 DEF TypeOK
    <3>2. CASE Terminate(d) = "killed"
      <4>1. lock' = IF lock = d THEN None ELSE lock
        BY <2>3, <3>2
      <4>2. "killed" \notin Inside /\ at[c] \notin Inside
        BY <2>1 DEF Inside
      <4> QED BY <1>6, <2>1, <3>1, <3>2, <4>1, <4>2
    <3>3. CASE Terminate(d) # "killed"
      <4>1. at[d] = "main" /\ at'[d] = "leaving" /\ lock' = lock /\ c # d
        BY <2>1, <2>3, <3>1, <3>3 DEF Terminate
      <4>2. PidOf(d)' = PidOf(d)
        BY <4>1 DEF PidOf, Detached, DaemonStages
      <4>3. \A e \in Command : e # c /\ e # d => PidOf(e)' = PidOf(e)
        BY <3>1 DEF PidOf, Detached
      <4>4. at[c] \notin Inside /\ at'[c] \notin Inside
        BY <2>1, <3>1, <4>1 DEF Inside
      <4>5. lock = d /\ file = PidOf(d) /\ \A e \in Command : e # d => at'[e] \notin Inside
        BY <3>1, <4>1, <4>4 DEF LockInv, Inside
      <4> QED BY <2>1, <4>1, <4>2, <4>5 DEF LockInv, Inside
    <3> QED BY <3>2, <3>3
  <2> QED BY <1>7, <2>2, <2>3 DEF KillTarget
<1>8. ASSUME NEW c \in Command, Crash(c) PROVE LockInv'
  <2>1. /\ at'[c] = "killed" /\ \A d \in Command : d # c => at'[d] = at[d]
        /\ lock' = IF lock = c THEN None ELSE lock
        /\ file' = file
    BY <1>8 DEF Crash, Goto, TypeOK
  <2>2. "killed" \notin Inside
    BY DEF Inside
  <2> QED BY <1>6, <2>1, <2>2
<1>9. ASSUME NEW c \in Command,
             Invoke(c) \/ LockFails(c) \/ ReadPid(c) \/ OnStopCalls(c)
      PROVE  LockInv'
  <2>1. /\ at[c] \notin Inside /\ at'[c] \notin Inside
        /\ \A d \in Command : d # c => at'[d] = at[d]
        /\ lock' = lock /\ file' = file
    BY <1>9 DEF Invoke, LockFails, ReadPid, OnStopCalls, Goto, TypeOK, Inside
  <2> QED BY <2>1, OutsideFrame
<1>10. CASE UNCHANGED vars
  BY <1>10 DEF vars, LockInv, PidOf, Detached
<1> QED
  BY <1>2, <1>3, <1>4, <1>5, <1>7, <1>8, <1>9, <1>10 DEF Next, Proceed

(* The lock and the pid file are those of the process inside the `with`.    *)
THEOREM LockInvHolds == Spec => [](TypeOK /\ LockInv)
<1>1. Init => TypeOK /\ LockInv
  BY InitLockInv
<1>2. TypeOK /\ LockInv /\ [Next]_vars => (TypeOK /\ LockInv)'
  BY TypeStep, LockInvStep
<1> QED BY <1>1, <1>2, PTL DEF Spec

(* Every process is in a stage of its command, and the pid file has a pid   *)
(* or nothing in it, through kills and crashes.                             *)
THEOREM LifecycleTypeCorrect == Spec => []TypeOK
BY LockInvHolds, PTL

(* Two daemons never run _main on the same home directory.                  *)
THEOREM OnlyOneMain == Spec => []OneMain
<1>1. LockInv => OneMain
  BY DEF LockInv, OneMain, Inside
<1> QED BY <1>1, LockInvHolds, PTL

(* stop() finds the running daemon in the pid file.                         *)
THEOREM PidFileIsTheDaemons == Spec => []PidFileNamesDaemon
<1>1. LockInv => PidFileNamesDaemon
  BY DEF LockInv, PidFileNamesDaemon
<1> QED BY <1>1, LockInvHolds, PTL
=============================================================================
