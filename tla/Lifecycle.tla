----------------------------- MODULE Lifecycle ------------------------------
(***************************************************************************)
(* The commands of the vaping CLI over one home directory: `start`,        *)
(* `start -d` (Vaping.run, here "run"), `stop` and `restart`, as processes *)
(* that meet at the pid file.  What a daemon does in _main is Daemon's     *)
(* business; here it is one stage.                                         *)
(*                                                                         *)
(* The pid file is the library's: a lock that fails at once when another   *)
(* process has it and that dies with its holder, then the holder's pid     *)
(* written into the file.  Leaving the `with` removes the file.            *)
(***************************************************************************)
EXTENDS Naturals, FiniteSets

CONSTANTS
  Command,   \* the commands that may be given, once each
  Kind,      \* Kind[c] \in {"start", "run", "stop", "restart"}
  Crashing,  \* the commands whose process may crash
  Failing,   \* the commands in whose daemon a plugin may raise
  None       \* no holder; nothing to read in the pid file

ASSUME CommandAssumption ==
  /\ Kind \in [Command -> {"start", "run", "stop", "restart"}]
  /\ Crashing \subseteq Command
  /\ Failing \subseteq Command
  /\ None \notin Command \cup (Command \X {"cli", "daemon"})

VARIABLES
  at,      \* at[c]: the stage the process of c is in
  lock,    \* the command whose process holds the pid file's lock
  file,    \* the pid that can be read from the pid file
  target   \* target[c]: the pid that stop() of c has read

vars == <<at, lock, file, target>>

Pid == Command \X {"cli", "daemon"}

Ended == {"done", "refused", "failed", "killed"}

(* Stages of stop(): lock the file, write it, say that nothing runs; or     *)
(* read it and kill.  Stages of a daemon: lock, write, _main, leave the     *)
(* `with`, and for run() the on_stop calls of its finally clause.           *)
StopStages == {"probing", "probed", "reporting", "reading", "killing"}
DaemonStages == {"locking", "locked", "main", "leaving", "stopping"}

TypeOK ==
  /\ at \in [Command -> {"idle"} \cup StopStages \cup DaemonStages \cup Ended]
  /\ lock \in Command \cup {None}
  /\ file \in Pid \cup {None}
  /\ target \in [Command -> Pid \cup {None}]

Init ==
  /\ at = [c \in Command |-> "idle"]
  /\ lock = None
  /\ file = None
  /\ target = [c \in Command |-> None]

(* DaemonContext detaches: the daemon is a child process, and the command's *)
(* own one is gone.                                                         *)
Detached(c) == Kind[c] # "run" /\ at[c] \in DaemonStages

PidOf(c) == <<c, IF Detached(c) THEN "daemon" ELSE "cli">>

Alive(pid) == \E c \in Command : PidOf(c) = pid /\ at[c] \notin {"idle"} \cup Ended

Goto(c, stage) == at' = [at EXCEPT ![c] = stage]

-----------------------------------------------------------------------------
Invoke(c) ==
  /\ at[c] = "idle"
  /\ Goto(c, IF Kind[c] \in {"stop", "restart"} THEN "probing" ELSE "locking")
  /\ UNCHANGED <<lock, file, target>>

(* Mutant: the lock does not exclude.                                       *)
Lock_Shared(c) ==
  /\ at[c] \in {"probing", "locking"}
  /\ lock' = c
  /\ Goto(c, IF at[c] = "probing" THEN "probed" ELSE "locked")
  /\ UNCHANGED <<file, target>>

(* `with self.pidfile`, in stop() and around _main.                         *)
Lock(c) ==
  /\ at[c] \in {"probing", "locking"} /\ lock = None
  /\ lock' = c
  /\ Goto(c, IF at[c] = "probing" THEN "probed" ELSE "locked")
  /\ UNCHANGED <<file, target>>

(* Mutant: the command is written, not the pid of its process.              *)
WritePid_NotAPid(c) ==
  /\ at[c] \in {"probed", "locked"}
  /\ file' = c
  /\ Goto(c, IF at[c] = "probed" THEN "reporting" ELSE "main")
  /\ UNCHANGED <<lock, target>>

WritePid(c) ==
  /\ at[c] \in {"probed", "locked"}
  /\ file' = PidOf(c)
  /\ Goto(c, IF at[c] = "probed" THEN "reporting" ELSE "main")
  /\ UNCHANGED <<lock, target>>

(* Mutant: a failed attempt cleans the pid file up.                         *)
LockFails_CleanUp(c) ==
  /\ at[c] \in {"probing", "locking"} /\ lock # None
  /\ Goto(c, IF at[c] = "probing" THEN "reading" ELSE "refused")
  /\ file' = None
  /\ UNCHANGED <<lock, target>>

(* Mutant: stop() waits for the lock.                                       *)
LockFails_StopWaits(c) ==
  /\ at[c] = "locking" /\ lock # None
  /\ Goto(c, "refused")
  /\ UNCHANGED <<lock, file, target>>

(* PidFileError: stop() takes it for a running daemon, run() reports it,    *)
(* _exec() lets it end the daemon.                                          *)
LockFails(c) ==
  /\ at[c] \in {"probing", "locking"} /\ lock # None
  /\ Goto(c, IF at[c] = "probing" THEN "reading" ELSE "refused")
  /\ UNCHANGED <<lock, file, target>>

(* What follows stop() in the command: restart() calls start() at once.     *)
AfterStop(c) == IF Kind[c] = "restart" THEN "locking" ELSE "done"

Release(c, stage) == lock' = None /\ file' = None /\ Goto(c, stage)

(* stop() got the lock: nothing is running.                                 *)
ReportNotRunning(c) ==
  /\ at[c] = "reporting"
  /\ Release(c, AfterStop(c))
  /\ UNCHANGED target

(* open() or int() raises when there is no pid to read.                     *)
ReadPid(c) ==
  /\ at[c] = "reading"
  /\ Goto(c, IF file = None THEN "failed" ELSE "killing")
  /\ target' = [target EXCEPT ![c] = file]
  /\ UNCHANGED <<lock, file>>

(* The effect of SIGTERM on process d: DaemonContext's handler raises       *)
(* SystemExit, which leaves _main and the `with`; any other process just    *)
(* dies, as a daemon does that has not entered _main or has left it.  A     *)
(* lock dies with its process, the file stays.                              *)
Terminate(d) == IF Detached(d) /\ at[d] = "main" THEN "leaving" ELSE "killed"

(* os.kill(), which raises when the process has gone in the meantime.       *)
KillTarget(c) ==
  /\ at[c] = "killing"
  /\ \/ /\ ~Alive(target[c])
        /\ Goto(c, "failed")
        /\ UNCHANGED lock
     \/ \E d \in Command :
          /\ Alive(target[c]) /\ target[c] = PidOf(d)
          /\ at' = [at EXCEPT ![c] = AfterStop(c), ![d] = Terminate(d)]
          /\ lock' = IF lock = d /\ Terminate(d) = "killed" THEN None ELSE lock
  /\ UNCHANGED <<file, target>>

(* _main ends: a plugin has raised.                                         *)
MainEnds(c) ==
  /\ c \in Failing /\ at[c] = "main"
  /\ Goto(c, "leaving")
  /\ UNCHANGED <<lock, file, target>>

(* The `with` is left before the finally clause of run().                   *)
LeavePidFile(c) ==
  /\ at[c] = "leaving"
  /\ Release(c, IF Kind[c] = "run" THEN "stopping" ELSE "done")
  /\ UNCHANGED target

OnStopCalls(c) ==
  /\ at[c] = "stopping"
  /\ Goto(c, "done")
  /\ UNCHANGED <<lock, file, target>>

(* Mutant: the lock is a file that outlives its owner.                      *)
Crash_KeepsLock(c) ==
  /\ c \in Crashing /\ at[c] \in StopStages \cup DaemonStages
  /\ Goto(c, "killed")
  /\ UNCHANGED <<lock, file, target>>

(* A process may be killed for good at any time.                            *)
Crash(c) ==
  /\ c \in Crashing /\ at[c] \in StopStages \cup DaemonStages
  /\ Goto(c, "killed")
  /\ lock' = IF lock = c THEN None ELSE lock
  /\ UNCHANGED <<file, target>>

-----------------------------------------------------------------------------
Proceed(c) ==
  \/ Lock(c) \/ WritePid(c) \/ LockFails(c) \/ ReportNotRunning(c)
  \/ ReadPid(c) \/ KillTarget(c) \/ LeavePidFile(c) \/ OnStopCalls(c)

Next == \E c \in Command : Invoke(c) \/ Proceed(c) \/ MainEnds(c) \/ Crash(c)

Spec == Init /\ [][Next]_vars

(* The operating system runs every process.  Nothing makes a user give a    *)
(* command, a daemon fail or a process crash.                               *)
FairSpec == Spec /\ \A c \in Command : WF_vars(Proceed(c))

-----------------------------------------------------------------------------
(* However commands race and processes die, two daemons never run _main on  *)
(* the same home directory.                                                 *)
OneMain ==
  \A c, d \in Command : at[c] = "main" /\ at[d] = "main" => c = d

(* While a daemon runs, the pid file names it, whatever became of earlier   *)
(* daemons and of stop commands in between: stop() can find it.             *)
PidFileNamesDaemon == \A c \in Command : at[c] = "main" => file = PidOf(c)

(* No command hangs: it ends, or becomes the daemon.                        *)
CommandsEnd ==
  \A c \in Command : at[c] # "idle" ~> at[c] \in Ended \cup {"main"}

(* A restart given while a daemon runs ends with a daemon of its own,       *)
(* unless it is killed itself.  (Where no daemon fails and no process       *)
(* crashes, the old daemon is there until restart's own SIGTERM.)           *)
RestartRestarts ==
  \A c \in Command : Kind[c] = "restart" =>
    (at[c] = "probing" /\ (\E d \in Command : at[d] = "main")
       ~> at[c] \in {"main", "killed"})

(* What makes OneMain and PidFileNamesDaemon inductive: exactly the stages  *)
(* inside a `with` hold the lock, and only its holder touches the file.     *)
Inside == {"probed", "reporting", "locked", "main", "leaving"}

LockInv ==
  /\ \A c \in Command : at[c] \in Inside <=> lock = c
  /\ \A c \in Command : at[c] \in {"reporting", "main", "leaving"} => file = PidOf(c)
=============================================================================
