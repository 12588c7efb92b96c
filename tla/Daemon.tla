------------------------------- MODULE Daemon -------------------------------
(***************************************************************************)
(* One vaping process from Vaping._main to its end: the startup loop that  *)
(* connects probes to outputs, the asyncio loop that runs them, the        *)
(* emission queue of every probe, and the way down (an exception of a      *)
(* plugin, or SIGTERM) with its on_stop calls.                             *)
(*                                                                         *)
(* The process has one thread.  Between two awaits that really suspend, a  *)
(* coroutine runs alone: `current` is the task that has the thread, or     *)
(* Main when the event loop has it.  `await` on an unbounded queue's put,  *)
(* and on send_emission, does not suspend; only sleep() does.              *)
(***************************************************************************)
EXTENDS Naturals, Sequences, FiniteSets

CONSTANTS
  N,            \* entries of the `probes` config list
  Output,       \* names of the output plugin instances
  OutputList,   \* OutputList[p]: the `output` list of the p-th probe
  Kind,         \* Kind[p]: whose _run the p-th probe inherits
  LazyStart,    \* outputs whose class sets lazy_start
  ThreadStart,  \* outputs that inherit Thread.start, which sets `started`
  Faults,       \* what may go wrong in this configuration
  Overrunning,  \* probes whose probe() may outlast the interval
  Modes,        \* values of `foreground` to try
  MaxMsg        \* bound: messages one probe produces

Probe == 1..N

ASSUME ConfigAssumption ==
  /\ N \in Nat \ {0}
  /\ OutputList \in [Probe -> Seq(Output)]
  /\ Kind \in [Probe -> {"timed", "plain", "file"}]
  /\ LazyStart \subseteq Output /\ ThreadStart \subseteq Output
  /\ Faults \subseteq {"startup", "on_start", "probe", "emit", "on_stop",
                  "sigint", "late_sigint", "sigterm"}
  /\ Overrunning \subseteq {p \in Probe : Kind[p] = "timed"}
  /\ Modes \subseteq BOOLEAN
  /\ MaxMsg \in Nat

(* An element of Vaping.joins: <<p, 0>> is the p-th probe, <<p, j>> the     *)
(* j-th output reference of its config.  A shared output has one task per   *)
(* reference, all of them running the same plugin instance.                 *)
Task == UNION {{<<p, j>> : j \in 0..Len(OutputList[p])} : p \in Probe}
ProbeTask(p) == <<p, 0>>
IsProbe(t) == t[2] = 0
OutputOf(t) == OutputList[t[1]][t[2]]
Main == <<0, 0>>       \* the coroutine run_plugins, and the loop itself

VARIABLES
  foreground, \* TRUE: Vaping.run(); FALSE: Vaping._exec()
  phase,     \* "starting", "running", "unwinding", "stopped"
  cursor,    \* <<p, j>>: where the two for loops of _main are
  joins,     \* Vaping.joins
  emitters,  \* emitters[p]: probe._emit, as output references
  started,   \* outputs whose attribute `started` is set
  set_up,    \* outputs whose start() has been called
  ready,     \* the event loop's queue of runnable tasks
  sleeping,  \* tasks suspended in sleep()
  current,   \* the task that has the thread, or Main
  pc,        \* pc[t]: where the coroutine of t is
  opened,    \* tasks whose plugin's on_start() has run
  hops,      \* loop turns since the first task raised; 0: none has
  queue,     \* queue[p]: probe._emit_queue
  produced,  \* produced[p]: messages probe() has returned
  last,      \* last[t]: number of the last message t's output accepted
  closed     \* how many of joins have had on_stop() called

startVars == <<foreground, cursor, joins, emitters, started, set_up>>
loopVars  == <<ready, sleeping, current, pc, opened, hops>>
emitVars  == <<queue, produced, last>>
vars == <<phase, startVars, loopVars, emitVars, closed>>

Emission == [msg : Nat, to : Task]

TypeOK ==
  /\ foreground \in BOOLEAN
  /\ phase \in {"starting", "running", "unwinding", "stopped"}
  /\ cursor \in (Nat \ {0}) \X (Nat \ {0})
  /\ joins \in Seq(Task)
  /\ emitters \in [Probe -> Seq(Task)]
  /\ started \subseteq Output
  /\ set_up \subseteq Output
  /\ ready \in Seq(Task \cup {Main})
  /\ sleeping \subseteq Task
  /\ current \in Task \cup {Main}
  /\ pc \in [Task -> {"new", "emit", "probe", "rest", "done", "dead"}]
  /\ opened \subseteq Task
  /\ hops \in 0..4
  /\ queue \in [Probe -> Seq(Emission)]
  /\ produced \in [Probe -> Nat]
  /\ last \in [Task -> Nat]
  /\ closed \in Nat

Init ==
  /\ foreground \in Modes
  /\ phase = "starting"
  /\ cursor = <<1, 1>>
  /\ joins = <<>>
  /\ emitters = [p \in Probe |-> <<>>]
  /\ started = {}
  /\ set_up = {}
  /\ ready = <<>>
  /\ sleeping = {}
  /\ current = Main
  /\ pc = [t \in Task |-> "new"]
  /\ opened = {}
  /\ hops = 0
  /\ queue = [p \in Probe |-> <<>>]
  /\ produced = [p \in Probe |-> 0]
  /\ last = [t \in Task |-> 0]
  /\ closed = 0

-----------------------------------------------------------------------------
(* Startup: the two nested for loops of _main.                              *)

(* get_output, then start() unless `started` or the class is lazy, then     *)
(* the two appends.                                                         *)
ConnectOutput ==
  LET p == cursor[1]
      j == cursor[2]
      o == OutputList[p][j]
      starting == {o} \ (started \cup LazyStart)
  IN /\ phase = "starting"
     /\ p \in Probe /\ j <= Len(OutputList[p])
     /\ set_up' = set_up \cup starting
     /\ started' = started \cup (starting \cap ThreadStart)
     /\ joins' = Append(joins, <<p, j>>)
     /\ emitters' = [emitters EXCEPT ![p] = Append(@, <<p, j>>)]
     /\ cursor' = <<p, j + 1>>
     /\ UNCHANGED <<foreground, phase, loopVars, emitVars, closed>>

(* Mutant: the probe is joined ahead of its outputs.                        *)
StartProbe_ProbeFirst ==
  LET p == cursor[1]
  IN /\ phase = "starting"
     /\ p \in Probe /\ cursor[2] > Len(OutputList[p])
     /\ joins' = <<ProbeTask(p)>> \o joins
     /\ cursor' = <<p + 1, 1>>
     /\ UNCHANGED <<foreground, phase, emitters, started, set_up, loopVars, emitVars, closed>>

(* probe.start() and the append, after the last output of the probe.        *)
StartProbe ==
  LET p == cursor[1]
  IN /\ phase = "starting"
     /\ p \in Probe /\ cursor[2] > Len(OutputList[p])
     /\ joins' = Append(joins, ProbeTask(p))
     /\ cursor' = <<p + 1, 1>>
     /\ UNCHANGED <<foreground, phase, emitters, started, set_up, loopVars, emitVars, closed>>

(* join_plugins: gather() makes one task per element of joins, in order.    *)
JoinPlugins ==
  /\ phase = "starting"
  /\ cursor[1] > N
  /\ phase' = "running"
  /\ ready' = joins
  /\ UNCHANGED <<startVars, sleeping, current, pc, opened, hops, emitVars, closed>>

(* get_probe, get_output or start() raises: _main logs and re-raises.       *)
RaiseInStartup ==
  /\ "startup" \in Faults
  /\ phase = "starting" /\ cursor[1] \in Probe
  /\ phase' = "unwinding"
  /\ UNCHANGED <<startVars, loopVars, emitVars, closed>>

-----------------------------------------------------------------------------
(* The event loop.                                                          *)

(* The loop resumes the task at the head of the queue.                      *)
Dispatch ==
  /\ phase = "running" /\ current = Main
  /\ ready # <<>> /\ Head(ready) # Main
  /\ current' = Head(ready)
  /\ ready' = Tail(ready)
  /\ UNCHANGED <<phase, startVars, sleeping, pc, opened, hops, emitVars, closed>>

(* Mutant: the timer is not disarmed and fires again.                       *)
Wake_Twice(t) ==
  /\ phase = "running"
  /\ t \in sleeping
  /\ ready' = Append(ready, t)
  /\ UNCHANGED <<phase, startVars, sleeping, current, pc, opened, hops, emitVars, closed>>

(* The timer of a sleeping task falls due, whatever the thread is doing.    *)
Wake(t) ==
  /\ phase = "running"
  /\ t \in sleeping
  /\ sleeping' = sleeping \ {t}
  /\ ready' = Append(ready, t)
  /\ UNCHANGED <<phase, startVars, current, pc, opened, hops, emitVars, closed>>

Executing(t) == phase = "running" /\ current = t

(* PluginBase._run, the coroutine of an output task: on_start and return.   *)
RunOutput(t) ==
  /\ Executing(t) /\ ~IsProbe(t)
  /\ opened' = opened \cup {t}
  /\ pc' = [pc EXCEPT ![t] = "done"]
  /\ current' = Main
  /\ UNCHANGED <<phase, startVars, ready, sleeping, hops, emitVars, closed>>

(* Mutant: gather(return_exceptions=True).                                  *)
Raise_Collected(t) ==
  /\ pc' = [pc EXCEPT ![t] = "dead"]
  /\ current' = Main
  /\ hops' = IF hops = 0 THEN 1 ELSE hops
  /\ UNCHANGED ready

(* A task raised.  gather() hands the first exception to run_plugins over   *)
(* three turns of the loop: the task's done callback, the wakeup of         *)
(* run_plugins, the callback that stops the loop.  After that one the loop  *)
(* still finishes its current batch of callbacks, some prefix of `ready`.   *)
(* Later exceptions are ignored.                                            *)
Raise(t) ==
  /\ pc' = [pc EXCEPT ![t] = "dead"]
  /\ current' = Main
  /\ hops' = IF hops = 0 THEN 1 ELSE hops
  /\ ready' = IF hops = 0 THEN Append(ready, Main) ELSE ready

RaiseInOnStart(t) ==
  /\ "on_start" \in Faults
  /\ Executing(t) /\ pc[t] = "new"
  /\ IsProbe(t) => Kind[t[1]] = "plain"
  /\ Raise(t)
  /\ UNCHANGED <<phase, startVars, sleeping, opened, emitVars, closed>>

(* Mutant: the loop is never told to stop.                                  *)
UnwindStep_NoStop ==
  /\ phase = "running" /\ current = Main
  /\ ready # <<>> /\ Head(ready) = Main
  /\ hops' = hops + 1
  /\ ready' = Append(Tail(ready), Main)
  /\ UNCHANGED <<phase, startVars, sleeping, current, pc, opened, emitVars, closed>>

UnwindStep ==
  /\ phase = "running" /\ current = Main
  /\ ready # <<>> /\ Head(ready) = Main /\ hops < 4
  /\ hops' = hops + 1
  /\ ready' = Append(Tail(ready), Main)
  /\ UNCHANGED <<phase, startVars, sleeping, current, pc, opened, emitVars, closed>>

(* asyncio.run cancels what is left of the tasks and closes the loop.       *)
CancelAll ==
  /\ phase' = "unwinding"
  /\ ready' = <<>> /\ sleeping' = {} /\ current' = Main
  /\ UNCHANGED <<startVars, pc, opened, hops, emitVars, closed>>

Teardown ==
  /\ phase = "running" /\ current = Main /\ hops = 4
  /\ CancelAll

(* Python's handler of SIGINT raises KeyboardInterrupt wherever the thread  *)
(* is: on the way down too, where it ends the on_stop() calls.              *)
Sigint ==
  \/ /\ "sigint" \in Faults
     /\ phase \in {"starting", "running"}
     /\ CancelAll
  \/ /\ "late_sigint" \in Faults
     /\ phase = "unwinding"
     /\ phase' = "stopped"
     /\ UNCHANGED <<startVars, loopVars, emitVars, closed>>

(* SIGTERM, which Vaping.stop() sends: DaemonContext's handler raises       *)
(* SystemExit; run() installs no handler, and the process just dies.        *)
Sigterm ==
  /\ "sigterm" \in Faults
  /\ IF foreground
     THEN /\ phase # "stopped"
          /\ phase' = "stopped"
          /\ UNCHANGED <<startVars, loopVars, emitVars, closed>>
     ELSE /\ phase \in {"starting", "running"}
          /\ CancelAll

-----------------------------------------------------------------------------
(* The probe coroutines.                                                    *)

(* Entering _run: ProbeBase calls on_start, TimedProbe and FileProbe do     *)
(* not.                                                                     *)
Begin(p) ==
  LET t == ProbeTask(p)
  IN /\ Executing(t) /\ pc[t] = "new"
     /\ opened' = IF Kind[p] = "plain" THEN opened \cup {t} ELSE opened
     /\ pc' = [pc EXCEPT ![t] = "emit"]
     /\ UNCHANGED <<phase, startVars, ready, sleeping, current, hops, emitVars, closed>>

(* send_emission within emit_all: get_nowait, then the output's emit().     *)
SendEmission(p) ==
  LET e == Head(queue[p])
  IN /\ Executing(ProbeTask(p)) /\ pc[ProbeTask(p)] = "emit"
     /\ Kind[p] = "timed" /\ queue[p] # <<>>
     /\ queue' = [queue EXCEPT ![p] = Tail(@)]
     /\ last' = [last EXCEPT ![e.to] = e.msg]
     /\ UNCHANGED <<phase, startVars, loopVars, produced, closed>>

(* Mutant: an exception of emit() is swallowed and the message dropped.     *)
RaiseInEmit_Swallow(p) ==
  /\ "emit" \in Faults
  /\ Executing(ProbeTask(p)) /\ pc[ProbeTask(p)] = "emit"
  /\ Kind[p] = "timed" /\ queue[p] # <<>>
  /\ queue' = [queue EXCEPT ![p] = Tail(@)]
  /\ UNCHANGED <<phase, startVars, loopVars, produced, last, closed>>

RaiseInEmit(p) ==
  LET t == ProbeTask(p)
  IN /\ "emit" \in Faults
     /\ Executing(t) /\ pc[t] = "emit"
     /\ Kind[p] = "timed" /\ queue[p] # <<>>
     /\ queue' = [queue EXCEPT ![p] = Tail(@)]
     /\ Raise(t)
     /\ UNCHANGED <<phase, startVars, sleeping, opened, produced, last, closed>>

(* Mutant: emit_all may leave its loop early.                               *)
EndEmit_Early(p) ==
  LET t == ProbeTask(p)
  IN /\ Executing(t) /\ pc[t] = "emit"
     /\ pc' = [pc EXCEPT ![t] = "probe"]
     /\ UNCHANGED <<phase, startVars, ready, sleeping, current, opened, hops,
                    emitVars, closed>>

(* emit_all leaves its loop when the queue is empty.  ProbeBase and         *)
(* FileProbe call send_emission() without awaiting it: the coroutine is     *)
(* dropped unrun and the queue stays as it is.                              *)
EndEmit(p) ==
  LET t == ProbeTask(p)
  IN /\ Executing(t) /\ pc[t] = "emit"
     /\ Kind[p] = "timed" => queue[p] = <<>>
     /\ pc' = [pc EXCEPT ![t] = "probe"]
     /\ UNCHANGED <<phase, startVars, ready, sleeping, current, opened, hops,
                    emitVars, closed>>

(* Mutant: emit() closes over the loop variable, not over its value.        *)
QueueEmission_LateBinding(p, m) ==
  queue[p] \o [j \in 1..Len(emitters[p]) |->
                 [msg |-> m, to |-> emitters[p][Len(emitters[p])]]]

(* Mutant: the outputs are served last to first.                            *)
QueueEmission_Reversed(p, m) ==
  queue[p] \o [j \in 1..Len(emitters[p]) |->
                 [msg |-> m, to |-> emitters[p][Len(emitters[p]) + 1 - j]]]

(* queue_emission: one entry per element of _emit, in order.                *)
QueueEmission(p, m) ==
  queue[p] \o [j \in 1..Len(emitters[p]) |-> [msg |-> m, to |-> emitters[p][j]]]

(* probe() returned a message.  FileProbe's probe returns a list and its    *)
(* _run queues the elements one by one: pc stays at "probe" until NoData.   *)
Data(p) ==
  LET t == ProbeTask(p)
  IN /\ Executing(t) /\ pc[t] = "probe"
     /\ produced[p] < MaxMsg
     /\ produced' = [produced EXCEPT ![p] = @ + 1]
     /\ queue' = [queue EXCEPT ![p] = QueueEmission(p, produced[p] + 1)]
     /\ pc' = IF Kind[p] = "file" THEN pc ELSE [pc EXCEPT ![t] = "rest"]
     /\ UNCHANGED <<phase, startVars, ready, sleeping, current, opened, hops,
                    last, closed>>

(* probe() returned nothing, or the end of FileProbe's list.                *)
NoData(p) ==
  LET t == ProbeTask(p)
  IN /\ Executing(t) /\ pc[t] = "probe"
     /\ pc' = [pc EXCEPT ![t] = "rest"]
     /\ UNCHANGED <<phase, startVars, ready, sleeping, current, opened, hops,
                    emitVars, closed>>

RaiseInProbe(p) ==
  LET t == ProbeTask(p)
  IN /\ "probe" \in Faults
     /\ Executing(t) /\ pc[t] = "probe"
     /\ Raise(t)
     /\ UNCHANGED <<phase, startVars, sleeping, opened, emitVars, closed>>

(* Mutant: time.sleep() instead of the loop's sleep.                        *)
Sleep_Blocking(p) ==
  LET t == ProbeTask(p)
  IN /\ Executing(t) /\ pc[t] = "rest"
     /\ pc' = [pc EXCEPT ![t] = "emit"]
     /\ UNCHANGED <<phase, startVars, ready, sleeping, current, opened, hops,
                    emitVars, closed>>

(* The cycle ends in sleep(): the only point where a probe gives way.       *)
Sleep(p) ==
  LET t == ProbeTask(p)
  IN /\ Executing(t) /\ pc[t] = "rest"
     /\ pc' = [pc EXCEPT ![t] = "emit"]
     /\ sleeping' = sleeping \cup {t}
     /\ current' = Main
     /\ UNCHANGED <<phase, startVars, ready, opened, hops, emitVars, closed>>

(* TimedProbe, when the cycle took longer than the interval: a warning, and *)
(* the next cycle at once.                                                  *)
Overrun(p) ==
  LET t == ProbeTask(p)
  IN /\ Executing(t) /\ pc[t] = "rest" /\ p \in Overrunning
     /\ pc' = [pc EXCEPT ![t] = "emit"]
     /\ UNCHANGED <<phase, startVars, ready, sleeping, current, opened, hops,
                    emitVars, closed>>

-----------------------------------------------------------------------------
(* The way down: run() calls on_stop on joins in its finally clause, _exec  *)
(* has no such clause.                                                      *)

OnStop ==
  /\ phase = "unwinding" /\ foreground /\ closed < Len(joins)
  /\ closed' = closed + 1
  /\ UNCHANGED <<phase, startVars, loopVars, emitVars>>

RaiseInOnStop ==
  /\ "on_stop" \in Faults
  /\ phase = "unwinding" /\ foreground /\ closed < Len(joins)
  /\ phase' = "stopped"
  /\ UNCHANGED <<startVars, loopVars, emitVars, closed>>

(* Mutant: run() without its finally clause.                                *)
Exit_NoFinally ==
  /\ phase = "unwinding"
  /\ phase' = "stopped"
  /\ UNCHANGED <<startVars, loopVars, emitVars, closed>>

Exit ==
  /\ phase = "unwinding"
  /\ foreground => closed = Len(joins)
  /\ phase' = "stopped"
  /\ UNCHANGED <<startVars, loopVars, emitVars, closed>>

-----------------------------------------------------------------------------
Startup == ConnectOutput \/ StartProbe \/ JoinPlugins \/ RaiseInStartup

EventLoop == Dispatch \/ UnwindStep \/ Teardown

RunProbe(p) ==
  \/ Begin(p) \/ SendEmission(p) \/ RaiseInEmit(p) \/ EndEmit(p)
  \/ Data(p) \/ NoData(p) \/ RaiseInProbe(p)
  \/ Sleep(p) \/ Overrun(p)

RunTask == (\E t \in Task : RunOutput(t) \/ RaiseInOnStart(t))
           \/ \E p \in Probe : RunProbe(p)

Shutdown == OnStop \/ RaiseInOnStop \/ Exit

Thread == Startup \/ EventLoop \/ RunTask \/ Shutdown

Next == Thread \/ (\E t \in Task : Wake(t)) \/ Sigint \/ Sigterm

Spec == Init /\ [][Next]_vars

(* The thread runs while it has something to do, and clocks advance.        *)
Fairness == WF_vars(Thread) /\ \A t \in Task : WF_vars(Wake(t))

FairSpec == Spec /\ Fairness

-----------------------------------------------------------------------------
(* Properties.                                                              *)

TimedProbe == {p \in Probe : Kind[p] = "timed"}
References(p) == {<<p, j>> : j \in 1..Len(OutputList[p])}

(* The emission queue of a TimedProbe has no size limit, and yet it never   *)
(* holds more than the fan-out of one message: emit_all drains it before    *)
(* each probe().                                                            *)
BacklogBounded == \A p \in TimedProbe : Len(queue[p]) <= Len(OutputList[p])

(* However the process goes down, an output misses at most the last message *)
(* of a TimedProbe: the one that waits for the next cycle.                  *)
LossBounded ==
  \A p \in TimedProbe : \A t \in References(p) : produced[p] - last[t] <= 1

(* What makes the two so, and inductive with TypeOK.  _main has connected   *)
(* the outputs up to its cursor, in the order of the config...              *)
Connected(p) == CASE p < cursor[1] -> Len(OutputList[p])
                  [] p = cursor[1] -> cursor[2] - 1
                  [] p > cursor[1] -> 0

Wiring ==
  /\ cursor[1] \in 1..N + 1
  /\ cursor[1] \in Probe => cursor[2] <= Len(OutputList[cursor[1]]) + 1
  /\ phase = "running" => cursor[1] = N + 1
  /\ \A p \in Probe :
       /\ Len(emitters[p]) = Connected(p)
       /\ \A j \in 1..Len(emitters[p]) : emitters[p][j] = <<p, j>>

(* ...and the queue of a TimedProbe is what is left of the fan-out of its   *)
(* last message: the outputs it names lack just that message, the others    *)
(* lack nothing, unless the probe has died in an emit().                    *)
Served(p) == Len(OutputList[p]) - Len(queue[p])

FanOutOf(p) ==
  /\ Len(queue[p]) <= Len(OutputList[p])
  /\ \A i \in 1..Len(queue[p]) :
       queue[p][i].msg = produced[p] /\ queue[p][i].to = <<p, Served(p) + i>>
  /\ Len(queue[p]) > 0 => produced[p] > 0
  /\ \A j \in 1..Len(OutputList[p]) :
       last[<<p, j>>] = produced[p] \/ last[<<p, j>>] + 1 = produced[p]
  /\ pc[ProbeTask(p)] # "dead" =>
       \A j \in 1..Len(OutputList[p]) : last[<<p, j>>] = produced[p] <=> j <= Served(p)
  /\ pc[ProbeTask(p)] = "probe" => Len(queue[p]) = 0

FanOut == Wiring /\ \A p \in TimedProbe : FanOutOf(p)

(* The loop neither loses nor duplicates a task: as long as it runs, a task *)
(* that has not ended is in exactly one of the three places, and one that   *)
(* has ended is in none.                                                    *)
TaskHeldOnce ==
  phase = "running" =>
    \A t \in Task :
      LET places == (IF current = t THEN 1 ELSE 0)
                    + (IF t \in sleeping THEN 1 ELSE 0)
                    + Cardinality({i \in 1..Len(ready) : ready[i] = t})
      IN places = IF pc[t] \in {"done", "dead"} THEN 0 ELSE 1

(* Every output reference of a TimedProbe is handed the probe's messages    *)
(* one after the other: none skipped, repeated or overtaken.                *)
InOrder == [][\A t \in Task : last'[t] # last[t] => last'[t] = last[t] + 1]_vars

(* No emit() reaches an output before the on_start() of its own task has    *)
(* been called, successfully or not, nor, unless it starts lazily, before   *)
(* its start(): outputs stand before their probe in joins, and the loop is  *)
(* first come, first served.  ZeroMQ relies on the one, whose socket        *)
(* on_start() creates, whisper on the other for its archives.               *)
EmitAfterStart ==
  [][\A t \in Task : last'[t] # last[t] =>
       pc[t] # "new" /\ OutputOf(t) \in set_up \cup LazyStart]_vars

(* PluginBase: on_start() and on_stop() are called before and after         *)
(* running.  When the process is gone, whatever had on_start() called has   *)
(* had on_stop() called.                                                    *)
StoppedCleanly ==
  phase = "stopped" => \A t \in opened : \E i \in 1..closed : joins[i] = t

(* An exception in one plugin never leaves the daemon half alive: once a    *)
(* task has raised, the process ends.                                       *)
FailStop == hops > 0 ~> phase = "stopped"

(* Every probe is called again and again while the daemon runs.             *)
EveryProbeRuns ==
  \A p \in Probe : []<>(phase # "running" \/ Executing(ProbeTask(p)))

(* Every message is emitted: to each output of the probe that produced it,  *)
(* unless the daemon stops first.                                           *)
EveryMessageEmitted ==
  \A p \in Probe : \A t \in References(p) : \A m \in 1..MaxMsg :
    produced[p] >= m ~> (last[t] >= m \/ phase # "running")

(* What the probe queues promise their outputs: see Delivery.               *)
Deliveries == INSTANCE Delivery WITH
  Probe <- TimedProbe,
  Targets <- [p \in TimedProbe |-> Len(OutputList[p])],
  sent <- [p \in TimedProbe |-> produced[p]],
  got <- [t \in UNION {References(p) : p \in TimedProbe} |-> last[t]],
  up <- phase \in {"starting", "running"}

ImplementsDelivery == Deliveries!Spec
ImplementsFairDelivery == Deliveries!FairSpec
=============================================================================
