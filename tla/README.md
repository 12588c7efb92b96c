# vaping in TLA+

A verification project for [vaping](../src/README.md), a daemon that probes
hosts and files at intervals and hands what it finds to outputs. The modules
are written from the code under `src/src/`; this file says what they model,
what model checking and proof show about it, and what is left out.

In what follows `daemon.py`, `io.py`, `cli.py` and `plugins/...` are files of
`src/src/vaping/`.

## 1. Inventory

| Component | State it keeps | Operations | Talks to |
|---|---|---|---|
| Daemon process (`daemon.py`, `io.py`) | `joins`, the pid file object, the event loop | `_main`, `run`, `_exec`, `join_plugins` | plugin registry, every plugin's `start`, `_run`, `on_stop` |
| Probe coroutines (`plugins/__init__.py:173-295`) | `_emit`, `_emit_queue`, `run_level` | `_run` of `ProbeBase`, `TimedProbe`, `FileProbe`; `queue_emission`, `send_emission`, `emit_all` | the loop (`sleep`), each output's `emit` |
| CLI and pid file (`cli.py`, `daemon.py:134-138, 220-257`) | the pid file, on disk | `start`, `start -d`, `stop`, `restart` | other vaping processes, by lock and SIGTERM |
| `FileProbe` (`plugins/__init__.py:298-432`) | file handle, its position and buffer | `__init__`, `validate_file_handler`, `probe` | programs that write and rotate the file |
| `LogParse` (`plugins/logparse.py`) | `stack` of messages not yet aggregated | `process_line`, `process_messages`, `aggregate` | called by `FileProbe.probe` |
| fping, fping_mtr (`plugins/fping.py`, `fping_mtr.py`), Rust ping (`src/lib.rs`) | hosts, per-host statistics | `probe`, `parse_verbose`, `ping_host` | external commands |
| command probe (`plugins/command.py`) | hosts | `probe` | external commands |
| Time series outputs (`TimeSeriesDB`, rrd, whisper, graphite) | databases on disk or elsewhere | `emit`, `create`, `update` | shared files |
| zeromq, vodka, prometheus outputs | socket; `_is_started`; counters | `on_start`, `emit`, lazy `start` | network, other libraries |
| Plugin registry (`__init__.py`) | instances, in the external `pluginmgr` | `get_probe`, `get_output`, `exists` | `_main`, vodka |
| Configuration (`config/`, `Vaping.__init__`) | config tree | defaults, checks, `parse_interval` | everything |
| asyncio backport | none of its own | `run` | Python 3.6 only, which the package no longer supports |

How they interact: `_main` walks the config, fetches each probe and its outputs
from the registry, starts them, links outputs into the probe's `_emit`, and
makes one asyncio task per element of `joins`. From then on there is one
thread. A probe's task has it until it suspends in `sleep()`; `emit()` runs
inside the probe's task. The process ends when any task raises (`gather`),
when SIGINT or SIGTERM comes, or by a crash. Other vaping processes meet it
only at the pid file.

What is hard here:

- *Cooperative scheduling*: `await` on an unlimited queue does not suspend, a
  coroutine called without `await` never runs, a probe that overruns its
  interval never sleeps.
- *A cycle's delay*: `TimedProbe` emits at the start of the next cycle what
  this one has found, so every way down meets a queue with something in it.
- *Failure*: the first exception of any plugin ends everything, but over a few
  loop turns during which other tasks still run.
- *Races between processes*: commands at the pid file; writers of a log file
  between two system calls of the probe.
- *Batching*: lines come in batches cut anywhere and leave in groups of `count`.
- *Clocks*: a cycle is measured in local time, its sleep by the loop's clock,
  its messages are stamped in UTC and a database cuts the stamp to seconds.
- *Shared objects*: one output object serves several probes and is joined for
  each; graphite outputs share one sender; vodka looks all probes up again.

What makes each component correct: for the daemon, bounded queues, bounded
loss, order, start before emit, fail-stop, fairness between probes, on_stop
calls; for commands, one daemon per home directory and a pid file that finds it;
for `FileProbe`, no byte twice or out of order, whole lines, catching up; for
`LogParse`, conservation of lines and consistent eval fields; for ping
statistics, agreement of the two implementations and counters that add up; for
the schedule of a timed probe, how far apart cycles and stamps are; for outputs,
that they are set up before they are used, that values are kept apart, and that
what was opened is given back.

## 2. The modules

| Module | What it is |
|---|---|
| `Daemon` | one vaping process from `_main` to its end |
| `Delivery` | what a timed probe's queue promises to the outputs, without loop or queue; `Daemon` implements it |
| `DaemonProofs` | theorems about `Daemon`: delivery, then startup, loop and shutdown |
| `Lifecycle` | commands as processes that race for the pid file |
| `LifecycleProofs` | theorems about `Lifecycle` |
| `FileProbe` | one `FileProbe` and the programs that change its file |
| `FileProbeProofs` | theorems about `FileProbe` |
| `Ping` | fping, fping_mtr, the Rust extension and the Prometheus output: statistics of pings |
| `PingProofs` | theorems about `Ping` |
| `LogParse` | `LogParse` from the lines of a batch to aggregated messages |
| `LogParseProofs` | theorems about `LogParse` |
| `Schedule` | one timed probe in time: `parse_interval`, the cycle, its clocks, the stamps and an rrd output |
| `ScheduleProofs` | theorems about `Schedule` |
| `Outputs` | the composition: registry, connect loop, `start()` and `on_start()`, and what zeromq, vodka, prometheus, rrd, whisper and graphite do with messages |
| `OutputsProofs` | theorems about `Outputs` |
| `ListFacts` | what the proofs need of folds, concatenations and least numbers |
| `MC...` | constant definitions for TLC; one per component |

### Daemon

A *task* is an element of `joins`: `<<p, 0>>` is the p-th probe, `<<p, j>>` the
j-th output reference of its config. A shared output has one task for each
reference, as in the code.

| Variables | Code |
|---|---|
| `cursor`, `joins`, `emitters`, `started`, `set_up` | the two loops of `_main`; `Vaping.joins`; `probe._emit`; the attribute `started`; whether `start()` was called |
| `ready`, `sleeping`, `current`, `pc`, `hops` | the loop's queue; timers; who has the thread (`Main`: the loop); where each coroutine is; loop turns since the first exception |
| `opened`, `closed` | tasks with `on_start()` called; how many of `joins` had `on_stop()` called |
| `queue`, `produced`, `last` | `_emit_queue`; messages `probe()` has returned; the last message each output reference was handed |

Actions: startup is `ConnectOutput`, `StartProbe`, `JoinPlugins`,
`RaiseInStartup`; the loop is `Dispatch`, `Wake`, `UnwindStep`, `Teardown`;
coroutines are `RunOutput`, `Begin`, `SendEmission`, `RaiseInEmit`, `EndEmit`,
`Data`, `NoData`, `RaiseInProbe`, `Sleep`, `Overrun`, `RaiseInOnStart`; the end is
`OnStop`, `RaiseInOnStop`, `Exit`; from outside come `Sigint` and `Sigterm`.

`Kind[p]` chooses the `_run` a probe inherits: `"timed"` drains its queue with
`emit_all` before each `probe()`, `"plain"` (`ProbeBase`) calls `on_start()` and
drops the coroutine of `send_emission()`, `"file"` does the latter and queues a
list. `foreground` chooses `run()` or `_exec()`: only the first has a `finally`
with `on_stop()` calls, and only the second a handler for SIGTERM.

An exception takes three loop turns to stop the loop (the task's done callback,
the wakeup of `run_plugins`, the callback that stops the loop), then the loop
finishes its batch; `UnwindStep` and `Teardown` let other tasks run in between,
also ones that raise again.

`Sigint` and `Sigterm` take a running process; a SIGINT that comes when it is
already on its way down (fault `"late_sigint"`) cuts the unwinding or the
`on_stop()` calls short.

Abstractions: messages are numbers; time is only whether a cycle overran; Python
exceptions are the set `Faults`; outputs without `emit()` do not exist, as
`get_output` refuses them.

### Lifecycle

`at[c]` is the stage of command c's process, `lock` the holder of the pid file,
`file` what can be read in it, `target[c]` the pid a stop has read. `stop`
itself takes the lock for a moment (`probing`, `probed`, `reporting`), and on
failure reads the file and kills (`reading`, `killing`). SIGTERM makes a
detached daemon in `_main` leave its `with`; in any other stage, and to a
foreground daemon or a CLI process, it is the end. The pid library is external:
a lock that fails at once and dies with its holder, a write of the pid after it,
and the removal of the file together with the release, which is taken as one
step. `Failing` are the commands whose daemon may leave `_main` by itself, as a
plugin raises; all others stay until SIGTERM, which is what the run of a restart
is about.

### FileProbe

Bytes are numbered in the order in which they were written, so properties can
speak of order and repetition. `Reopen`, `Fstat`, `Stat` and `Read` are the
system calls of one `probe()`; writers act between any two of them. `version`
stands for everything `stat()` tells. `Read` includes the handle's read-ahead
and what `readlines(hint)` does: it returns whole lines until more than `hint`
bytes are returned. `returned` keeps the bytes of each call that gave any.

A scenario says which bytes are newlines in the file that the probe finds when it
is created (`Log`), so the backlog, a number of bytes, starts before the first of
them, between two lines or, which is the usual case, in the middle of one. That a
byte is `cut` is for the property `WholeLines` only: a `write()` ended there, or the
backlog starts behind it.

### LogParse

Lines are numbers. What becomes of a line in `process_line` is an input (`Line`:
excluded, not included, a field not found, no time, good). Four fields stand for
the kinds of aggregation: a sum, an average, none (the last value) and an eval of
two others. `config` also says what `type` the numeric fields have: a builtin
(`"int"`), one with a `validate_*` method (`"interval"`), or none, which leaves
text; whether the eval can divide by zero; and which odd lines the log may hold
(`OddLine`): one in which the group of a field takes no part in the match, whose
`None` only the second loop of `parse_line` stumbles over, outside its `try`, and one
that is not in the file's encoding, on which `readlines()` raises. `Probe` is a batch up to the loop of
`aggregate`, `Aggregate` one turn of the loop. The code aggregates after it has
formed all groups of a call; `rv` keeps what one call makes together, and
`RaiseInAggregate` takes the groups off the stack before it raises. An exception
out of `probe()` ends the daemon (`FailStop` of `Daemon`), here `pc = "dead"`. A
config's `fields` is a dict, so each order of `Orders` names every field once.
`AssignFields` is one of the two loops of `aggregate_message`.

### Schedule

`now` is the time since the epoch, `zone` what local time is ahead of it; the
zone changes at any moment. `start` is `datetime.now()` at the top of `_run`'s loop,
so `elapsed` in `Done` is off by a change within the cycle; `shift` remembers by how
much, for the properties. `Wake` is the loop's monotonic clock. `EmitAll` is an
output that cuts the stamp to a second, as `rrd.py:53` does. Spellings of
intervals are sequences of numbers with their letters, which is what the regular
expression of `parse_interval` makes of a string: it passes over a number without
a unit, so the spelling `90` gives 0 seconds and is not refused (the docstring's `90`
is the number of seconds that `1m30s` is converted to).

### Outputs

`objects` are plugin objects in the order in which they are made and `instance` is
the registry. `Instantiate` and `CheckNames` are the end of `Vaping.__init__`;
`GetProbe`, `GetOutput`, `StartProbe` and `Connected` the loops of `_main`; `OnStart`
begins one task after the other. A timed probe's cycle is `EmitAll`, which takes up
the message of the cycle before (`todo`: each output in turn, by `EmitZeroMQ`,
`EmitPrometheus`, `EmitVodka` or, row after row, `EmitRow`), and then `Message`, the
call of `probe()` that makes the next one (`last`) or none. `Tick` sets the clock to any
second: messages of a probe may have the same second or an earlier one than the
last, and `hasty` remembers which probes had that; how it comes about is in
`Schedule`. Between cycles the thread is the loop's (`turn = 0`). A reference to a name that no plugin has
makes a nameless output of that type with an empty config, which most types
refuse. `sockets` outlive the objects' references to them: whether a zeromq object
that opens a second one drops the first at once is up to the garbage collector,
hence both. A second prometheus output finds the port of its server in use
(`PortTaken`), unless the first one was lost when the daemon detached. `values` is what databases have been given, with the series (probe,
place in the output list, host) it is about; `FileOf` fills in the file name
template, and `Metric` is graphite's `munge_filename`. Rows may be `None`, lack `cnt`,
`loss` and the stored field (`"bare"`, on which prometheus raises), lack the field
only, or have all. `config` also says whether graphsrv is installed and whether it
is `run()` or `_exec()` that runs: after an exception or a SIGINT only `run()` goes on to
the `on_stop()` calls (`Raise`), any of which may raise or be interrupted (`OnStop`);
`_exec()`, the default `start`, ends at once, as does either by SIGTERM (`Terminate`), and
an exception out of `Vaping.__init__` (`Refuse`). How the loop unwinds is in `Daemon`.
`None` is
the empty string as well as nothing at all: a nameless plugin, no address, no
error. `OutputsAssumption` says that a config gives names to plugins and probes,
and each host of a probe once, as its message has one row of it.

### Ping

`plugin` says which probe this is: an `FPing` over the hosts of its groups (`Groups`,
where one given twice takes the place of the first) or an
`FPingMTR` over the hops of a traceroute, with the Rust extension or with the
fping command. A ping is its latency or `Lost`, a fraction is a pair of numbers.
`PingOnce`, `PingBroken` and `HostDone` are `ping_host` of `src/lib.rs`, host after
host; `FpingLine` is a line of fping, which may be noise, and fping may end
before it has printed one for each host; `FpingFails` is an fping that cannot be run
or prints what is not UTF-8, which no one catches. `Finish` ends `probe()` and queues the
message; `Start` begins the next cycle with what `emit_all` and `Prometheus.emit` do with
it, and then calls `probe()` again. The last message before an exit is never emitted.
`pings` and `pinged` record what was
really pinged, for the properties to compare with. `hops` is the `data` of
`FPingMTR`'s one row.

## 3. What is checked

Every property of a passing run has a mutant in `PROJECT.json`: a plausible bug
in one definition that makes the run fail.

| Run | Shows | Bounds |
|---|---|---|
| `daemon_faults` | `TypeOK`; `BacklogBounded`, `LossBounded`: the queue of a timed probe holds at most one message's fan-out and at most the last message is missed, whatever fails; `FanOut`, the inductive invariant; `TaskHeldOnce`; `InOrder`; `EmitAfterStart`; `ImplementsDelivery` | in the foreground and detached; three probes, one of each kind, the timed one with two outputs and overrunning, one output shared; every fault; `MaxMsg = 2` |
| `daemon_live` | `EveryProbeRuns`, `ImplementsFairDelivery`; `FailStop`; `StoppedCleanly` for a foreground daemon that an exception or SIGINT ends | two timed probes sharing an output; faults up to the `on_stop` calls, SIGINT while it runs; `MaxMsg = 2` |
| `lifecycle_races` | `OneMain`, `PidFileNamesDaemon`, `LockInv`, `CommandsEnd` | one command of each kind, each may crash |
| `fileprobe_scenarios` | `InOrderOnce`, `CatchesUp`; `WholeLines`: lines are cut only where the backlog starts or a write ended, unless the file is truncated | files that are empty, shorter than the backlog, cut by it in a line or between two, or end without a newline; three events of any kind at any time, or four of writers of whole lines; `max_lines` 1, backlog 2 |
| `ping_statistics` | `StatisticsAgree`: what a row says is what a definition over single pings says, the sum of the answers included; `OneRowPerHost`; `CounterCounts`: counter and waiting message make up all pings | two hosts in overlapping groups, routes of up to three hops, two pings per host, two latencies, three cycles |
| `logparse_groups` | `NothingLost`, `EvalConsistent`; `DiesOnlyForCause`: what ends the daemon is one of five causes in config and log | seven lines of every kind in batches of up to three, `count` 0 to 3, three field orders, three types, two evals |
| `schedule_clock` | `PeriodKept`: the next cycle begins an interval after the last, but for an overrun, a late loop and a change of the time zone within the cycle; `StampsApart`; `RefusedOnlyWhenClose` | five spellings of intervals (one of them 0, one refused), cycles shorter and longer than the interval, one change of the zone, three cycles |
| `outputs_configs` | `NeverUnready`, `ValuesKeptApart`, `ValuesReachDatabase`, `SocketsGivenBack`, `VodkaStartsOnce`, `OneObjectPerName` | nineteen configurations of up to two probes and four outputs, two of them also detached; three messages; a clock that takes any of three seconds at any time; rows of each kind |

Why the bounds are enough: two messages let one wait in the queue while the
next is made, and the second cycle is where order could go wrong; two outputs
make a fan-out that can be cut in the middle; a shared output and a second
probe give the loop something to interleave. One command of each kind gives
every pair of racing stages, and a third party that crashes or kills. Three
file events give a rotation between any two calls followed by a write to
either file. Seven lines in groups of two and three leave remainders that cross
batches. Three cycles are one to make a message, one to emit it, and one to
meet the database again. Two probes are enough to share an output; three
messages let one of them write twice and the other once, and three seconds let a
message be stamped before, at or after the one that is stored. What holds within these bounds is, but for liveness,
also proved for every value of the constants (section 4).

Deadlock is not checked where a process really ends (`daemon_faults`,
`daemon_live`, `lifecycle_races`, `outputs_configs`, `logparse_groups` after an
exception, and the run of a restart), nor where a bound stops the model
(`ping_statistics` and `schedule_clock`, `MaxCycles`).

Fairness. `Daemon`: the thread takes a step when it can, and timers fire; both
are what an operating system and a clock give. No choice of a plugin (to return
data, to raise, to overrun) is fair. `Lifecycle`: processes run; nobody is
obliged to give a command, to fail or to crash. `FileProbe`: the daemon goes on
calling `probe()`; writers are under no obligation.

### Where code and documentation disagree

Each of these runs ends in a counterexample.

| Run | What it shows |
|---|---|
| `daemon_overrun` | A probe whose cycles outlast its interval never suspends (`plugins/__init__.py:291`), and the other probes are never called again. |
| `daemon_unawaited` | `send_emission()` is called without `await` (`plugins/__init__.py:347`, also 203): a `FileProbe`, hence a `LogParse`, never emits. |
| `lifecycle_restart` | The daemon stays until it is told to go; `restart` sends it SIGTERM and starts without waiting (`cli.py:107-108`), finds the pid file still locked and is refused, and no daemon is left. |
| `fileprobe_stat_race` | A write between `fstat()` and `stat()` closes the handle of a file that is still there (`plugins/__init__.py:369-379`). |

The models also show, without a run of their own:

- SIGTERM, hence `vaping stop`, ends a detached daemon without any `on_stop()`
  (`daemon.py:185-187`, against `plugins/__init__.py:96`): `StoppedCleanly` holds
  in the foreground only.
- An output that two probes share gets `on_start()` once per reference
  (`daemon.py:206`): a zeromq output with `connect` leaks a socket, one with `bind`
  may find its own address in use and end the daemon. `SocketsGivenBack` says
  that an address is found in use only so, or if two outputs have it, and that a
  foreground daemon that is not killed, and whose `on_stop()` calls are not cut
  short, leaves a socket open only so. Any other end leaves sockets to the
  operating system.
- `TimedProbe` and `FileProbe` never call a probe's `on_start()`
  (`plugins/__init__.py:273`, 343), against the class's documentation.
- `max_lines` counts bytes, as `readlines()` does (`plugins/__init__.py:396`,
  against line 312).
- All graphite outputs write to the host of the one that was started last
  (`graphite.py:55`).
- A logparse field of type `interval` or `elapsed` ends the daemon at the first
  line that matches (`logparse.py:190-198` and 163-164). So does, whatever the
  type, a line in which the group of a field takes no part in the match
  (`logparse.py:182-188` lets `None` pass, 163 does not), and one that is not in the
  encoding of the file (`plugins/__init__.py:396`).
- The counters that prometheus exports lack the last message of a probe until its
  next cycle, and at exit for good (`plugins/__init__.py:278-285`).
- A probe that makes two messages within a second, by a short interval, an overrun or
  a clock that is set back, has the second refused by rrd even if no other series
  is in the file, which ends the daemon (`rrd.py:53`; `ValuesKeptApart` names the
  cause).
- A second prometheus output without a port of its own ends the daemon before it
  runs (`prometheus.py:25-26`).
- A time zone that is put forward in the middle of a cycle can make a probe start
  its next cycle at once, and an rrd output then refuses a second value for the
  same second, which ends the daemon; put back, it makes the probe sleep for an
  hour more.

## 4. What is proved

`DaemonProofs`, for every number of probes, every output list, every mix of
kinds and faults (from `ConfigAssumption`):

- `TypeCorrect`: `Spec => []TypeOK`.
- `FanOutHolds`: `Spec => [](TypeOK /\ FanOut)`.
- `BacklogIsBounded`, `LossIsBounded`, `DeliveryInOrder`: the properties of the
  same names in the runs.
- `DaemonImplementsDelivery`: `Daemon` refines `Delivery`.

The bounds do not follow from types: that a queue is short and an output at most
one message behind depends on which message each entry carries and for whom.
`FanOut` says it. `Wiring`: `emitters[p]` is the prefix of the config's output
list that `_main` has passed. `FanOutOf(p)`: the queue of a timed probe is the
tail of the fan-out of its last message; exactly the outputs named in it lack
that message, unless the probe died in an `emit()`; and where the coroutine is
about to call `probe()` the queue is empty. Every action preserves this, one
step per action in the proof; a dead probe takes no step any more. Order and
the refinement then follow step by step: `SendEmission` is `Deliver`, `Data` is
`Send`, the moment the process stops running is `Halt`, the rest stutters.

`LifecycleProofs`, for any number of commands of any kind, any of them crashing
(from `CommandAssumption`): `LockInvHolds`, `OnlyOneMain`, `PidFileIsTheDaemons`.
`OneMain` is not inductive: it needs that exactly the stages inside a `with`
hold the lock, and that only the holder has touched the file since, which is
`LockInv`.

`ScheduleProofs`, for every interval, all durations, any number of cycles and
changes of the time zone (from `ScheduleAssumption`): `ScheduleTypeCorrect`,
`PeriodIsKept`, `StampsAreApart`, `RefusedOnlyThen`. Its inductive invariant has
four parts: `TimeInv`, where `now` can be relative to the beginning of the cycle at
each point of it; `StampInv`, that the last stamp is from early in its cycle;
`ClockInv`, that no cycle has measured too long an `elapsed` as long as no clock was
put forward within one; and `StoreInv`, that the database is exactly one message
behind. The last is why `RefusedOnlyWhenClose` is not inductive: what is refused
was stamped a cycle before.

`DaemonProofs` also proves `TaskInvHolds`, `TasksAreHeldOnce`, `EmitsAfterStart`
and `StopsCleanly`. None of these properties is inductive, and the reason they hold
is spread over startup and loop. `TaskInv` has six parts: `joins` is complete, each
reference once, outputs ahead of their probe (`JoinsInOrder`); before the loop runs no
coroutine does (`NothingRuns`); what is in an `_emit` list has been started
(`StartedFirst`); a task that has not ended has the thread, sleeps or is queued, one
of them and once (`InOnePlace`); an output task that has not begun is queued ahead
of its probe's, which has not begun either (`OutputsFirst`), the first-come order on
which "`on_start()` before `emit()`" rests; what was opened is in `joins`
(`OpenedJoined`). `StopsCleanly` has hypotheses: a foreground daemon
(`Modes = {TRUE}`), no SIGTERM, no `on_stop()` that raises, no SIGINT when the daemon
is already on its way down. Without any of the four the code does leave plugins open
(section 3).

`LifecycleProofs` has `LifecycleTypeCorrect` too.

`OutputsProofs`, for every configuration (from `OutputsAssumption`):

- `WiringHolds`, the inductive invariant: `Progress`, where the loops are and what
  has not happened before they are through; `Registry`, that a plugin keeps its name
  though vodka registers new objects; `Emitters`, whose object is at each place of an
  `_emit` list; `Joins`, that each of them is joined and started before a probe that
  emits to it; `Begun`, whose `on_start()` has made a socket; `VodkaRuns`.
- `OutputsTypeCorrect`, `OutputsAreReady`, `VodkaRunsOnce`, `NamesStandForOne` follow
  from it.
- `SocketsAreGivenBack` needs `Repeats`, that an output is twice in `joins` only if
  two places of the config name it, and `Owned`, that some object can still close
  every open socket. Its hypotheses are in the property: a foreground daemon, not
  killed, no `on_stop()` cut short, no zeromq output named twice.
- `StorageHolds` (`Sender`, `Stored`, `Waiting`, `Rows`, `Fresh`): of each stored value, which
  output and series it is of and in which file; of which hosts the message is that
  waits in a queue or is being emitted, each once; and, of a probe that is not
  `hasty`, that what is stored of a series is older than what waits. `ValuesAreStored`
  and `ValuesStayApart` follow; nothing is assumed about when messages are made.

`FileProbeProofs`, for every scenario, backlog and limit, any number of events:
`FileProbeTypeCorrect`; `BytesInOrder` from `InOrderHolds`: bytes returned, read ahead
and unread in the file that the handle has are one ascending sequence, and
in every file bytes ascend, also after a truncation; and `LinesAreWhole` from
`BetweenLines`: the end of each file, the handle's place, and both ends of what it has
read ahead are where a line ends or is cut. It holds for every initial file and every
backlog, also one that starts in the middle of a line.

`PingProofs`, for any hosts, groups, routes, number of pings, latencies and cycles
(from `PingAssumption`): `PingTypeCorrect`, `StatisticsHold`, `HostsHaveOneRow`,
`CountersCount`, from `MessagesHold`. `Messages` adds to the three properties what they
need in the middle of a cycle: `PingAgrees`, that the ping being built already says of
its log what a row will say (`Tally` relates the list of latencies, its sum included,
to the log with its losses; `sent - times.len()` on unsigned numbers cannot underflow);
`RowsOfHosts`, that rows are about different hosts of this cycle, for Rust in their
order; `Counted`, that each ping of a host is in the metrics, in one row of the message
that is being made or waits for the next cycle, or in the ping being built. What
`StatisticsAgree` compares a row with, `SaysOf`, is a definition over the log of single
pings that neither implementation shares. That `Fastest`, `Slowest`, `Sum`, `Dedupe`, `Groups` and the rest compute what
they should for lists of any length is proved as well.

`LogParseProofs`, for any log, any cut into batches, any `count` and order of the
fields (from `LogParseAssumption`): `LogParseTypeCorrect`, `NothingIsLost`,
`EvalsAreConsistent`, `OnlyCausesKill`, from `BatchesHold`. `NothingLost` alone is not
inductive: that emission k is about lines that were parsed by then (`Covered`) keeps
it true when more are parsed; `Modes` says that without a `count` nothing is ever
stacked; `EvalsAgree` extends `EvalConsistent` to the groups that `aggregate()` has not
returned yet; and `Parsable`, that no parsed line makes the eval divide by zero, is what
makes the aggregated row divisible too. The core is `AggregateMessageFacts`: over
any order of the fields the two loops of `aggregate_message` leave the sum, the mean
and the last value of *unchanged* rows in the first row, though each assignment
changes that row for the fields after it, and the eval of exactly these.

Every inductive invariant was checked by TLC on a small instance before its proof.

How lists are handled: the models compute over sequences with the folds of the
community modules, which a theorem cannot reason about by induction on an
operator. `ListFacts` proves that such a fold is a function along the sequence
(`Recursion`, `FoldingExists`, `FlattenFacts`), and lemmas then do induction over the
set of lengths for which a fact holds (`NatInductionOnSet`).

Only model-checked: every liveness property (`EveryProbeRuns`, `FailStop`,
`ImplementsFairDelivery`, `CommandsEnd`, `CatchesUp`), since the proof system
does not reason about fairness and ENABLED here. The invariants and action
properties of the runs are all proved.

## 5. What is not modelled

- *I/O and formats*: commands' pipes, HTTP, database files, regular expressions,
  time formats, logging, YAML.
- *The pid library, asyncio, the operating system*: external, modelled from how
  the code uses them.
- *The asyncio backport*: `io.py` takes it only where `asyncio` has no `run()`, before
  Python 3.7; `pyproject.toml` asks for 3.8.
- *The command probe*: I/O around an external command; its `init()` extends
  `self.hosts`, which nothing has set, so it cannot be configured with hosts.
- *Configuration schemas* (`config/schema.py`), defaults, `home_dir` and logging:
  sequential data handling before anything runs.
- *Reload of configuration*: the program has none.
- *graphsrv's groups and vodka itself*: other programs; that each probe's groups are
  handed over once is `VodkaStartsOnce`. An exception half way through the hand-over
  is taken for one before it: the daemon ends.
- *rrdtool*: refuses a value that is not later than the last one of the file; that a
  new file starts ten seconds before it is made, and refuses what is older than that,
  is left out, as is what whisper and graphite do with an old stamp.
- *Steps of the UTC clock* (NTP) in `Schedule`, where only the time zone changes; in
  `Outputs` the clock may do anything.
- *Lines that are skipped*: a handle that is opened again starts at the end, and
  `CatchesUp` counts it as caught up. The finding of `fileprobe_stat_race` is one such
  loss.
- *What a dead daemon loses*: `NothingLost` speaks of a `LogParse` that goes on;
  groups taken off its stack before the exception are gone.
- *`get()` of the time series outputs*: reads only, and nothing calls it.
- `GraphiteSchema` is never assigned to `GraphitePlugin.ConfigSchema`, so a graphite
  output without explicit `graphite_host` is given `None`; a matter of defaults, not
  of state.

## 6. Plan

Written so far, in this order: `Daemon` with `Delivery`, `Lifecycle`,
`FileProbe`, `LogParse`, `Ping`, `Schedule`, `Outputs`, and the proofs of all of them.

Next: `LogParse` over `FileProbe`, so that groups are formed over rotations, in the
place of the batches that are inputs now; stated as a refinement of an abstract
log of which each line is counted once, it follows step by step from `BytesInOrder`
and `NothingIsLost`. And theorems without the hypotheses of today: what
`StoppedCleanly` becomes when a detached daemon or a raising `on_stop()` is allowed
(which plugins are left open), and `WholeLines` under truncation, from the first line on
that was written after it.
