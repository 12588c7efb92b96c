------------------------------ MODULE Schedule ------------------------------
(***************************************************************************)
(* TimedProbe._run in time: how long a cycle sleeps, when the next one     *)
(* begins, what the time stamps of messages are, and what a round robin    *)
(* database, which takes one value a second, makes of them.                *)
(*                                                                         *)
(* `now` is the time since the epoch, in milliseconds; datetime.now(),     *)
(* which _run measures a cycle with, is off by the time zone, and that may *)
(* change at any moment (daylight saving); utcnow(), for `ts`, is `now`.   *)
(***************************************************************************)
EXTENDS Integers, Sequences, SequencesExt

CONSTANTS
  Spellings,   \* values of `interval` in the config to try
  Starts,      \* times to begin at
  EmitTimes,   \* how long emitting a message may take
  StampTimes,  \* how long probe() may take until new_message() sets `ts`
  ProbeTimes,  \* how long probe() may take after that
  Delays,      \* how late the loop may be to wake the probe
  MaxEmit, MaxStamp, MaxProbe, MaxDelay,  \* bounds of these four sets
  Hour,        \* by how much the time zone changes
  MaxChanges,  \* bound: changes of the time zone
  MaxCycles    \* bound: cycles

Second == 1000
None == -1

(* A spelling is what the string falls apart into: numbers with the letters *)
(* that follow, "" if none do.                                              *)
UnitOf == [ms |-> 1, s |-> Second, m |-> 60 * Second, h |-> 3600 * Second,
           d |-> 86400 * Second]

(* findall() passes over a number without letters.                          *)
Matches(spelling) == SelectSeq(spelling, LAMBDA token : token.unit # "")

Readable(spelling) == \A i \in 1..Len(spelling) :
                        spelling[i].unit \in DOMAIN UnitOf \cup {""}

ParseInterval(spelling) ==
  FoldLeft(LAMBDA total, token : total + token.count * UnitOf[token.unit],
           0, Matches(spelling))

ASSUME ScheduleAssumption ==
  /\ \A s \in Spellings : Readable(s) => ParseInterval(s) \in Nat
  /\ Starts \subseteq Nat
  /\ EmitTimes \subseteq 0..MaxEmit /\ MaxEmit \in Nat
  /\ StampTimes \subseteq 0..MaxStamp /\ MaxStamp \in Nat
  /\ ProbeTimes \subseteq 0..MaxProbe /\ MaxProbe \in Nat
  /\ Delays \subseteq 0..MaxDelay /\ MaxDelay \in Nat
  /\ Hour \in Nat /\ MaxChanges \in Nat /\ MaxCycles \in Nat

VARIABLES
  interval,  \* self.interval
  now,       \* the time
  zone,      \* local time less `now`
  changes,   \* the changes of the time zone so far, and whether within a cycle
  pc,        \* where the coroutine is, or how it ended
  cycles,    \* cycles begun
  start,     \* local time at which the cycle began
  began,     \* the time at which the cycle began
  shift,     \* by how much the zone changed within the last cycle to finish
  queue,     \* the messages in the emission queue: their ts
  stamp,     \* ts of the last message made, or None
  stored,    \* the second of the last value in the database, or None
  sleep      \* sleeptime

clockVars == <<now, zone, changes>>
vars == <<interval, clockVars, pc, cycles, start, began, shift, queue, stamp,
          stored, sleep>>

Change == [by : {Hour, -Hour}, within : BOOLEAN]

TypeOK ==
  /\ interval \in Nat
  /\ now \in Nat /\ zone \in Int /\ changes \in Seq(Change)
  /\ pc \in {"begin", "emit", "probe", "done", "asleep", "invalid", "refused"}
  /\ cycles \in 0..MaxCycles
  /\ start \in Int /\ began \in Nat /\ shift \in Int
  /\ queue \in Seq(Nat) /\ Len(queue) <= 1
  /\ stamp \in Nat \cup {None} /\ stored \in Nat \cup {None}
  /\ sleep \in Nat

(* TimedProbe.__init__: a unit that parse_interval does not know raises.    *)
Init ==
  /\ \E spelling \in Spellings :
       IF Readable(spelling)
       THEN interval = ParseInterval(spelling) /\ pc = "begin"
       ELSE interval = 0 /\ pc = "invalid"
  /\ now \in Starts /\ zone \in {0, Hour} /\ changes = <<>>
  /\ cycles = 0 /\ start = now + zone /\ began = now /\ shift = 0
  /\ queue = <<>> /\ stamp = None /\ stored = None /\ sleep = 0

-----------------------------------------------------------------------------
InCycle == pc \in {"emit", "probe", "done"}

(* Daylight saving begins or ends.                                          *)
ZoneChanges ==
  /\ pc \notin {"invalid", "refused"} /\ Len(changes) < MaxChanges
  /\ \E by \in {Hour, -Hour} :
       /\ zone' = zone + by
       /\ changes' = Append(changes, [by |-> by, within |-> InCycle])
  /\ UNCHANGED <<interval, now, pc, cycles, start, began, shift, queue, stamp,
                 stored, sleep>>

(* Mutant: `start` is taken once, ahead of the loop.                        *)
Begin_StartOnce ==
  /\ pc = "begin" /\ cycles < MaxCycles
  /\ pc' = "emit" /\ cycles' = cycles + 1
  /\ began' = now
  /\ UNCHANGED <<interval, clockVars, start, shift, queue, stamp, stored, sleep>>

Begin ==
  /\ pc = "begin" /\ cycles < MaxCycles
  /\ pc' = "emit" /\ cycles' = cycles + 1
  /\ start' = now + zone /\ began' = now
  /\ UNCHANGED <<interval, clockVars, shift, queue, stamp, stored, sleep>>

NothingToEmit ==
  /\ pc = "emit" /\ queue = <<>>
  /\ pc' = "probe"
  /\ UNCHANGED <<interval, clockVars, cycles, start, began, shift, queue,
                 stamp, stored, sleep>>

(* emit_all, to an rrd output: its ts is cut to seconds, and rrdtool raises *)
(* for a second that it has a value for.                                    *)
EmitAll ==
  /\ pc = "emit" /\ queue # <<>>
  /\ queue' = Tail(queue)
  /\ \E e \in EmitTimes : now' = now + e
  /\ LET second == Head(queue) \div Second
     IN IF second > stored THEN pc' = "probe" /\ stored' = second
                           ELSE pc' = "refused" /\ UNCHANGED stored
  /\ UNCHANGED <<interval, zone, changes, cycles, start, began, shift, stamp, sleep>>

(* probe() and queue_emission(); probe() may return no data.                *)
Probe ==
  /\ pc = "probe" /\ pc' = "done"
  /\ \E before \in StampTimes, after \in ProbeTimes :
       /\ now' = now + before + after
       /\ \/ stamp' = now + before /\ queue' = Append(queue, now + before)
          \/ UNCHANGED <<stamp, queue>>
  /\ UNCHANGED <<interval, zone, changes, cycles, start, began, shift, stored, sleep>>

(* Mutant: sleeptime whatever has elapsed.                                  *)
Done_AlwaysSleeps ==
  LET elapsed == now + zone - start
  IN /\ pc = "done" /\ pc' = "asleep"
     /\ shift' = zone + began - start
     /\ sleep' = interval - elapsed
     /\ UNCHANGED <<interval, clockVars, cycles, start, began, queue, stamp, stored>>

(* Mutant: the whole interval, whatever has elapsed.                        *)
Done_FullInterval ==
  LET elapsed == now + zone - start
  IN /\ pc = "done"
     /\ shift' = zone + began - start
     /\ IF elapsed > interval THEN pc' = "begin" /\ UNCHANGED sleep
                              ELSE pc' = "asleep" /\ sleep' = interval
     /\ UNCHANGED <<interval, clockVars, cycles, start, began, queue, stamp, stored>>

(* Mutant: the branches of the comparison swapped.                          *)
Done_Swapped ==
  LET elapsed == now + zone - start
  IN /\ pc = "done"
     /\ shift' = zone + began - start
     /\ IF elapsed <= interval THEN pc' = "begin" /\ UNCHANGED sleep
                               ELSE pc' = "asleep" /\ sleep' = 0
     /\ UNCHANGED <<interval, clockVars, cycles, start, began, queue, stamp, stored>>

(* The end of the cycle, in local time.                                     *)
Done ==
  LET elapsed == now + zone - start
  IN /\ pc = "done"
     /\ shift' = zone + began - start
     /\ IF elapsed > interval THEN pc' = "begin" /\ UNCHANGED sleep
                              ELSE pc' = "asleep" /\ sleep' = interval - elapsed
     /\ UNCHANGED <<interval, clockVars, cycles, start, began, queue, stamp, stored>>

(* The loop's own clock knows no time zone.                                 *)
Wake ==
  /\ pc = "asleep" /\ pc' = "begin"
  /\ \E late \in Delays : now' = now + sleep + late
  /\ UNCHANGED <<interval, zone, changes, cycles, start, began, shift, queue,
                 stamp, stored, sleep>>

Next == ZoneChanges \/ Begin \/ NothingToEmit \/ EmitAll \/ Probe \/ Done \/ Wake

Spec == Init /\ [][Next]_vars

-----------------------------------------------------------------------------
(* A cycle begins one interval after the one before, later only by what the *)
(* cycle took beyond the interval and by the loop's delay; but a change of  *)
(* the time zone within a cycle moves the next one by as much.              *)
PeriodKept ==
  [][pc = "begin" /\ pc' = "emit" /\ cycles > 0 =>
       /\ began' >= began + interval - shift
       /\ \/ began' <= began + MaxEmit + MaxStamp + MaxProbe
          \/ began' <= began + interval - shift + MaxDelay]_vars

(* Two messages are an interval apart, less what came before new_message()  *)
(* in the first one's cycle, and less a change of the zone.                 *)
StampsApart ==
  [][stamp # None /\ stamp' # stamp =>
       stamp' >= stamp + interval - shift - MaxEmit - MaxStamp]_vars

(* The database takes every message of a probe that runs at least a second, *)
(* and what emit and probe may take, apart, until a clock is put forward in *)
(* the middle of a cycle.                                                   *)
RefusedOnlyWhenClose ==
  pc = "refused" => \/ interval < Second + MaxEmit + MaxStamp
                    \/ Contains(changes, [by |-> Hour, within |-> TRUE])
=============================================================================
