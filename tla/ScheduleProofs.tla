--------------------------- MODULE ScheduleProofs ---------------------------
(* Theorems about Schedule, for every interval, all durations, any number   *)
(* of cycles and any changes of the time zone.                              *)
EXTENDS Schedule, TLAPS

Slack == MaxEmit + MaxStamp
Work == Slack + MaxProbe
PutForward == [by |-> Hour, within |-> TRUE]

(* Where the time is in each part of a cycle.                               *)
TimeInv ==
  /\ InCycle \/ pc = "asleep" => cycles > 0
  /\ pc = "emit" => now = began
  /\ pc = "probe" => began <= now /\ now <= began + MaxEmit
  /\ pc = "done" => began <= now /\ now <= began + Work
  /\ pc = "asleep" => now + sleep = began + interval - shift /\ began <= now
  /\ pc = "begin" => began <= now
  /\ pc = "begin" /\ cycles > 0 =>
       /\ now >= began + interval - shift
       /\ now <= began + Work \/ now <= began + interval - shift + MaxDelay

(* The last stamp is from early in its cycle, and the next cycle is off it  *)
(* by the interval.                                                         *)
StampInv ==
  stamp # None =>
    /\ cycles > 0 /\ stamp <= now
    /\ stamp <= began + Slack
    /\ pc \in {"emit", "probe"} =>
         stamp <= began /\ began >= stamp + interval - shift - Slack

(* No cycle has seen the clock put forward, as long as none was.            *)
ClockInv ==
  ~Contains(changes, PutForward) =>
    /\ shift <= 0
    /\ InCycle => zone + began <= start

(* What the database has is one message behind what was made.               *)
StoreInv ==
  /\ pc \in {"probe", "invalid"} => queue = <<>>
  /\ queue = <<>> /\ pc # "refused" =>
       IF stamp = None THEN stored = None ELSE stored = stamp \div Second
  /\ queue # <<>> => stamp # None /\ queue = <<stamp>>
  /\ queue # <<>> /\ interval >= Second + Slack /\ ~Contains(changes, PutForward) =>
       stored < stamp \div Second

IInv == TypeOK /\ TimeInv /\ StampInv /\ ClockInv /\ StoreInv /\ RefusedOnlyWhenClose

-----------------------------------------------------------------------------
(* Facts about the parts.                                                   *)

LEMMA SpellingsGiveNumbers == \A s \in Spellings : Readable(s) => ParseInterval(s) \in Nat
BY ScheduleAssumption

LEMMA Durations ==
  /\ \A e \in EmitTimes : e \in Nat /\ e <= MaxEmit
  /\ \A b \in StampTimes : b \in Nat /\ b <= MaxStamp
  /\ \A a \in ProbeTimes : a \in Nat /\ a <= MaxProbe
  /\ \A d \in Delays : d \in Nat /\ d <= MaxDelay
  /\ MaxEmit \in Nat /\ MaxStamp \in Nat /\ MaxProbe \in Nat /\ MaxDelay \in Nat
  /\ Hour \in Nat /\ MaxCycles \in Nat
BY ScheduleAssumption

(* Numbers a second apart lie in different seconds.                         *)
LEMMA SecondsApart ==
  ASSUME NEW a \in Nat, NEW b \in Nat, b >= a + Second
  PROVE  a \div Second \in Nat /\ b \div Second \in Nat /\ a \div Second < b \div Second
BY DEF Second

LEMMA SecondsNat == \A a \in Nat : a \div Second \in Nat
BY DEF Second

LEMMA InitIInv == Init => IInv
<1> SUFFICES ASSUME Init PROVE IInv
  OBVIOUS
<1>1. TypeOK
  BY SpellingsGiveNumbers, ScheduleAssumption DEF Init, TypeOK, None, Change
<1>2. TimeInv /\ StampInv /\ StoreInv /\ RefusedOnlyWhenClose
  BY <1>1 DEF Init, TypeOK, TimeInv, InCycle, StampInv, StoreInv, RefusedOnlyWhenClose
<1>3. ClockInv
  BY <1>1 DEF Init, TypeOK, ClockInv, InCycle
<1> QED
  BY <1>1, <1>2, <1>3 DEF IInv

LEMMA TypeStep ==
  ASSUME TypeOK, TimeInv, StoreInv, [Next]_vars
  PROVE  TypeOK'
<1> USE Durations DEF TypeOK
<1>1. CASE ZoneChanges
  BY <1>1 DEF ZoneChanges, Change, InCycle
<1>2. CASE Begin
  BY <1>2 DEF Begin, clockVars
<1>3. CASE NothingToEmit
  BY <1>3 DEF NothingToEmit, clockVars
<1>4. CASE EmitAll
  <2>1. /\ Head(queue) \in Nat /\ Tail(queue) \in Seq(Nat) /\ Len(Tail(queue)) <= 1
        /\ pc' \in {"probe", "refused"}
    BY <1>4 DEF EmitAll
  <2>2. Head(queue) \div Second \in Nat
    BY <2>1, SecondsNat
  <2>3. PICK e \in EmitTimes : now' = now + e
    BY <1>4 DEF EmitAll
  <2>4. now' \in Nat
    BY <2>3
  <2> QED
    BY <1>4, <2>1, <2>2, <2>4 DEF EmitAll
<1>5. CASE Probe
  <2>1. queue = <<>>
    BY <1>5 DEF Probe, StoreInv
  <2>2. PICK before \in StampTimes, after \in ProbeTimes :
          /\ now' = now + before + after
          /\ \/ stamp' = now + before /\ queue' = Append(queue, now + before)
             \/ UNCHANGED <<stamp, queue>>
    BY <1>5 DEF Probe
  <2>3. now + before \in Nat /\ now' \in Nat
    BY <2>2
  <2>4. queue' \in Seq(Nat) /\ Len(queue') <= 1 /\ stamp' \in Nat \cup {None}
    <3>1. CASE stamp' = now + before /\ queue' = Append(<<>>, now + before)
      BY <2>3, <3>1
    <3>2. CASE UNCHANGED <<stamp, queue>>
      BY <3>2
    <3> QED
      BY <2>1, <2>2, <3>1, <3>2
  <2> QED
    BY <1>5, <2>3, <2>4 DEF Probe
<1>6. CASE Done
  BY <1>6 DEF Done, clockVars
<1>7. CASE Wake
  BY <1>7 DEF Wake
<1>8. CASE UNCHANGED vars
  BY <1>8 DEF vars, clockVars
<1> QED
  BY <1>1, <1>2, <1>3, <1>4, <1>5, <1>6, <1>7, <1>8 DEF Next

LEMMA TimeStep ==
  ASSUME TypeOK, TimeInv, [Next]_vars
  PROVE  TimeInv'
<1> USE Durations DEF TypeOK, TimeInv, Work, Slack, InCycle
<1>1. CASE ZoneChanges
  BY <1>1 DEF ZoneChanges
<1>2. CASE Begin
  BY <1>2 DEF Begin, clockVars
<1>3. CASE NothingToEmit
  BY <1>3 DEF NothingToEmit, clockVars
<1>4. CASE EmitAll
  <2>1. PICK e \in EmitTimes : now' = now + e
    BY <1>4 DEF EmitAll
  <2> QED
    BY <1>4, <2>1 DEF EmitAll
<1>5. CASE Probe
  <2>1. PICK before \in StampTimes, after \in ProbeTimes : now' = now + before + after
    BY <1>5 DEF Probe
  <2> QED
    BY <1>5, <2>1 DEF Probe
<1>6. CASE Done
  BY <1>6 DEF Done, clockVars
<1>7. CASE Wake
  <2>1. PICK late \in Delays : now' = now + sleep + late
    BY <1>7 DEF Wake
  <2> QED
    BY <1>7, <2>1 DEF Wake
<1>8. CASE UNCHANGED vars
  BY <1>8 DEF vars, clockVars
<1> QED
  BY <1>1, <1>2, <1>3, <1>4, <1>5, <1>6, <1>7, <1>8 DEF Next

LEMMA StampStep ==
  ASSUME TypeOK, TimeInv, StampInv, [Next]_vars
  PROVE  StampInv'
<1> USE Durations DEF TypeOK, TimeInv, StampInv, Work, Slack, None, InCycle
<1>1. CASE ZoneChanges
  BY <1>1 DEF ZoneChanges
<1>2. CASE Begin
  BY <1>2 DEF Begin, clockVars
<1>3. CASE NothingToEmit
  BY <1>3 DEF NothingToEmit, clockVars
<1>4. CASE EmitAll
  <2>1. PICK e \in EmitTimes : now' = now + e
    BY <1>4 DEF EmitAll
  <2> QED
    BY <1>4, <2>1 DEF EmitAll
<1>5. CASE Probe
  <2>1. PICK before \in StampTimes, after \in ProbeTimes :
          /\ now' = now + before + after
          /\ \/ stamp' = now + before /\ queue' = Append(queue, now + before)
             \/ UNCHANGED <<stamp, queue>>
    BY <1>5 DEF Probe
  <2>2. now <= now' /\ now <= now + before /\ now + before <= now'
    BY <2>1
  <2>3. CASE stamp' = now + before
    <3>1. pc = "probe" /\ pc' = "done" /\ cycles' = cycles /\ began' = began
      BY <1>5 DEF Probe
    <3> QED
      BY <1>5, <2>2, <2>3, <3>1
  <2>4. CASE stamp' = stamp
    BY <1>5, <2>2, <2>4 DEF Probe
  <2>5. stamp' = now + before \/ stamp' = stamp
    BY <2>1
  <2> QED
    BY <2>3, <2>4, <2>5
<1>6. CASE Done
  BY <1>6 DEF Done, clockVars
<1>7. CASE Wake
  <2>1. PICK late \in Delays : now' = now + sleep + late
    BY <1>7 DEF Wake
  <2> QED
    BY <1>7, <2>1 DEF Wake
<1>8. CASE UNCHANGED vars
  BY <1>8 DEF vars, clockVars
<1> QED
  BY <1>1, <1>2, <1>3, <1>4, <1>5, <1>6, <1>7, <1>8 DEF Next

LEMMA ClockStep ==
  ASSUME TypeOK, ClockInv, [Next]_vars
  PROVE  ClockInv'
<1> USE Durations DEF TypeOK, ClockInv, InCycle
<1>1. CASE ZoneChanges
  <2>1. PICK by \in {Hour, -Hour} :
          zone' = zone + by /\ changes' = Append(changes, [by |-> by, within |-> InCycle])
    BY <1>1 DEF ZoneChanges
  <2>2. [by |-> by, within |-> InCycle] \in Change
    BY <2>1 DEF Change
  <2> SUFFICES ASSUME ~Contains(changes', PutForward)
               PROVE  shift' <= 0 /\ (InCycle' => zone' + began' <= start')
    OBVIOUS
  <2>3. ~Contains(changes, PutForward) /\ [by |-> by, within |-> InCycle] # PutForward
    BY <2>1, <2>2 DEF Contains
  <2>4. InCycle => by <= 0
    <3>1. ASSUME InCycle, by = Hour PROVE FALSE
      <4>1. InCycle = TRUE
        BY <3>1
      <4> QED
        BY <2>3, <3>1, <4>1 DEF PutForward
    <3> QED
      BY <2>1, <3>1
  <2>5. pc' = pc /\ shift' = shift /\ began' = began /\ start' = start
    BY <1>1 DEF ZoneChanges
  <2>6. by \in Int /\ zone' = zone + by
    BY <2>1
  <2>7. shift <= 0 /\ (InCycle => zone + began <= start)
    BY <2>3
  <2> QED
    BY <2>4, <2>5, <2>6, <2>7
<1>2. CASE Begin
  BY <1>2 DEF Begin, clockVars
<1>3. CASE NothingToEmit
  BY <1>3 DEF NothingToEmit, clockVars
<1>4. CASE EmitAll
  BY <1>4 DEF EmitAll
<1>5. CASE Probe
  BY <1>5 DEF Probe
<1>6. CASE Done
  BY <1>6 DEF Done, clockVars
<1>7. CASE Wake
  BY <1>7 DEF Wake
<1>8. CASE UNCHANGED vars
  BY <1>8 DEF vars, clockVars
<1> QED
  BY <1>1, <1>2, <1>3, <1>4, <1>5, <1>6, <1>7, <1>8 DEF Next

(* The step that makes the next message: it is in a later second.           *)
LEMMA StampAdvances ==
  ASSUME TypeOK, StampInv, ClockInv, TimeInv, pc = "probe", stamp # None,
         interval >= Second + Slack, ~Contains(changes, PutForward),
         NEW before \in StampTimes
  PROVE  stamp \div Second < (now + before) \div Second
<1>1. stamp \in Nat /\ now + before \in Nat /\ shift <= 0 /\ shift \in Int
  BY Durations DEF TypeOK, ClockInv
<1>2. began <= now /\ began >= stamp + interval - shift - Slack
  BY DEF StampInv, TimeInv
<1>3. now + before >= stamp + Second
  BY <1>1, <1>2, Durations DEF TypeOK, Slack, Second
<1> QED
  BY <1>1, <1>3, SecondsApart

LEMMA StoreStep ==
  ASSUME TypeOK, TimeInv, StampInv, ClockInv, StoreInv, [Next]_vars
  PROVE  StoreInv'
<1> USE DEF StoreInv
<1>1. CASE ZoneChanges
  <2>1. PICK by \in {Hour, -Hour} : changes' = Append(changes, [by |-> by, within |-> InCycle])
    BY <1>1 DEF ZoneChanges
  <2>2. ~Contains(changes', PutForward) => ~Contains(changes, PutForward)
    BY <2>1 DEF Contains, TypeOK, Change, InCycle
  <2> QED
    BY <1>1, <2>2 DEF ZoneChanges
<1>2. CASE Begin
  BY <1>2 DEF Begin, clockVars
<1>3. CASE NothingToEmit
  BY <1>3 DEF NothingToEmit, clockVars
<1>4. CASE EmitAll
  <2>1. queue = <<stamp>> /\ stamp # None /\ queue' = <<>> /\ stamp' = stamp
        /\ Head(queue) = stamp
    BY <1>4 DEF EmitAll
  <2>2. pc' = "refused" \/ (pc' = "probe" /\ stored' = stamp \div Second)
    BY <1>4, <2>1 DEF EmitAll
  <2> QED
    BY <2>1, <2>2
<1>5. CASE Probe
  <2>1. queue = <<>> /\ pc = "probe" /\ pc' = "done" /\ stored' = stored
        /\ interval' = interval /\ changes' = changes
    BY <1>5 DEF Probe
  <2>2. PICK before \in StampTimes :
          \/ stamp' = now + before /\ queue' = Append(queue, now + before)
          \/ UNCHANGED <<stamp, queue>>
    BY <1>5 DEF Probe
  <2>3. CASE stamp' = now + before /\ queue' = Append(queue, now + before)
    <3>1. now + before \in Nat
      BY Durations DEF TypeOK
    <3>2. (now + before) \div Second \in Nat
      BY <3>1, SecondsNat
    <3>3. queue' = <<stamp'>> /\ stamp' # None
      <4>1. queue' = Append(<<>>, stamp') /\ stamp' \in Nat
        BY <2>1, <2>3, <3>1
      <4>2. Append(<<>>, stamp') = <<stamp'>>
        BY <4>1
      <4>3. stamp' # None
        BY <4>1 DEF None
      <4> QED
        BY <4>1, <4>2, <4>3
    <3>4. interval >= Second + Slack /\ ~Contains(changes, PutForward) =>
            stored < stamp' \div Second
      <4>1. CASE stamp = None
        BY <2>1, <2>3, <3>2, <4>1 DEF None
      <4>2. CASE stamp # None
        BY <2>1, <2>3, <4>2, StampAdvances
      <4> QED
        BY <4>1, <4>2
    <3> QED
      BY <2>1, <3>3, <3>4
  <2>4. CASE UNCHANGED <<stamp, queue>>
    BY <2>1, <2>4
  <2> QED
    BY <2>2, <2>3, <2>4
<1>6. CASE Done
  BY <1>6 DEF Done, clockVars
<1>7. CASE Wake
  BY <1>7 DEF Wake
<1>8. CASE UNCHANGED vars
  BY <1>8 DEF vars, clockVars
<1> QED
  BY <1>1, <1>2, <1>3, <1>4, <1>5, <1>6, <1>7, <1>8 DEF Next

LEMMA RefusedStep ==
  ASSUME TypeOK, StoreInv, RefusedOnlyWhenClose, [Next]_vars
  PROVE  RefusedOnlyWhenClose'
<1> USE DEF RefusedOnlyWhenClose
<1>1. CASE EmitAll
  <2>1. queue = <<stamp>> /\ stamp # None /\ Head(queue) = stamp
    BY <1>1 DEF EmitAll, StoreInv
  <2>2. pc' = "refused" => ~(stamp \div Second > stored)
    BY <1>1, <2>1 DEF EmitAll
  <2>3. stamp \div Second \in Nat /\ stored \in Int
    BY <2>1, SecondsNat DEF TypeOK, None
  <2>4. queue # <<>>
    BY <2>1
  <2>5. interval >= Second + Slack /\ ~Contains(changes, PutForward) =>
          stamp \div Second > stored
    BY <2>3, <2>4 DEF StoreInv
  <2>6. interval' = interval /\ changes' = changes
    BY <1>1 DEF EmitAll
  <2> QED
    BY <2>2, <2>5, <2>6, Durations DEF Slack, Second, TypeOK, PutForward
<1>2. CASE ZoneChanges
  BY <1>2 DEF ZoneChanges
<1>3. CASE Begin \/ NothingToEmit \/ Probe \/ Done \/ Wake
  BY <1>3 DEF Begin, NothingToEmit, Probe, Done, Wake
<1>4. CASE UNCHANGED vars
  BY <1>4 DEF vars, clockVars
<1> QED
  BY <1>1, <1>2, <1>3, <1>4 DEF Next

LEMMA Inductive ==
  ASSUME IInv, [Next]_vars
  PROVE  IInv'
BY TypeStep, TimeStep, StampStep, ClockStep, StoreStep, RefusedStep DEF IInv

(* The inductive invariant: where time can be within a cycle of _run, and   *)
(* which messages the queue, the output and the database then have.         *)
THEOREM IInvHolds == Spec => []IInv
<1>1. Init => IInv
  BY InitIInv
<1>2. IInv /\ [Next]_vars => IInv'
  BY Inductive
<1> QED
  BY <1>1, <1>2, PTL DEF Spec

(* Every variable keeps its type: sleeptime in particular is never          *)
(* negative, whatever the time zone does.                                   *)
THEOREM ScheduleTypeCorrect == Spec => []TypeOK
<1>1. IInv => TypeOK
  BY DEF IInv
<1> QED
  BY <1>1, IInvHolds, PTL

(* The database refuses a message only if the interval is too short for it, *)
(* or a clock was put forward in the middle of a cycle.                     *)
THEOREM RefusedOnlyThen == Spec => []RefusedOnlyWhenClose
<1>1. IInv => RefusedOnlyWhenClose
  BY DEF IInv
<1> QED
  BY <1>1, IInvHolds, PTL

(* A cycle begins one interval after the one before, plus what the cycle    *)
(* takes beyond it, minus a change of the time zone within it.              *)
THEOREM PeriodIsKept == Spec => PeriodKept
<1> DEFINE A == pc = "begin" /\ pc' = "emit" /\ cycles > 0 =>
                  /\ began' >= began + interval - shift
                  /\ \/ began' <= began + MaxEmit + MaxStamp + MaxProbe
                     \/ began' <= began + interval - shift + MaxDelay
<1>1. IInv /\ [Next]_vars => [A]_vars
  <2> SUFFICES ASSUME IInv, Next PROVE A
    OBVIOUS
  <2>1. CASE Begin
    BY <2>1, Durations DEF Begin, IInv, TypeOK, TimeInv, Work, Slack
  <2>2. CASE ~Begin
    BY <2>2 DEF Next, ZoneChanges, NothingToEmit, EmitAll, Probe, Done, Wake
  <2> QED
    BY <2>1, <2>2
<1> QED
  BY <1>1, IInvHolds, PTL DEF Spec, PeriodKept

(* Two messages are an interval apart, less what may vary within a cycle    *)
(* and a change of the time zone.                                           *)
THEOREM StampsAreApart == Spec => StampsApart
<1> DEFINE A == stamp # None /\ stamp' # stamp =>
                  stamp' >= stamp + interval - shift - MaxEmit - MaxStamp
<1>1. IInv /\ [Next]_vars => [A]_vars
  <2> SUFFICES ASSUME IInv, Next, stamp # None, stamp' # stamp
               PROVE  stamp' >= stamp + interval - shift - MaxEmit - MaxStamp
    OBVIOUS
  <2>1. Probe
    BY DEF Next, ZoneChanges, Begin, NothingToEmit, EmitAll, Done, Wake, clockVars
  <2>2. PICK before \in StampTimes : stamp' = now + before /\ before \in Nat
    BY <2>1, Durations DEF Probe
  <2>3. began <= now /\ began >= stamp + interval - shift - Slack
    BY <2>1 DEF Probe, IInv, TimeInv, StampInv
  <2> QED
    BY <2>2, <2>3, Durations DEF IInv, TypeOK, Slack, None
<1> QED
  BY <1>1, IInvHolds, PTL DEF Spec, StampsApart
=============================================================================
