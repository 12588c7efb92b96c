---------------------------- MODULE DaemonProofs ----------------------------
(* Theorems about Daemon, for any number of probes, any wiring of outputs   *)
(* and any mix of faults.                                                   *)
EXTENDS Daemon, SequenceTheorems, FiniteSetTheorems, TLAPS

LEMMA TaskPairs ==
  ASSUME NEW p \in Probe, NEW j \in 0..Len(OutputList[p])
  PROVE  <<p, j>> \in Task
BY DEF Task

LEMMA ProbeTaskIsTask == \A p \in Probe : ProbeTask(p) \in Task
<1>1. TAKE p \in Probe
<1>2. Len(OutputList[p]) \in Nat
  BY ConfigAssumption
<1> QED BY <1>2, TaskPairs DEF ProbeTask

LEMMA InitTypeOK == Init => TypeOK
BY ConfigAssumption DEF Init, TypeOK

(* The steps that change nothing of the emissions.                          *)
LEMMA TypeStep ==
  ASSUME TypeOK, [Next]_vars
  PROVE  TypeOK'
<1> USE DEF TypeOK
<1>1. CASE ConnectOutput
  <2> DEFINE p == cursor[1]
             j == cursor[2]
  <2>1. /\ p \in Probe /\ p \in Nat \ {0}
        /\ j \in 1..Len(OutputList[p]) /\ j \in Nat \ {0}
    <3>1. /\ p \in Probe /\ p \in Nat \ {0} /\ j \in Nat \ {0}
          /\ j <= Len(OutputList[p])
      BY <1>1 DEF ConnectOutput
    <3>2. OutputList[p] \in Seq(Output)
      BY <3>1, ConfigAssumption
    <3>3. Len(OutputList[p]) \in Nat
      BY <3>2
    <3> QED BY <3>1, <3>3
  <2>2. <<p, j>> \in Task
    BY <2>1, TaskPairs
  <2>3. joins' \in Seq(Task) /\ emitters' \in [Probe -> Seq(Task)]
    BY <1>1, <2>1, <2>2 DEF ConnectOutput
  <2>4. OutputList[p][j] \in Output
    BY <2>1, ConfigAssumption
  <2>5. started' \subseteq Output /\ set_up' \subseteq Output
    BY <1>1, <2>4 DEF ConnectOutput
  <2>6. cursor' \in (Nat \ {0}) \X (Nat \ {0})
    <3>1. cursor' = <<p, j + 1>>
      BY <1>1 DEF ConnectOutput
    <3> QED BY <2>1, <3>1
  <2> QED
    BY <1>1, <2>3, <2>4, <2>5, <2>6 DEF ConnectOutput, loopVars, emitVars
<1>2. CASE StartProbe
  <2> DEFINE p == cursor[1]
  <2>1. p \in Probe /\ p \in Nat \ {0}
    BY <1>2, ConfigAssumption DEF StartProbe, Probe
  <2>2. joins' \in Seq(Task)
    BY <1>2, <2>1, ProbeTaskIsTask DEF StartProbe
  <2>3. cursor' \in (Nat \ {0}) \X (Nat \ {0})
    <3>1. cursor' = <<p + 1, 1>>
      BY <1>2 DEF StartProbe
    <3> QED BY <2>1, <3>1
  <2> QED
    BY <1>2, <2>2, <2>3 DEF StartProbe, loopVars, emitVars
<1>3. CASE JoinPlugins
  BY <1>3 DEF JoinPlugins, startVars, emitVars
<1>4. CASE RaiseInStartup
  BY <1>4 DEF RaiseInStartup, startVars, loopVars, emitVars
<1>5. CASE Dispatch
  BY <1>5 DEF Dispatch, startVars, emitVars
<1>6. CASE UnwindStep
  BY <1>6 DEF UnwindStep, startVars, emitVars
<1>7. ASSUME CancelAll PROVE TypeOK'
  BY <1>7 DEF CancelAll, startVars, emitVars
<1>8. CASE Teardown \/ Sigint \/ Sigterm
  <2>1. CASE CancelAll
    BY <2>1, <1>7
  <2>2. CASE phase' = "stopped" /\ UNCHANGED <<startVars, loopVars, emitVars, closed>>
    BY <2>2 DEF startVars, loopVars, emitVars
  <2> QED BY <1>8, <2>1, <2>2 DEF Teardown, Sigint, Sigterm
<1>9. ASSUME NEW t \in Task, RunOutput(t) \/ RaiseInOnStart(t) \/ Wake(t)
      PROVE  TypeOK'
  <2>1. CASE RunOutput(t)
    BY <2>1 DEF RunOutput, startVars, emitVars
  <2>2. CASE RaiseInOnStart(t)
    BY <2>2 DEF RaiseInOnStart, Raise, startVars, emitVars
  <2>3. CASE Wake(t)
    BY <2>3 DEF Wake, startVars, emitVars
  <2> QED BY <1>9, <2>1, <2>2, <2>3
<1>10. ASSUME NEW p \in Probe, RunProbe(p)
       PROVE  TypeOK'
  <2> DEFINE t == ProbeTask(p)
  <2>1. t \in Task
    BY ProbeTaskIsTask
  <2> HIDE DEF t
  <2>2. CASE Begin(p)
    BY <2>1, <2>2 DEF t, Begin, startVars, emitVars
  <2>7. CASE EndEmit(p) \/ NoData(p) \/ Overrun(p)
    BY <2>1, <2>7 DEF t, EndEmit, NoData, Overrun, startVars, emitVars
  <2>8. CASE Sleep(p)
    BY <2>1, <2>8 DEF t, Sleep, startVars, emitVars
  <2>3. CASE SendEmission(p)
    <3>1. Head(queue[p]) \in Emission /\ Tail(queue[p]) \in Seq(Emission)
      BY <2>3 DEF SendEmission
    <3> QED
      BY <2>3, <3>1 DEF SendEmission, Emission, startVars, loopVars
  <2>4. CASE RaiseInEmit(p)
    BY <2>1, <2>4, SMTT(20) DEF t, RaiseInEmit, Raise, startVars
  <2>5. CASE Data(p)
    <3>1. produced[p] + 1 \in Nat
      OBVIOUS
    <3>2. \A j \in 1..Len(emitters[p]) : emitters[p][j] \in Task
      OBVIOUS
    <3>3. QueueEmission(p, produced[p] + 1) \in Seq(Emission)
      <4> DEFINE q == [j \in 1..Len(emitters[p]) |->
                         [msg |-> produced[p] + 1, to |-> emitters[p][j]]]
      <4>1. Len(emitters[p]) \in Nat
        OBVIOUS
      <4>2. q \in Seq(Emission)
        BY <3>1, <3>2, <4>1 DEF Emission
      <4> QED BY <4>2 DEF QueueEmission
    <3> QED
      BY <2>1, <2>5, <3>1, <3>3 DEF t, Data, startVars
  <2>6. CASE RaiseInProbe(p)
    BY <2>1, <2>6, SMTT(20) DEF t, RaiseInProbe, Raise, startVars, emitVars
  <2> QED
    BY <1>10, <2>2, <2>3, <2>4, <2>5, <2>6, <2>7, <2>8 DEF RunProbe
<1>11. CASE OnStop \/ RaiseInOnStop \/ Exit
  BY <1>11 DEF OnStop, RaiseInOnStop, Exit, startVars, loopVars, emitVars
<1>12. CASE UNCHANGED vars
  BY <1>12 DEF vars, startVars, loopVars, emitVars
<1> QED
  BY <1>1, <1>2, <1>3, <1>4, <1>5, <1>6, <1>8, <1>9, <1>10, <1>11, <1>12
     DEF Next, Thread, Startup, EventLoop, RunTask, Shutdown

(* Every variable keeps its type.                                           *)
THEOREM TypeCorrect == Spec => []TypeOK
<1>1. Init => TypeOK
  BY InitTypeOK
<1>2. TypeOK /\ [Next]_vars => TypeOK'
  BY TypeStep
<1> QED
  BY <1>1, <1>2, PTL DEF Spec

-----------------------------------------------------------------------------
(* The startup loop wires every probe to its outputs in order.              *)

LEMMA InitFanOut == Init => FanOut
<1> SUFFICES ASSUME Init PROVE FanOut
  OBVIOUS
<1>1. Wiring
  BY ConfigAssumption DEF Init, Wiring, Connected, Probe
<1>2. \A p \in TimedProbe : FanOutOf(p)
  <2>1. TAKE p \in TimedProbe
  <2>2. p \in Probe /\ Len(OutputList[p]) \in Nat
    BY ConfigAssumption DEF TimedProbe
  <2>3. \A j \in 1..Len(OutputList[p]) : <<p, j>> \in Task
    BY <2>2, TaskPairs
  <2>4. queue[p] = <<>> /\ produced[p] = 0 /\ pc[ProbeTask(p)] = "new"
    BY <2>2, ProbeTaskIsTask DEF Init
  <2> QED
    BY <2>2, <2>3, <2>4 DEF Init, FanOutOf, Served
<1> QED BY <1>1, <1>2 DEF FanOut

LEMMA WiringStep ==
  ASSUME TypeOK, Wiring, [Next]_vars
  PROVE  Wiring'
<1>1. CASE ConnectOutput
  <2> DEFINE p == cursor[1]
             j == cursor[2]
  <2>1. /\ p \in Probe /\ j \in Nat \ {0} /\ j <= Len(OutputList[p])
        /\ cursor' = <<p, j + 1>> /\ phase' = "starting"
        /\ emitters' = [emitters EXCEPT ![p] = Append(@, <<p, j>>)]
    BY <1>1 DEF ConnectOutput, TypeOK
  <2>2. N \in Nat /\ \A q \in Probe : q \in Nat /\ Len(OutputList[q]) \in Nat
    BY ConfigAssumption DEF Probe
  <2>3. cursor'[1] = p /\ cursor'[2] = j + 1
    BY <2>1
  <2>4. ASSUME NEW q \in Probe
        PROVE  /\ Len(emitters'[q]) = Connected(q)'
               /\ \A i \in 1..Len(emitters'[q]) : emitters'[q][i] = <<q, i>>
    <3>1. CASE q = p
      <4>0. Connected(p) = j - 1
        BY <2>1, <2>2 DEF Connected
      <4>1. emitters[p] \in Seq(Task) /\ Len(emitters[p]) = j - 1
        BY <2>1, <4>0 DEF TypeOK, Wiring
      <4>2. emitters'[p] = Append(emitters[p], <<p, j>>)
        BY <2>1 DEF TypeOK
      <4>3. \A i \in 1..j - 1 : emitters[p][i] = <<p, i>>
        BY <2>1, <4>1 DEF Wiring
      <4>4. Len(emitters'[p]) = j /\ emitters'[p][j] = <<p, j>>
        BY <2>1, <4>1, <4>2
      <4>5. \A i \in 1..j - 1 : emitters'[p][i] = <<p, i>>
        BY <2>1, <4>1, <4>2, <4>3
      <4>6. \A i \in 1..j : emitters'[p][i] = <<p, i>>
        BY <2>1, <4>4, <4>5
      <4>7. Connected(q)' = j
        BY <2>1, <2>2, <2>3, <3>1 DEF Connected
      <4> QED BY <3>1, <4>4, <4>6, <4>7
    <3>2. CASE q # p
      <4>1. emitters'[q] = emitters[q]
        BY <2>1, <3>2 DEF TypeOK
      <4>2. Connected(q)' = Connected(q)
        BY <2>1, <2>2, <2>3, <3>2 DEF Connected
      <4> QED BY <4>1, <4>2 DEF Wiring
    <3> QED BY <3>1, <3>2
  <2>5. cursor'[1] \in 1..N + 1
    BY <2>1, <2>2, <2>3 DEF Probe
  <2>6. cursor'[2] <= Len(OutputList[cursor'[1]]) + 1
    BY <2>1, <2>2, <2>3
  <2> QED BY <2>1, <2>4, <2>5, <2>6 DEF Wiring
<1>2. CASE StartProbe
  <2> DEFINE p == cursor[1]
  <2>1. /\ p \in Probe /\ cursor[2] > Len(OutputList[p])
        /\ cursor' = <<p + 1, 1>> /\ phase' = "starting"
        /\ emitters' = emitters
    BY <1>2 DEF StartProbe
  <2>2. N \in Nat /\ \A q \in Probe : q \in Nat /\ Len(OutputList[q]) \in Nat
    BY ConfigAssumption DEF Probe
  <2>3. cursor'[1] = p + 1 /\ cursor'[2] = 1
    BY <2>1
  <2>4. cursor[2] = Len(OutputList[p]) + 1
    BY <2>1, <2>2 DEF TypeOK, Wiring
  <2>5. \A q \in Probe : Connected(q)' = Connected(q)
    BY <2>1, <2>2, <2>3, <2>4 DEF Connected
  <2>6. cursor'[1] \in 1..N + 1
    BY <2>1, <2>2, <2>3 DEF Probe
  <2>7. cursor'[1] \in Probe => cursor'[2] <= Len(OutputList[cursor'[1]]) + 1
    BY <2>2, <2>3
  <2> QED BY <2>1, <2>5, <2>6, <2>7 DEF Wiring
<1>3. CASE JoinPlugins
  BY <1>3, ConfigAssumption DEF JoinPlugins, startVars, Wiring, Connected, Probe
<1>4. CASE UNCHANGED startVars /\ (phase' = "running" => phase = "running")
  BY <1>4 DEF startVars, Wiring, Connected
<1>5. CASE UNCHANGED vars
  BY <1>4, <1>5 DEF vars
<1>6. CASE RaiseInStartup \/ EventLoop \/ RunTask \/ Shutdown
  BY <1>4, <1>6
     DEF RaiseInStartup, EventLoop, Dispatch, UnwindStep, Teardown, CancelAll,
         RunTask, RunOutput, RaiseInOnStart, RunProbe, Begin, SendEmission,
         RaiseInEmit, EndEmit, Data, NoData, RaiseInProbe, Sleep, Overrun,
         Shutdown, OnStop, RaiseInOnStop, Exit
<1>7. CASE (\E t \in Task : Wake(t)) \/ Sigint \/ Sigterm
  BY <1>4, <1>7 DEF Wake, Sigint, Sigterm, CancelAll
<1> QED
  BY <1>1, <1>2, <1>3, <1>5, <1>6, <1>7 DEF Next, Thread, Startup
-----------------------------------------------------------------------------
(* The fan-out of a message.                                                *)

LEMMA TimedProbeFacts ==
  ASSUME NEW p \in TimedProbe
  PROVE  /\ p \in Probe /\ Kind[p] = "timed"
         /\ ProbeTask(p) \in Task
         /\ Len(OutputList[p]) \in Nat
         /\ \A j \in 1..Len(OutputList[p]) : <<p, j>> \in Task /\ <<p, j>> # ProbeTask(p)
<1>1. p \in Probe /\ Kind[p] = "timed"
  BY DEF TimedProbe
<1>2. Len(OutputList[p]) \in Nat
  BY <1>1, ConfigAssumption
<1>3. \A j \in 1..Len(OutputList[p]) : <<p, j>> \in Task
  BY <1>1, TaskPairs
<1> QED BY <1>1, <1>2, <1>3, ProbeTaskIsTask DEF ProbeTask

LEMMA ProbeTaskInjective ==
  ASSUME NEW p, NEW q, ProbeTask(p) = ProbeTask(q)
  PROVE  p = q
BY DEF ProbeTask

(* A step that leaves the emissions of p alone keeps its fan-out: a dead    *)
(* probe stays dead, and probe() is entered with an empty queue only.       *)
LEMMA FanOutFrame ==
  ASSUME NEW p \in TimedProbe, TypeOK, FanOutOf(p),
         queue'[p] = queue[p], produced'[p] = produced[p],
         \A j \in 1..Len(OutputList[p]) : last'[<<p, j>>] = last[<<p, j>>],
         pc[ProbeTask(p)] = "dead" => pc'[ProbeTask(p)] = "dead",
         pc'[ProbeTask(p)] = "probe" => pc[ProbeTask(p)] = "probe" \/ queue[p] = <<>>
  PROVE  FanOutOf(p)'
<1>1. Len(OutputList[p])' = Len(OutputList[p]) /\ Len(queue'[p]) = Len(queue[p])
  OBVIOUS
<1>2. queue[p] = <<>> => Len(queue[p]) = 0
  OBVIOUS
<1>3. Served(p)' = Served(p) /\ ProbeTask(p)' = ProbeTask(p)
  BY DEF Served, ProbeTask
<1> QED BY <1>1, <1>2, <1>3 DEF FanOutOf

(* FanOutOf(p) of the next state, from the new values of its parts.         *)
LEMMA FanOutIntro ==
  ASSUME NEW p \in TimedProbe, NEW width \in Nat, NEW left \in 0..width, NEW m \in Nat,
         width = Len(OutputList[p]), left = Len(queue'[p]), m = produced'[p],
         left > 0 => m > 0,
         \A i \in 1..left :
           queue'[p][i].msg = m /\ queue'[p][i].to = <<p, width - left + i>>,
         \A j \in 1..width : last'[<<p, j>>] = m \/ last'[<<p, j>>] + 1 = m,
         pc'[ProbeTask(p)] # "dead" =>
           \A j \in 1..width : last'[<<p, j>>] = m <=> j <= width - left,
         pc'[ProbeTask(p)] = "probe" => left = 0
  PROVE  FanOutOf(p)'
<1>1. Served(p)' = width - left
  BY DEF Served
<1>2. left <= width
  OBVIOUS
<1>3. ProbeTask(p)' = ProbeTask(p)
  BY DEF ProbeTask
<1> QED BY <1>1, <1>2, <1>3 DEF FanOutOf

(* A step of the coroutine of q moves only its own pc.                      *)
LEMMA FanOutOfOthers ==
  ASSUME NEW p \in TimedProbe, NEW q \in Probe, p # q,
         TypeOK, Wiring, FanOutOf(p), RunProbe(q),
         Kind[q] = "timed" => FanOutOf(q)
  PROVE  FanOutOf(p)'
<1> DEFINE t == ProbeTask(q)
<1>1. ProbeTask(p) # t /\ ProbeTask(p) \in Task
  BY ProbeTaskInjective, TimedProbeFacts
<1>2. pc'[ProbeTask(p)] = pc[ProbeTask(p)]
  BY <1>1 DEF RunProbe, Begin, SendEmission, RaiseInEmit, Raise, EndEmit, Data,
              NoData, RaiseInProbe, Sleep, Overrun, TypeOK, loopVars
<1>3. queue'[p] = queue[p] /\ produced'[p] = produced[p]
  BY TimedProbeFacts
     DEF RunProbe, Begin, SendEmission, RaiseInEmit, EndEmit, Data, NoData,
         RaiseInProbe, Sleep, Overrun, TypeOK, emitVars
<1>4. \A j \in 1..Len(OutputList[p]) : last'[<<p, j>>] = last[<<p, j>>]
  <2>1. CASE SendEmission(q)
    <3>1. /\ Len(queue[q]) \in Nat /\ Len(queue[q]) > 0
          /\ Head(queue[q]) = queue[q][1]
          /\ Kind[q] = "timed"
      BY <2>1 DEF SendEmission, TypeOK
    <3>2. \E k : Head(queue[q]).to = <<q, k>>
      <4>1. q \in TimedProbe
        BY <3>1 DEF TimedProbe
      <4>2. 1 \in 1..Len(queue[q])
        BY <3>1
      <4>3. FanOutOf(q)
        BY <3>1
      <4> QED BY <3>1, <4>2, <4>3 DEF FanOutOf
    <3>3. \A j \in 1..Len(OutputList[p]) : <<p, j>> # Head(queue[q]).to
      BY <3>2
    <3> QED BY <2>1, <3>3 DEF SendEmission, TypeOK
  <2>2. CASE ~SendEmission(q)
    BY <2>2 DEF RunProbe, Begin, RaiseInEmit, EndEmit, Data, NoData,
                RaiseInProbe, Sleep, Overrun, emitVars
  <2> QED BY <2>1, <2>2
<1> QED BY <1>2, <1>3, <1>4, FanOutFrame

LEMMA FanOutOfSelf ==
  ASSUME NEW p \in TimedProbe, TypeOK, Wiring, FanOutOf(p), RunProbe(p)
  PROVE  FanOutOf(p)'
<1> DEFINE t == ProbeTask(p)
           width == Len(OutputList[p])
           left == Len(queue[p])
<1>1. /\ p \in Probe /\ Kind[p] = "timed" /\ t \in Task /\ width \in Nat
      /\ \A j \in 1..width : <<p, j>> \in Task
  BY TimedProbeFacts
<1>2. queue[p] \in Seq(Emission) /\ left \in Nat /\ produced[p] \in Nat
      /\ \A j \in 1..width : last[<<p, j>>] \in Nat
  BY <1>1 DEF TypeOK
<1>3. /\ left <= width
      /\ \A i \in 1..left :
           /\ queue[p][i].msg = produced[p]
           /\ queue[p][i].to = <<p, width - left + i>>
      /\ left > 0 => produced[p] > 0
      /\ \A j \in 1..width : last[<<p, j>>] = produced[p] \/ last[<<p, j>>] + 1 = produced[p]
      /\ pc[t] # "dead" =>
           \A j \in 1..width : last[<<p, j>>] = produced[p] <=> j <= width - left
      /\ pc[t] = "probe" => left = 0
  BY DEF FanOutOf, Served
<1>4. width = Len(OutputList[p]) /\ left = Len(queue[p])
  OBVIOUS
<1> HIDE DEF t, width, left
(* What the queue looks like once its head is gone. *)
<1>5. ASSUME queue[p] # <<>>, queue'[p] = Tail(queue[p])
      PROVE  /\ left > 0 /\ Head(queue[p]) = queue[p][1]
             /\ left - 1 \in 0..width /\ Len(queue'[p]) = left - 1
             /\ \A i \in 1..left - 1 :
                  /\ queue'[p][i].msg = produced[p]
                  /\ queue'[p][i].to = <<p, width - (left - 1) + i>>
  <2>1. /\ left > 0 /\ Head(queue[p]) = queue[p][1]
        /\ Len(queue'[p]) = left - 1
        /\ \A i \in 1..left - 1 : queue'[p][i] = queue[p][i + 1]
    BY <1>2, <1>4, <1>5
  <2>2. left \in Nat /\ width \in Nat /\ left <= width
    BY <1>1, <1>2, <1>3
  <2>3. left - 1 \in 0..width
    BY <2>1, <2>2
  <2>4. ASSUME NEW i \in 1..left - 1
        PROVE  /\ queue'[p][i].msg = produced[p]
               /\ queue'[p][i].to = <<p, width - (left - 1) + i>>
    <3>1. i + 1 \in 1..left
      BY <2>2
    <3>2. width - left + (i + 1) = width - (left - 1) + i
      BY <2>2
    <3>3. queue'[p][i] = queue[p][i + 1]
      BY <2>1
    <3>4. queue[p][i + 1].msg = produced[p]
          /\ queue[p][i + 1].to = <<p, width - left + (i + 1)>>
      BY <1>3, <3>1
    <3> QED BY <3>2, <3>3, <3>4
  <2> QED BY <2>1, <2>3, <2>4
<1>6. CASE SendEmission(p)
  <2>1. queue[p] # <<>> /\ queue'[p] = Tail(queue[p])
    BY <1>1, <1>6 DEF SendEmission, TypeOK
  <2>2. /\ Head(queue[p]).msg = produced[p]
        /\ Head(queue[p]).to = <<p, width - left + 1>>
        /\ produced[p] > 0
    <3>1. 1 \in 1..left
      BY <1>2, <1>5, <2>1
    <3> QED BY <1>2, <1>3, <1>5, <2>1, <3>1
  <2>3. width - left + 1 \in 1..width
    BY <1>1, <1>2, <1>3, <1>5, <2>1
  <2>4. /\ pc' = pc /\ produced' = produced
        /\ pc[t] = "emit"
        /\ last' = [last EXCEPT ![<<p, width - left + 1>>] = produced[p]]
    BY <1>6, <2>2 DEF SendEmission, loopVars, t
  <2>5. \A j \in 1..width :
          last'[<<p, j>>] = IF j = width - left + 1 THEN produced[p] ELSE last[<<p, j>>]
    BY <1>1, <2>3, <2>4 DEF TypeOK
  <2>6. \A j \in 1..width : last[<<p, j>>] = produced[p] <=> j <= width - left
    BY <1>3, <2>4
  <2>7. \A j \in 1..width :
          last'[<<p, j>>] = produced[p] <=> j <= width - (left - 1)
    BY <1>1, <1>2, <2>3, <2>5, <2>6
  <2>8. \A j \in 1..width :
          last'[<<p, j>>] = produced[p] \/ last'[<<p, j>>] + 1 = produced[p]
    BY <1>3, <2>5
  <2>9. /\ left - 1 \in 0..width /\ Len(queue'[p]) = left - 1
        /\ \A i \in 1..left - 1 :
             /\ queue'[p][i].msg = produced[p]
             /\ queue'[p][i].to = <<p, width - (left - 1) + i>>
    BY <1>5, <2>1
  <2>10. width \in Nat /\ produced[p] \in Nat /\ produced'[p] = produced[p]
    BY <1>1, <1>2, <2>4
  <2>11. pc'[ProbeTask(p)] = "emit"
    BY <2>4 DEF t
  <2> QED
    BY <1>4, <2>2, <2>7, <2>8, <2>9, <2>10, <2>11, FanOutIntro, ZenonT(40)
<1>7. CASE RaiseInEmit(p)
  <2>1. queue[p] # <<>> /\ queue'[p] = Tail(queue[p])
    BY <1>1, <1>7 DEF RaiseInEmit, TypeOK
  <2>2. produced' = produced /\ last' = last /\ pc'[t] = "dead"
    BY <1>1, <1>7 DEF RaiseInEmit, Raise, TypeOK, t
  <2>3. left - 1 > 0 => produced[p] > 0
    BY <1>3, <1>5, <2>1
  <2>4. \A j \in 1..width :
          last'[<<p, j>>] = produced[p] \/ last'[<<p, j>>] + 1 = produced[p]
    BY <1>3, <2>2
  <2>5. produced'[p] = produced[p] /\ pc'[t] = "dead"
    BY <2>2
  <2>6. /\ left - 1 \in 0..width /\ Len(queue'[p]) = left - 1
        /\ \A i \in 1..left - 1 :
             /\ queue'[p][i].msg = produced[p]
             /\ queue'[p][i].to = <<p, width - (left - 1) + i>>
    BY <1>5, <2>1
  <2>7. width \in Nat /\ produced[p] \in Nat
    BY <1>1, <1>2
  <2>8. /\ pc'[ProbeTask(p)] # "dead" =>
             \A j \in 1..width : last'[<<p, j>>] = produced[p] <=> j <= width - (left - 1)
        /\ pc'[ProbeTask(p)] = "probe" => left - 1 = 0
    BY <2>5 DEF t
  <2> QED
    BY <1>4, <2>3, <2>4, <2>5, <2>6, <2>7, <2>8, FanOutIntro
<1>8. CASE Data(p)
  <2>1. /\ pc[t] = "probe" /\ pc'[t] = "rest" /\ left = 0
        /\ produced'[p] = produced[p] + 1 /\ last' = last
        /\ phase = "running"
        /\ queue'[p] = QueueEmission(p, produced[p] + 1)
    BY <1>1, <1>3, <1>8 DEF Data, Executing, TypeOK, t
  <2>2. /\ Len(emitters[p]) = width
        /\ \A j \in 1..width : emitters[p][j] = <<p, j>>
    <3>1. p \in 1..N /\ N \in Nat /\ cursor[1] = N + 1
      BY <1>1, <2>1, ConfigAssumption DEF Wiring, Probe
    <3>2. Connected(p) = width
      BY <3>1 DEF Connected, width
    <3> QED BY <1>1, <3>2 DEF Wiring
  <2>3. queue[p] = <<>>
    BY <1>2, <1>4, <2>1, EmptySeq
  <2> DEFINE q == [j \in 1..width |-> [msg |-> produced[p] + 1, to |-> <<p, j>>]]
  <2>4. q \in Seq(Emission) /\ Len(q) = width
    BY <1>1, <1>2 DEF Emission
  <2>5. queue'[p] = q
    <3>1. queue'[p] = <<>> \o q
      BY <2>1, <2>2, <2>3 DEF QueueEmission
    <3> HIDE DEF q
    <3> QED BY <2>4, <3>1
  <2>6. \A j \in 1..width : last[<<p, j>>] = produced[p]
    BY <1>1, <1>3, <2>1
  <2>7. \A i \in 1..width :
          /\ queue'[p][i].msg = produced[p] + 1
          /\ queue'[p][i].to = <<p, width - width + i>>
    <3>1. TAKE i \in 1..width
    <3>2. width - width + i = i
      BY <1>1
    <3> QED BY <2>5, <3>2
  <2>8. \A j \in 1..width : last'[<<p, j>>] + 1 = produced[p] + 1
    BY <2>1, <2>6
  <2>10. \A j \in 1..width : last'[<<p, j>>] = produced[p] + 1 <=> j <= width - width
    BY <1>1, <1>2, <2>1, <2>6
  <2>9. width \in 0..width /\ Len(queue'[p]) = width
    BY <1>1, <2>4, <2>5
  <2> HIDE DEF q
  <2> QED
    <3>1. produced[p] + 1 \in Nat /\ produced[p] + 1 > 0
      BY <1>2
    <3>2. pc'[t] = "rest" /\ produced'[p] = produced[p] + 1
      BY <2>1
    <3> QED BY <1>1, <1>4, <2>7, <2>8, <2>9, <2>10, <3>1, <3>2, FanOutIntro DEF t
<1>9. CASE EndEmit(p)
  BY <1>1, <1>9, FanOutFrame DEF EndEmit, TypeOK, emitVars
<1>10. CASE Begin(p) \/ NoData(p) \/ RaiseInProbe(p) \/ Sleep(p) \/ Overrun(p)
  <2>1. /\ UNCHANGED emitVars /\ pc[t] # "dead"
        /\ pc'[t] # "probe"
    BY <1>1, <1>10 DEF Begin, NoData, RaiseInProbe, Raise, Sleep, Overrun, TypeOK, t
  <2> QED BY <2>1, FanOutFrame DEF emitVars, t
<1> QED BY <1>6, <1>7, <1>8, <1>9, <1>10 DEF RunProbe

LEMMA FanOutStep ==
  ASSUME TypeOK, FanOut, [Next]_vars
  PROVE  FanOut'
<1>1. Wiring'
  BY WiringStep DEF FanOut
<1>2. ASSUME NEW p \in TimedProbe
      PROVE  FanOutOf(p)'
  <2>1. /\ Wiring /\ FanOutOf(p)
        /\ \A q \in Probe : Kind[q] = "timed" => FanOutOf(q)
    BY DEF FanOut, TimedProbe
  <2>2. ProbeTask(p) \in Task
    BY TimedProbeFacts
  <2>3. ASSUME NEW q \in Probe, RunProbe(q) PROVE FanOutOf(p)'
    BY <2>1, <2>3, FanOutOfSelf, FanOutOfOthers
  <2>4. CASE UNCHANGED <<emitVars, pc>>
    BY <2>1, <2>4, FanOutFrame DEF emitVars
  <2>5. ASSUME NEW t \in Task, RunOutput(t) \/ RaiseInOnStart(t)
        PROVE  FanOutOf(p)'
    <3>1. /\ UNCHANGED emitVars
          /\ pc'[ProbeTask(p)] \in {pc[ProbeTask(p)], "done", "dead"}
          /\ RunOutput(t) => t # ProbeTask(p)
      BY <2>2, <2>5
         DEF RunOutput, RaiseInOnStart, Raise, TypeOK, IsProbe, ProbeTask
    <3>2. pc[ProbeTask(p)] = "dead" => pc'[ProbeTask(p)] = "dead"
      BY <2>2, <2>5, <3>1 DEF RunOutput, RaiseInOnStart, Raise, TypeOK
    <3> QED BY <2>1, <3>1, <3>2, FanOutFrame DEF emitVars
  <2>6. CASE Startup \/ EventLoop \/ Shutdown
    BY <2>4, <2>6
       DEF Startup, ConnectOutput, StartProbe, JoinPlugins, RaiseInStartup,
           EventLoop, Dispatch, UnwindStep, Teardown, CancelAll,
           Shutdown, OnStop, RaiseInOnStop, Exit, loopVars
  <2>7. CASE (\E t \in Task : Wake(t)) \/ Sigint \/ Sigterm
    BY <2>4, <2>7 DEF Wake, Sigint, Sigterm, CancelAll, loopVars
  <2>8. CASE UNCHANGED vars
    BY <2>4, <2>8 DEF vars, loopVars
  <2> QED
    BY <2>3, <2>5, <2>6, <2>7, <2>8 DEF Next, Thread, RunTask
<1> QED BY <1>1, <1>2 DEF FanOut

(* TypeOK and FanOut hold throughout.                                       *)
THEOREM FanOutHolds == Spec => [](TypeOK /\ FanOut)
<1>1. Init => TypeOK /\ FanOut
  BY InitTypeOK, InitFanOut
<1>2. TypeOK /\ FanOut /\ [Next]_vars => (TypeOK /\ FanOut)'
  BY TypeStep, FanOutStep
<1> QED
  BY <1>1, <1>2, PTL DEF Spec

LEMMA FanOutBounds == TypeOK /\ FanOut => BacklogBounded /\ LossBounded
<1> SUFFICES ASSUME TypeOK, FanOut PROVE BacklogBounded /\ LossBounded
  OBVIOUS
<1>1. BacklogBounded
  BY DEF BacklogBounded, FanOut, FanOutOf
<1>2. LossBounded
  <2> SUFFICES ASSUME NEW p \in TimedProbe, NEW t \in References(p)
               PROVE  produced[p] - last[t] <= 1
    BY DEF LossBounded
  <2>1. PICK j \in 1..Len(OutputList[p]) : t = <<p, j>>
    BY DEF References
  <2>2. produced[p] \in Nat /\ last[t] \in Nat
    BY <2>1, TimedProbeFacts DEF TypeOK
  <2>3. last[t] = produced[p] \/ last[t] + 1 = produced[p]
    BY <2>1 DEF FanOut, FanOutOf
  <2> QED BY <2>2, <2>3
<1> QED BY <1>1, <1>2

(* The emission queue of a timed probe never outgrows one message.          *)
THEOREM BacklogIsBounded == Spec => []BacklogBounded
BY FanOutHolds, FanOutBounds, PTL

(* No output of a timed probe is ever more than one message behind.         *)
THEOREM LossIsBounded == Spec => []LossBounded
BY FanOutHolds, FanOutBounds, PTL

-----------------------------------------------------------------------------
(* What the steps of a timed probe do to its outputs.                       *)

LEMMA SendEmissionDelivers ==
  ASSUME TypeOK, FanOut, NEW p \in Probe, SendEmission(p)
  PROVE  /\ p \in TimedProbe
         /\ \E j \in 1..Len(OutputList[p]) :
              /\ last' = [last EXCEPT ![<<p, j>>] = produced[p]]
              /\ last[<<p, j>>] + 1 = produced[p]
              /\ \A i \in 1..j - 1 : last[<<p, i>>] = produced[p]
<1> DEFINE width == Len(OutputList[p])
           left == Len(queue[p])
<1>1. p \in TimedProbe /\ pc[ProbeTask(p)] = "emit"
  BY DEF SendEmission, TimedProbe
<1>2. FanOutOf(p)
  BY <1>1 DEF FanOut
<1>3. width \in Nat /\ left \in Nat /\ left > 0 /\ left <= width
      /\ Head(queue[p]) = queue[p][1]
  BY <1>1, <1>2, TimedProbeFacts DEF SendEmission, TypeOK, FanOutOf
<1>4. 1 \in 1..left =>
        queue[p][1].msg = produced[p] /\ queue[p][1].to = <<p, width - left + 1>>
  BY <1>2 DEF FanOutOf, Served
<1>5. \A j \in 1..width : last[<<p, j>>] = produced[p] <=> j <= width - left
  BY <1>1, <1>2 DEF FanOutOf, Served
<1>6. \A j \in 1..width : last[<<p, j>>] = produced[p] \/ last[<<p, j>>] + 1 = produced[p]
  BY <1>2 DEF FanOutOf
<1> HIDE DEF width, left
<1>7. 1 \in 1..left
  BY <1>3
<1>8. PICK k \in 1..width : k = width - left + 1
  BY <1>3
<1>9. Head(queue[p]).msg = produced[p] /\ Head(queue[p]).to = <<p, k>>
  BY <1>3, <1>4, <1>7, <1>8
<1>10. last' = [last EXCEPT ![<<p, k>>] = produced[p]]
  BY <1>9 DEF SendEmission
<1>11. \A i \in 1..k - 1 : last[<<p, i>>] = produced[p]
  <2>1. \A i \in 1..k - 1 : i \in 1..width /\ i <= width - left
    BY <1>3, <1>8
  <2> QED BY <1>5, <2>1
<1>12. last[<<p, k>>] + 1 = produced[p]
  <2>1. ~(k <= width - left)
    BY <1>3, <1>8
  <2>2. last[<<p, k>>] # produced[p]
    BY <1>5, <2>1
  <2> QED BY <1>6, <2>2
<1> QED BY <1>1, <1>10, <1>11, <1>12 DEF width

LEMMA DataWhenDelivered ==
  ASSUME TypeOK, FanOut, NEW p \in TimedProbe, Data(p)
  PROVE  \A j \in 1..Len(OutputList[p]) : last[<<p, j>>] = produced[p]
<1>1. FanOutOf(p) /\ pc[ProbeTask(p)] = "probe"
  BY DEF FanOut, Data
<1>2. Len(queue[p]) = 0 /\ Len(OutputList[p]) \in Nat
  BY <1>1, TimedProbeFacts DEF FanOutOf
<1>3. Served(p) = Len(OutputList[p])
  BY <1>2 DEF Served
<1> QED BY <1>1, <1>2, <1>3 DEF FanOutOf

LEMMA OnlySendEmissionDelivers ==
  ASSUME TypeOK, [Next]_vars, last' # last
  PROVE  \E p \in Probe : SendEmission(p)
BY DEF Next, vars, Thread, Startup, EventLoop, RunTask, Shutdown, ConnectOutput,
       StartProbe, JoinPlugins, RaiseInStartup, Dispatch, UnwindStep, Teardown,
       CancelAll, RunOutput, RaiseInOnStart, RunProbe, Begin, RaiseInEmit,
       EndEmit, Data, NoData, RaiseInProbe, Sleep, Overrun, OnStop,
       RaiseInOnStop, Exit, Wake, Sigint, Sigterm, emitVars

(* The messages of a timed probe reach each output in order, none skipped   *)
(* and none repeated.                                                       *)
THEOREM DeliveryInOrder == Spec => InOrder
<1> DEFINE A == \A t \in Task : last'[t] # last[t] => last'[t] = last[t] + 1
<1>1. ASSUME TypeOK, FanOut, [Next]_vars PROVE A
  <2>1. CASE last' = last
    BY <2>1
  <2>2. CASE last' # last
    <3>1. PICK p \in Probe : SendEmission(p)
      BY <1>1, <2>2, OnlySendEmissionDelivers
    <3>2. PICK j \in 1..Len(OutputList[p]) :
            /\ last' = [last EXCEPT ![<<p, j>>] = produced[p]]
            /\ last[<<p, j>>] + 1 = produced[p]
      BY <1>1, <3>1, SendEmissionDelivers
    <3> QED BY <1>1, <3>2 DEF TypeOK
  <2> QED BY <2>1, <2>2
<1>2. TypeOK /\ FanOut /\ [Next]_vars => [A]_vars
  BY <1>1
<1> HIDE DEF A
<1>3. Spec => [][A]_vars
  BY <1>2, FanOutHolds, PTL DEF Spec
<1> QED BY <1>3 DEF InOrder, A

-----------------------------------------------------------------------------
(* The daemon implements Delivery.                                          *)

LEMMA LinksAreTasks ==
  ASSUME NEW p \in TimedProbe, NEW t \in References(p)
  PROVE  t \in Task
BY TimedProbeFacts DEF References

LEMMA DeliveryInit == Init => Deliveries!Init
<1> SUFFICES ASSUME Init PROVE Deliveries!Init
  OBVIOUS
<1>1. \A p \in TimedProbe : produced[p] = 0
  BY TimedProbeFacts DEF Init
<1>2. \A p \in TimedProbe : \A t \in References(p) : last[t] = 0
  BY LinksAreTasks DEF Init
<1> DEFINE sent == [p \in TimedProbe |-> produced[p]]
           got == [t \in UNION {References(p) : p \in TimedProbe} |-> last[t]]
           Links == UNION {{<<p, j>> :
                      j \in 1..[q \in TimedProbe |-> Len(OutputList[q])][p]} : p \in TimedProbe}
<1>3. sent = [p \in TimedProbe |-> 0]
  BY <1>1
<1>4. Links = UNION {References(p) : p \in TimedProbe}
  BY DEF References
<1>5. got = [l \in Links |-> 0]
  BY <1>2, <1>4
<1>6. (phase \in {"starting", "running"}) = TRUE
  BY DEF Init
<1> QED BY <1>3, <1>5, <1>6 DEF Deliveries!Init, Deliveries!Link

LEMMA DeliveryStep ==
  ASSUME TypeOK, FanOut, [Next]_vars
  PROVE  [Deliveries!Next]_(Deliveries!deliveryVars)
<1> DEFINE up == phase \in {"starting", "running"}
           sent == [p \in TimedProbe |-> produced[p]]
           got == [t \in UNION {References(p) : p \in TimedProbe} |-> last[t]]
<1>1. ASSUME NEW p \in Probe, SendEmission(p)
      PROVE  Deliveries!Next
  <2>1. PICK j \in 1..Len(OutputList[p]) :
          /\ p \in TimedProbe
          /\ last' = [last EXCEPT ![<<p, j>>] = produced[p]]
          /\ last[<<p, j>>] + 1 = produced[p]
          /\ \A i \in 1..j - 1 : last[<<p, i>>] = produced[p]
    BY <1>1, SendEmissionDelivers
  <2>2. Len(OutputList[p]) \in Nat
    BY <2>1, TimedProbeFacts
  <2>3. up /\ up' /\ sent' = sent
    BY <1>1 DEF SendEmission, Executing, loopVars
  <2>4. <<p, j>> \in References(p)
    BY DEF References
  <2>5. got' = [got EXCEPT ![<<p, j>>] = sent[p]]
    <3> DEFINE Links == UNION {References(q) : q \in TimedProbe}
    <3>1. <<p, j>> \in Links /\ \A t \in Links : t \in Task
      BY <2>1, <2>4, LinksAreTasks
    <3>2. \A t \in Links :
            last'[t] = IF t = <<p, j>> THEN produced[p] ELSE last[t]
      BY <2>1, <3>1 DEF TypeOK
    <3>3. sent[p] = produced[p]
      BY <2>1
    <3> HIDE DEF Links, sent
    <3>4. [t \in Links |-> last[t]]' = [[t \in Links |-> last[t]] EXCEPT ![<<p, j>>] = sent[p]]
      BY <3>1, <3>2, <3>3 DEF Links, References
    <3> QED BY <3>4 DEF Links
  <2>6. got[<<p, j>>] + 1 = sent[p]
    BY <2>1, <2>4
  <2>7. \A i \in 1..j - 1 : got[<<p, i>>] = sent[p]
    <3>1. TAKE i \in 1..j - 1
    <3>2. <<p, i>> \in References(p)
      BY <2>2 DEF References
    <3> QED BY <2>1, <3>2
  <2>8. Deliveries!Deliver(p, j)
    BY <2>3, <2>5, <2>6, <2>7 DEF Deliveries!Deliver
  <2> QED BY <2>1, <2>8 DEF Deliveries!Next
<1>2. ASSUME NEW p \in Probe, Data(p)
      PROVE  [Deliveries!Next]_(Deliveries!deliveryVars)
  <2>1. up /\ up' /\ last' = last
        /\ produced' = [produced EXCEPT ![p] = @ + 1]
    BY <1>2 DEF Data, Executing
  <2>2. got' = got
    BY <2>1
  <2>3. CASE p \in TimedProbe
    <3>1. sent' = [sent EXCEPT ![p] = @ + 1]
      BY <2>1, <2>3, TimedProbeFacts DEF TypeOK
    <3>2. \A j \in 1..Len(OutputList[p]) : got[<<p, j>>] = sent[p]
      <4>1. \A j \in 1..Len(OutputList[p]) : last[<<p, j>>] = produced[p]
        BY <1>2, <2>3, DataWhenDelivered
      <4>2. \A j \in 1..Len(OutputList[p]) : <<p, j>> \in References(p)
        BY DEF References
      <4> QED BY <2>3, <4>1, <4>2
    <3>3. Deliveries!Send(p)
      BY <2>1, <2>2, <2>3, <3>1, <3>2 DEF Deliveries!Send
    <3> QED BY <2>3, <3>3 DEF Deliveries!Next
  <2>4. CASE p \notin TimedProbe
    <3>1. sent' = sent
      BY <2>1, <2>4, TimedProbeFacts DEF TypeOK
    <3> QED BY <2>1, <2>2, <3>1 DEF Deliveries!deliveryVars
  <2> QED BY <2>3, <2>4
<1>3. CASE UNCHANGED <<produced, last>>
  <2>1. sent' = sent /\ got' = got
    BY <1>3
  <2>2. up' => up
    BY DEF Next, vars, Thread, Startup, EventLoop, RunTask, Shutdown, ConnectOutput,
           StartProbe, JoinPlugins, RaiseInStartup, Dispatch, UnwindStep, Teardown,
           CancelAll, RunOutput, RaiseInOnStart, RunProbe, Begin, SendEmission,
           RaiseInEmit, EndEmit, Data, NoData, RaiseInProbe, Sleep, Overrun, OnStop,
           RaiseInOnStop, Exit, Wake, Sigint, Sigterm
  <2>3. CASE up /\ ~up'
    BY <2>1, <2>3 DEF Deliveries!Next, Deliveries!Halt
  <2>4. CASE up = up'
    BY <2>1, <2>4 DEF Deliveries!deliveryVars
  <2> QED BY <2>2, <2>3, <2>4
<1>4. \/ UNCHANGED <<produced, last>>
      \/ \E p \in Probe : SendEmission(p) \/ Data(p)
  BY DEF Next, vars, Thread, Startup, EventLoop, RunTask, Shutdown, ConnectOutput,
         StartProbe, JoinPlugins, RaiseInStartup, Dispatch, UnwindStep, Teardown,
         CancelAll, RunOutput, RaiseInOnStart, RunProbe, Begin, RaiseInEmit,
         EndEmit, NoData, RaiseInProbe, Sleep, Overrun, OnStop,
         RaiseInOnStop, Exit, Wake, Sigint, Sigterm, emitVars
<1> QED BY <1>1, <1>2, <1>3, <1>4

(* Task queues, loop turns and faults included, the daemon does for the     *)
(* outputs of its timed probes what Delivery promises.                      *)
THEOREM DaemonImplementsDelivery == Spec => ImplementsDelivery
<1>1. Init => Deliveries!Init
  BY DeliveryInit
<1>2. TypeOK /\ FanOut /\ [Next]_vars => [Deliveries!Next]_(Deliveries!deliveryVars)
  BY DeliveryStep
<1>3. Spec => Deliveries!Spec
  BY <1>1, <1>2, FanOutHolds, PTL DEF Spec, Deliveries!Spec
<1> QED BY <1>3 DEF ImplementsDelivery

-----------------------------------------------------------------------------
(* The tasks: where the loop holds them, in which order they begin and what *)
(* the way down closes.                                                     *)

(* The tasks that the two for loops of _main have passed are the elements   *)
(* of joins, each once and the outputs of a probe before the probe.         *)
Reached(t) ==
  \/ t[1] < cursor[1]
  \/ t[1] = cursor[1] /\ t[2] # 0 /\ t[2] < cursor[2]

JoinsInOrder ==
  /\ \A i \in 1..Len(joins) : Reached(joins[i])
  /\ \A t \in Task : Reached(t) => \E i \in 1..Len(joins) : joins[i] = t
  /\ \A i, k \in 1..Len(joins) : joins[i] = joins[k] => i = k
  /\ \A i, k \in 1..Len(joins) :
       joins[i][1] = joins[k][1] /\ IsProbe(joins[i]) /\ ~IsProbe(joins[k]) => k < i

(* Nothing runs before gather().                                            *)
NothingRuns ==
  phase = "starting" =>
    /\ ready = <<>> /\ sleeping = {} /\ current = Main /\ opened = {}
    /\ \A t \in Task : pc[t] = "new"

(* A connected output has had start() called, or starts lazily.             *)
StartedFirst ==
  /\ started \subseteq set_up
  /\ \A p \in Probe : \A j \in 1..Len(emitters[p]) :
       OutputList[p][j] \in set_up \cup LazyStart

(* A task that has not ended is in one place, and a sleeping one is between *)
(* two cycles.                                                              *)
InReady(t) == \E i \in 1..Len(ready) : ready[i] = t
HasEnded(t) == pc[t] \in {"done", "dead"}

InOnePlace ==
  phase = "running" =>
    /\ \A t \in Task : HasEnded(t) <=> ~InReady(t) /\ t \notin sleeping /\ current # t
    /\ \A i, k \in 1..Len(ready) : ready[i] = ready[k] /\ ready[i] # Main => i = k
    /\ \A t \in Task : InReady(t) => t \notin sleeping /\ current # t
    /\ current \notin sleeping
    /\ \A t \in sleeping : pc[t] = "emit"

(* An output task that has not begun stands in front of its probe's task,   *)
(* which has not begun either.                                              *)
OutputsFirst ==
  phase = "running" =>
    \A p \in Probe : \A j \in 1..Len(OutputList[p]) : pc[<<p, j>>] = "new" =>
      /\ pc[<<p, 0>>] = "new" /\ current # <<p, 0>>
      /\ \A i, k \in 1..Len(ready) : ready[i] = <<p, 0>> /\ ready[k] = <<p, j>> => k < i

(* on_start() is called on nothing that on_stop() would not be called on.   *)
OpenedJoined == \A t \in opened : \E i \in 1..Len(joins) : joins[i] = t

TaskInv ==
  /\ JoinsInOrder /\ NothingRuns /\ StartedFirst
  /\ InOnePlace /\ OutputsFirst /\ OpenedJoined

-----------------------------------------------------------------------------
LEMMA TaskShape ==
  /\ N \in Nat /\ \A p \in Probe : p \in Nat \ {0} /\ Len(OutputList[p]) \in Nat
  /\ \A t \in Task : t[1] \in Probe /\ t[2] \in 0..Len(OutputList[t[1]]) /\ t = <<t[1], t[2]>>
  /\ Main \notin Task
<1>1. N \in Nat /\ \A p \in Probe : p \in Nat \ {0} /\ Len(OutputList[p]) \in Nat
  BY ConfigAssumption DEF Probe
<1>2. \A t \in Task : t[1] \in Probe /\ t[2] \in 0..Len(OutputList[t[1]]) /\ t = <<t[1], t[2]>>
  BY DEF Task
<1>3. Main[1] \notin Probe
  BY <1>1 DEF Main
<1> QED BY <1>1, <1>2, <1>3

LEMMA InitTaskInv == Init => TaskInv
<1> SUFFICES ASSUME Init PROVE TaskInv
  OBVIOUS
<1> USE DEF Init
<1>1. JoinsInOrder
  <2>1. \A t \in Task : ~Reached(t)
    BY TaskShape DEF Reached
  <2> QED BY <2>1 DEF JoinsInOrder
<1>2. NothingRuns /\ InOnePlace /\ OutputsFirst /\ OpenedJoined
  BY DEF NothingRuns, InOnePlace, OutputsFirst, OpenedJoined
<1>3. StartedFirst
  BY DEF StartedFirst
<1> QED BY <1>1, <1>2, <1>3 DEF TaskInv

(* The element that a step of the startup loop appends to joins.            *)
LEMMA JoinStep ==
  ASSUME TypeOK, JoinsInOrder, NEW t \in Task, joins' = Append(joins, t),
         ~Reached(t),
         \A s \in Task : Reached(s)' <=> Reached(s) \/ s = t,
         IsProbe(t) \/ \A i \in 1..Len(joins) : joins[i][1] = t[1] => ~IsProbe(joins[i])
  PROVE  JoinsInOrder'
<1> DEFINE n == Len(joins)
<1>1. /\ n \in Nat /\ Len(joins') = n + 1 /\ joins'[n + 1] = t
      /\ \A i \in 1..n : joins'[i] = joins[i] /\ joins[i] \in Task
  BY DEF TypeOK
<1>2. \A i \in 1..n + 1 : i \in 1..n \/ i = n + 1
  BY <1>1
<1>3. \A i \in 1..n : Reached(joins[i]) /\ joins[i] # t
  BY DEF JoinsInOrder
<1>4. n + 1 \in 1..n + 1 /\ \A i \in 1..n : i \in 1..n + 1 /\ i < n + 1
  BY <1>1
<1> HIDE DEF n
<1>5. \A i \in 1..n + 1 : Reached(joins[i])'
  <2>1. TAKE i \in 1..n + 1
  <2>2. joins'[i] \in Task /\ (Reached(joins'[i]) \/ joins'[i] = t)
    BY <1>1, <1>2, <1>3
  <2>3. PICK s \in Task : s = joins'[i]
    BY <2>2
  <2>4. Reached(s)'
    BY <2>2, <2>3
  <2> QED BY <2>3, <2>4 DEF Reached
<1>6. \A s \in Task : Reached(s)' => \E i \in 1..n + 1 : joins'[i] = s
  BY <1>1, <1>4 DEF JoinsInOrder, n
<1>7. \A i, k \in 1..n + 1 : joins'[i] = joins'[k] => i = k
  BY <1>1, <1>2, <1>3 DEF JoinsInOrder, n
<1>8. \A i, k \in 1..n + 1 :
        joins'[i][1] = joins'[k][1] /\ IsProbe(joins'[i]) /\ ~IsProbe(joins'[k]) => k < i
  BY <1>1, <1>2, <1>4 DEF JoinsInOrder, n
<1> QED
  BY <1>1, <1>5, <1>6, <1>7, <1>8, ZenonT(40) DEF JoinsInOrder, IsProbe

LEMMA JoinsStep ==
  ASSUME TypeOK, Wiring, JoinsInOrder, [Next]_vars
  PROVE  JoinsInOrder'
<1>1. CASE ConnectOutput
  <2> DEFINE p == cursor[1]
             j == cursor[2]
  <2>1. /\ p \in Probe /\ j \in Nat \ {0} /\ j <= Len(OutputList[p])
        /\ cursor' = <<p, j + 1>> /\ joins' = Append(joins, <<p, j>>)
    BY <1>1 DEF ConnectOutput, TypeOK
  <2>2. j \in 0..Len(OutputList[p])
    BY <2>1, TaskShape
  <2>3. <<p, j>> \in Task /\ ~Reached(<<p, j>>)
    BY <2>1, <2>2, TaskPairs, TaskShape DEF Reached
  <2>4. \A s \in Task : Reached(s)' <=> Reached(s) \/ s = <<p, j>>
    <3>1. TAKE s \in Task
    <3>2. s = <<s[1], s[2]>> /\ s[1] \in Nat /\ s[2] \in Nat /\ p \in Nat
      BY <2>1, TaskShape
    <3> QED BY <2>1, <3>2 DEF Reached
  <2>5. \A i \in 1..Len(joins) : joins[i][1] = p => ~IsProbe(joins[i])
    BY <2>1, TaskShape DEF JoinsInOrder, Reached, IsProbe
  <2> QED BY <2>1, <2>3, <2>4, <2>5, JoinStep
<1>2. CASE StartProbe
  <2> DEFINE p == cursor[1]
  <2>1. /\ p \in Probe /\ cursor[2] > Len(OutputList[p])
        /\ cursor' = <<p + 1, 1>> /\ joins' = Append(joins, ProbeTask(p))
    BY <1>2 DEF StartProbe
  <2>2. ProbeTask(p) \in Task /\ ~Reached(ProbeTask(p)) /\ IsProbe(ProbeTask(p))
    BY <2>1, ProbeTaskIsTask, TaskShape DEF Reached, ProbeTask, IsProbe
  <2>3. cursor[2] \in Nat
    BY DEF TypeOK
  <2>4. \A s \in Task : Reached(s)' <=> Reached(s) \/ s = ProbeTask(p)
    <3>1. TAKE s \in Task
    <3>2. /\ s = <<s[1], s[2]>> /\ s[1] \in Nat /\ s[2] \in Nat /\ p \in Nat
          /\ s[2] <= Len(OutputList[s[1]]) /\ Len(OutputList[p]) \in Nat
      BY <2>1, TaskShape
    <3> QED BY <2>1, <2>3, <3>2 DEF Reached, ProbeTask
  <2> QED BY <2>1, <2>2, <2>4, JoinStep
<1>3. CASE UNCHANGED <<cursor, joins>>
  BY <1>3 DEF JoinsInOrder, Reached, IsProbe
<1>4. ConnectOutput \/ StartProbe \/ UNCHANGED <<cursor, joins>>
  BY DEF Next, vars, startVars, Thread, Startup, EventLoop, RunTask, Shutdown,
         JoinPlugins, RaiseInStartup, Dispatch, UnwindStep, Teardown, CancelAll,
         RunOutput, RaiseInOnStart, RunProbe, Begin, SendEmission, RaiseInEmit,
         EndEmit, Data, NoData, RaiseInProbe, Sleep, Overrun, OnStop,
         RaiseInOnStop, Exit, Wake, Sigint, Sigterm
<1> QED BY <1>1, <1>2, <1>3, <1>4

LEMMA StartedStep ==
  ASSUME TypeOK, Wiring, StartedFirst, [Next]_vars
  PROVE  StartedFirst'
<1>1. CASE ConnectOutput
  <2> DEFINE p == cursor[1]
             j == cursor[2]
             o == OutputList[p][j]
  <2>1. /\ p \in Probe /\ set_up \subseteq set_up' /\ started' \subseteq set_up'
        /\ o \in set_up' \cup LazyStart
        /\ emitters' = [emitters EXCEPT ![p] = Append(@, <<p, j>>)]
        /\ j \in Nat \ {0} /\ j <= Len(OutputList[p])
    BY <1>1 DEF ConnectOutput, StartedFirst, TypeOK
  <2>2. Len(emitters[p]) = j - 1
    BY <2>1, TaskShape DEF Wiring, Connected
  <2>3. /\ \A q \in Probe : q # p => emitters'[q] = emitters[q]
        /\ Len(emitters'[p]) = j
    BY <2>1, <2>2 DEF TypeOK
  <2>4. \A i \in 1..j : i \in 1..j - 1 \/ i = j
    BY <2>1
  <2>5. ASSUME NEW q \in Probe, NEW i \in 1..Len(emitters'[q])
        PROVE  OutputList[q][i] \in set_up' \cup LazyStart
    <3>1. CASE q # p
      BY <2>1, <2>3, <2>5, <3>1 DEF StartedFirst
    <3>2. CASE q = p
      BY <2>1, <2>2, <2>3, <2>4, <2>5, <3>2 DEF StartedFirst
    <3> QED BY <3>1, <3>2
  <2> QED BY <2>1, <2>5 DEF StartedFirst
<1>2. CASE UNCHANGED <<emitters, started, set_up>>
  BY <1>2 DEF StartedFirst
<1>3. ConnectOutput \/ UNCHANGED <<emitters, started, set_up>>
  BY DEF Next, vars, startVars, Thread, Startup, EventLoop, RunTask, Shutdown,
         StartProbe, JoinPlugins, RaiseInStartup, Dispatch, UnwindStep, Teardown,
         CancelAll, RunOutput, RaiseInOnStart, RunProbe, Begin, SendEmission,
         RaiseInEmit, EndEmit, Data, NoData, RaiseInProbe, Sleep, Overrun, OnStop,
         RaiseInOnStop, Exit, Wake, Sigint, Sigterm
<1> QED BY <1>1, <1>2, <1>3

LEMMA NothingRunsStep ==
  ASSUME TypeOK, NothingRuns, [Next]_vars
  PROVE  NothingRuns'
<1>1. phase' = "starting" => phase = "starting" /\ UNCHANGED loopVars
  BY DEF Next, vars, startVars, Thread, Startup, EventLoop, RunTask, Shutdown,
         ConnectOutput, StartProbe, JoinPlugins, RaiseInStartup, Dispatch,
         UnwindStep, Teardown, CancelAll, RunOutput, RaiseInOnStart, RunProbe,
         Begin, SendEmission, RaiseInEmit, EndEmit, Data, NoData, RaiseInProbe,
         Sleep, Overrun, OnStop, RaiseInOnStop, Exit, Wake, Sigint, Sigterm,
         Executing
<1> QED BY <1>1 DEF NothingRuns, loopVars

-----------------------------------------------------------------------------
(* The places of the tasks.                                                 *)

Loop == InOnePlace /\ OutputsFirst

LEMMA LoopFrame ==
  ASSUME Loop, phase' = "running" => phase = "running",
         UNCHANGED <<ready, sleeping, current, pc>>
  PROVE  Loop'
BY DEF Loop, InOnePlace, OutputsFirst, InReady, HasEnded

(* gather() puts the tasks into the queue in the order of joins.            *)
LEMMA LoopJoin ==
  ASSUME TypeOK, Wiring, JoinsInOrder, NothingRuns, JoinPlugins
  PROVE  Loop'
<1>1. /\ ready' = joins /\ sleeping' = {} /\ current' = Main
      /\ \A t \in Task : pc'[t] = "new"
  BY DEF JoinPlugins, NothingRuns
<1>2. cursor[1] = N + 1
  BY TaskShape DEF JoinPlugins, Wiring
<1>3. \A t \in Task : Reached(t)
  BY <1>2, TaskShape DEF Reached, Probe
<1>4. \A t \in Task : InReady(t)'
  BY <1>1, <1>3 DEF JoinsInOrder, InReady
<1>5. InOnePlace'
  BY <1>1, <1>4, TaskShape DEF InOnePlace, JoinsInOrder, HasEnded
<1>6. OutputsFirst'
  <2> SUFFICES ASSUME NEW p \in Probe, NEW j \in 1..Len(OutputList[p])
               PROVE  /\ pc'[<<p, 0>>] = "new" /\ current' # <<p, 0>>
                      /\ \A i, k \in 1..Len(joins) :
                           joins[i] = <<p, 0>> /\ joins[k] = <<p, j>> => k < i
    BY <1>1 DEF OutputsFirst
  <2>1. <<p, 0>> \in Task
    BY ProbeTaskIsTask DEF ProbeTask
  <2>2. j # 0
    BY TaskShape
  <2> QED BY <1>1, <2>1, <2>2, TaskShape DEF JoinsInOrder, IsProbe
<1> QED BY <1>5, <1>6 DEF Loop

LEMMA LoopDispatch ==
  ASSUME TypeOK, Loop, Dispatch
  PROVE  Loop'
<1> DEFINE h == Head(ready)
           n == Len(ready)
<1>1. /\ phase = "running" /\ current = Main /\ h # Main /\ current' = h
      /\ phase' = phase /\ sleeping' = sleeping /\ pc' = pc
      /\ n \in Nat /\ n > 0 /\ h = ready[1]
      /\ Len(ready') = n - 1 /\ \A i \in 1..n - 1 : ready'[i] = ready[i + 1]
      /\ \A i \in 1..n : ready[i] \in Task \cup {Main}
  BY DEF Dispatch, TypeOK
<1> HIDE DEF n, h
<1>2. /\ 1 \in 1..n /\ \A i \in 1..n - 1 : i + 1 \in 1..n /\ i + 1 # 1
      /\ \A i \in 1..n : i = 1 \/ (i - 1 \in 1..n - 1 /\ (i - 1) + 1 = i)
  BY <1>1
<1>3. h \in Task
  BY <1>1, <1>2
<1>4. \A t \in Task : InReady(t)' <=> InReady(t) /\ t # h
  <2>1. \A t \in Task : InReady(t)' => InReady(t)
    BY <1>1, <1>2 DEF InReady, n
  <2>2. \A i \in 1..n - 1 : ready'[i] # h
    BY <1>1, <1>2 DEF Loop, InOnePlace, n
  <2>3. \A t \in Task : InReady(t) /\ t # h => InReady(t)'
    <3>1. TAKE t \in Task
    <3>2. ASSUME t # h, NEW i \in 1..n, ready[i] = t PROVE \E k \in 1..n - 1 : ready'[k] = t
      <4>1. i - 1 \in 1..n - 1 /\ (i - 1) + 1 = i
        BY <1>1, <1>2, <3>2
      <4> QED BY <1>1, <3>2, <4>1
    <3> QED BY <1>1, <3>2 DEF InReady, n
  <2> QED BY <1>1, <2>1, <2>2, <2>3 DEF InReady
<1>5. InReady(h)
  BY <1>1, <1>2 DEF InReady, n
<1>6. InOnePlace'
  <2>1. \A i, k \in 1..n - 1 : ready'[i] = ready'[k] /\ ready'[i] # Main => i = k
    <3>1. TAKE i, k \in 1..n - 1
    <3>2. HAVE ready'[i] = ready'[k] /\ ready'[i] # Main
    <3>3. i + 1 = k + 1
      BY <1>1, <1>2, <3>2 DEF Loop, InOnePlace, n
    <3> QED BY <1>1, <3>3
  <2>2. \A t \in Task : t # Main
    BY TaskShape
  <2>3. \A t \in Task : HasEnded(t)' <=> ~InReady(t)' /\ t \notin sleeping' /\ current' # t
    BY <1>1, <1>3, <1>4, <1>5, <2>2 DEF Loop, InOnePlace, HasEnded
  <2>4. \A t \in Task : InReady(t)' => t \notin sleeping' /\ current' # t
    BY <1>1, <1>3, <1>4, <1>5, <2>2 DEF Loop, InOnePlace
  <2>5. current' \notin sleeping' /\ \A t \in sleeping' : pc'[t] = "emit"
    BY <1>1, <1>3, <1>5 DEF Loop, InOnePlace
  <2> QED BY <1>1, <2>1, <2>3, <2>4, <2>5 DEF InOnePlace
<1>7. OutputsFirst'
  <2> SUFFICES ASSUME NEW p \in Probe, NEW j \in 1..Len(OutputList[p]), pc[<<p, j>>] = "new"
               PROVE  /\ pc[<<p, 0>>] = "new" /\ h # <<p, 0>>
                      /\ \A i, k \in 1..n - 1 :
                           ready'[i] = <<p, 0>> /\ ready'[k] = <<p, j>> => k < i
    BY <1>1 DEF OutputsFirst
  <2>1. /\ pc[<<p, 0>>] = "new"
        /\ \A i, k \in 1..n : ready[i] = <<p, 0>> /\ ready[k] = <<p, j>> => k < i
    BY <1>1 DEF Loop, OutputsFirst, n
  <2>2. <<p, j>> \in Task
    BY TaskPairs, TaskShape
  <2>3. InReady(<<p, j>>)
    BY <1>1, <2>2, TaskShape DEF Loop, InOnePlace, HasEnded
  <2>4. h # <<p, 0>>
    <3>1. PICK k \in 1..n : ready[k] = <<p, j>>
      BY <2>3 DEF InReady, n
    <3> QED BY <1>1, <1>2, <2>1, <3>1
  <2>5. ASSUME NEW i \in 1..n - 1, NEW k \in 1..n - 1, ready'[i] = <<p, 0>>, ready'[k] = <<p, j>>
        PROVE  k < i
    <3>1. k + 1 < i + 1
      BY <1>1, <1>2, <2>1, <2>5
    <3> QED BY <1>1, <3>1
  <2> QED BY <2>1, <2>4, <2>5
<1> QED BY <1>6, <1>7 DEF Loop

(* A task, or Main, that comes to the end of the queue.                     *)
LEMMA AppendReady ==
  ASSUME TypeOK, NEW t \in Task \cup {Main}, ready' = Append(ready, t)
  PROVE  /\ Len(ready) \in Nat /\ Len(ready') = Len(ready) + 1
         /\ \A i \in 1..Len(ready) : ready'[i] = ready[i]
         /\ ready'[Len(ready) + 1] = t
         /\ \A i \in 1..Len(ready') : i \in 1..Len(ready) \/ i = Len(ready) + 1
         /\ \A s \in Task : InReady(s)' <=> InReady(s) \/ s = t
<1> DEFINE n == Len(ready)
<1>1. /\ n \in Nat /\ Len(ready') = n + 1 /\ ready'[n + 1] = t
      /\ \A i \in 1..n : ready'[i] = ready[i]
  BY DEF TypeOK
<1>2. /\ \A i \in 1..n + 1 : i \in 1..n \/ i = n + 1
      /\ n + 1 \in 1..n + 1 /\ \A i \in 1..n : i \in 1..n + 1
  BY <1>1
<1> HIDE DEF n
<1>3. \A s \in Task : InReady(s)' <=> InReady(s) \/ s = t
  BY <1>1, <1>2 DEF InReady, n
<1> QED BY <1>1, <1>2, <1>3 DEF n

LEMMA LoopWake ==
  ASSUME TypeOK, Loop, NEW t \in Task, Wake(t)
  PROVE  Loop'
<1>1. /\ phase = "running" /\ t \in sleeping /\ ready' = Append(ready, t)
      /\ sleeping' = sleeping \ {t} /\ phase' = phase /\ current' = current /\ pc' = pc
  BY DEF Wake
<1>2. pc[t] = "emit" /\ ~InReady(t) /\ current # t
  BY <1>1 DEF Loop, InOnePlace
<1>3. InOnePlace'
  <2>1. \A i, k \in 1..Len(ready') : ready'[i] = ready'[k] /\ ready'[i] # Main => i = k
    BY <1>1, <1>2, AppendReady DEF Loop, InOnePlace, InReady
  <2>2. \A s \in Task : InReady(s)' <=> InReady(s) \/ s = t
    BY <1>1, AppendReady
  <2>3. \A s \in Task : HasEnded(s)' <=> ~InReady(s)' /\ s \notin sleeping' /\ current' # s
    BY <1>1, <1>2, <2>2 DEF Loop, InOnePlace, HasEnded
  <2> QED BY <1>1, <1>2, <2>1, <2>2, <2>3 DEF Loop, InOnePlace
<1>4. OutputsFirst'
  <2> SUFFICES ASSUME NEW p \in Probe, NEW j \in 1..Len(OutputList[p]), pc[<<p, j>>] = "new",
                      NEW i \in 1..Len(ready'), NEW k \in 1..Len(ready'),
                      ready'[i] = <<p, 0>>, ready'[k] = <<p, j>>
               PROVE  k < i
    BY <1>1 DEF OutputsFirst, Loop
  <2>1. t # <<p, 0>> /\ t # <<p, j>>
    BY <1>1, <1>2 DEF Loop, OutputsFirst
  <2>2. i \in 1..Len(ready) /\ k \in 1..Len(ready) /\ ready[i] = <<p, 0>> /\ ready[k] = <<p, j>>
    BY <1>1, <2>1, AppendReady
  <2> QED BY <1>1, <2>2 DEF Loop, OutputsFirst
<1> QED BY <1>3, <1>4 DEF Loop

(* A task that gives the thread back for good.                              *)
LEMMA LoopLeave ==
  ASSUME TypeOK, Loop, NEW t \in Task, Executing(t), NEW end \in {"done", "dead"},
         pc' = [pc EXCEPT ![t] = end], current' = Main,
         phase' = phase, sleeping' = sleeping,
         ready' = ready \/ ready' = Append(ready, Main)
  PROVE  Loop'
<1>1. phase = "running" /\ current = t /\ Main \notin Task /\ ~InReady(t) /\ t \notin sleeping
  BY TaskShape DEF Executing, Loop, InOnePlace
<1>2. /\ pc'[t] = end
      /\ \A s \in Task : s # t => pc'[s] = pc[s]
  BY DEF TypeOK
<1>3. \A s \in Task : InReady(s)' <=> InReady(s)
  <2>1. CASE ready' = ready
    BY <2>1 DEF InReady
  <2>2. CASE ready' = Append(ready, Main)
    BY <1>1, <2>2, AppendReady
  <2> QED BY <2>1, <2>2
<1>4. \A i \in 1..Len(ready') : ready'[i] # Main =>
        i \in 1..Len(ready) /\ ready'[i] = ready[i]
  <2>1. CASE ready' = ready
    BY <2>1
  <2>2. CASE ready' = Append(ready, Main)
    BY <2>2, AppendReady
  <2> QED BY <2>1, <2>2
<1>5. InOnePlace'
  <2>1. \A i, k \in 1..Len(ready') : ready'[i] = ready'[k] /\ ready'[i] # Main => i = k
    BY <1>1, <1>4 DEF Loop, InOnePlace
  <2>2. \A s \in Task : HasEnded(s)' <=> ~InReady(s)' /\ s \notin sleeping' /\ current' # s
    BY <1>1, <1>2, <1>3 DEF Loop, InOnePlace, HasEnded
  <2>3. Main \notin sleeping /\ \A s \in sleeping : s \in Task /\ s # t
    BY <1>1 DEF TypeOK
  <2> QED BY <1>1, <1>2, <1>3, <2>1, <2>2, <2>3 DEF Loop, InOnePlace
<1>6. OutputsFirst'
  <2> SUFFICES ASSUME NEW p \in Probe, NEW j \in 1..Len(OutputList[p]), pc'[<<p, j>>] = "new"
               PROVE  /\ pc'[<<p, 0>>] = "new" /\ Main # <<p, 0>>
                      /\ \A i, k \in 1..Len(ready') :
                           ready'[i] = <<p, 0>> /\ ready'[k] = <<p, j>> => k < i
    BY DEF OutputsFirst
  <2>1. <<p, 0>> \in Task /\ <<p, j>> \in Task
    BY ProbeTaskIsTask, TaskPairs, TaskShape DEF ProbeTask
  <2>2. pc[<<p, j>>] = "new"
    BY <1>2, <2>1
  <2>3. pc[<<p, 0>>] = "new" /\ <<p, 0>> # t
    BY <1>1, <2>2 DEF Loop, OutputsFirst
  <2>4. \A i, k \in 1..Len(ready) : ready[i] = <<p, 0>> /\ ready[k] = <<p, j>> => k < i
    BY <1>1, <2>2 DEF Loop, OutputsFirst
  <2> QED BY <1>1, <1>2, <1>4, <2>1, <2>3, <2>4
<1> QED BY <1>5, <1>6 DEF Loop

(* The way of the exception through the queue.                              *)
LEMMA LoopUnwind ==
  ASSUME TypeOK, Loop, UnwindStep
  PROVE  Loop'
<1> DEFINE n == Len(ready)
<1>1. /\ phase = "running" /\ current' = current
      /\ phase' = phase /\ sleeping' = sleeping /\ pc' = pc
      /\ n \in Nat /\ n > 0 /\ Main = ready[1]
      /\ Len(ready') = n /\ ready'[n] = Main
      /\ \A i \in 1..n - 1 : ready'[i] = ready[i + 1]
  BY DEF UnwindStep, TypeOK
<1> HIDE DEF n
<1>2. /\ \A i \in 1..n : i = n \/ i \in 1..n - 1
      /\ \A i \in 1..n - 1 : i + 1 \in 1..n /\ i \in 1..n
      /\ \A i \in 1..n : i = 1 \/ (i - 1 \in 1..n - 1 /\ (i - 1) + 1 = i)
  BY <1>1
<1>3. \A t \in Task : InReady(t)' <=> InReady(t)
  <2>1. \A t \in Task : InReady(t)' => InReady(t)
    BY <1>1, <1>2, TaskShape DEF InReady, n
  <2>2. ASSUME NEW t \in Task, NEW i \in 1..n, ready[i] = t PROVE \E k \in 1..n : ready'[k] = t
    <3>1. i - 1 \in 1..n - 1 /\ (i - 1) + 1 = i /\ i - 1 \in 1..n
      BY <1>1, <1>2, <2>2, TaskShape
    <3> QED BY <1>1, <2>2, <3>1
  <2> QED BY <1>1, <2>1, <2>2 DEF InReady, n
<1>4. \A i \in 1..n : ready'[i] # Main => i + 1 \in 1..n /\ ready'[i] = ready[i + 1]
  BY <1>1, <1>2
<1>5. ASSUME NEW i \in 1..n, NEW k \in 1..n, ready'[i] = ready'[k], ready'[i] # Main
      PROVE  i = k
  <2>1. i + 1 = k + 1
    BY <1>1, <1>4, <1>5 DEF Loop, InOnePlace, n
  <2> QED BY <1>1, <2>1
<1>6. InOnePlace'
  BY <1>1, <1>3, <1>5 DEF Loop, InOnePlace, HasEnded
<1>7. OutputsFirst'
  <2> SUFFICES ASSUME NEW p \in Probe, NEW j \in 1..Len(OutputList[p]), pc[<<p, j>>] = "new",
                      NEW i \in 1..n, NEW k \in 1..n, ready'[i] = <<p, 0>>, ready'[k] = <<p, j>>
               PROVE  k < i
    BY <1>1 DEF OutputsFirst, Loop
  <2>1. <<p, 0>> # Main /\ <<p, j>> # Main
    BY ProbeTaskIsTask, TaskPairs, TaskShape DEF ProbeTask
  <2>2. k + 1 < i + 1
    BY <1>1, <1>4, <2>1 DEF Loop, OutputsFirst, n
  <2> QED BY <1>1, <2>2
<1> QED BY <1>6, <1>7 DEF Loop

(* A probe that goes on within its cycle.                                   *)
LEMMA LoopGoOn ==
  ASSUME TypeOK, Loop, NEW p \in Probe, Executing(ProbeTask(p)),
         NEW stage \in {"emit", "probe", "rest"},
         pc' = [pc EXCEPT ![ProbeTask(p)] = stage],
         UNCHANGED <<phase, ready, sleeping, current>>
  PROVE  Loop'
<1> DEFINE t == ProbeTask(p)
<1>1. phase = "running" /\ current = t /\ t \in Task /\ ~InReady(t) /\ t \notin sleeping
  BY ProbeTaskIsTask DEF Executing, Loop, InOnePlace
<1>2. /\ pc'[t] = stage
      /\ \A s \in Task : s # t => pc'[s] = pc[s]
      /\ \A s \in Task : InReady(s)' = InReady(s)
  BY <1>1 DEF TypeOK, InReady
<1>3. ~HasEnded(t)
  BY <1>1 DEF Loop, InOnePlace
<1>4. InOnePlace'
  <2>1. \A s \in Task : HasEnded(s)' <=> HasEnded(s)
    BY <1>2, <1>3 DEF HasEnded
  <2>2. \A s \in sleeping : s \in Task /\ s # t
    BY <1>1 DEF TypeOK
  <2> QED BY <1>1, <1>2, <2>1, <2>2 DEF Loop, InOnePlace
<1>5. OutputsFirst'
  <2> SUFFICES ASSUME NEW q \in Probe, NEW j \in 1..Len(OutputList[q]), pc'[<<q, j>>] = "new"
               PROVE  /\ pc'[<<q, 0>>] = "new" /\ current # <<q, 0>>
                      /\ \A i, k \in 1..Len(ready) :
                           ready[i] = <<q, 0>> /\ ready[k] = <<q, j>> => k < i
    BY DEF OutputsFirst
  <2>1. <<q, 0>> \in Task /\ <<q, j>> \in Task
    BY ProbeTaskIsTask, TaskPairs, TaskShape DEF ProbeTask
  <2>2. pc[<<q, j>>] = "new"
    BY <1>2, <2>1
  <2> QED BY <1>1, <1>2, <2>1, <2>2 DEF Loop, OutputsFirst
<1> QED BY <1>4, <1>5 DEF Loop

LEMMA LoopSleep ==
  ASSUME TypeOK, Loop, NEW p \in Probe, Sleep(p)
  PROVE  Loop'
<1> DEFINE t == ProbeTask(p)
<1>1. /\ phase = "running" /\ current = t /\ t \in Task /\ ~InReady(t) /\ t \notin sleeping
      /\ phase' = phase /\ ready' = ready /\ sleeping' = sleeping \cup {t}
      /\ current' = Main /\ Main \notin Task
  BY ProbeTaskIsTask, TaskShape DEF Sleep, Executing, Loop, InOnePlace
<1>2. /\ pc[t] = "rest" /\ pc'[t] = "emit"
      /\ \A s \in Task : s # t => pc'[s] = pc[s]
      /\ \A s \in Task : InReady(s)' = InReady(s)
  BY <1>1 DEF Sleep, TypeOK, InReady
<1>3. InOnePlace'
  <2>1. \A s \in Task : HasEnded(s)' <=> ~InReady(s)' /\ s \notin sleeping' /\ current' # s
    BY <1>1, <1>2 DEF Loop, InOnePlace, HasEnded
  <2>2. Main \notin sleeping' /\ \A s \in sleeping' : s \in Task
    BY <1>1 DEF TypeOK
  <2> QED BY <1>1, <1>2, <2>1, <2>2 DEF Loop, InOnePlace
<1>4. OutputsFirst'
  <2> SUFFICES ASSUME NEW q \in Probe, NEW j \in 1..Len(OutputList[q]), pc'[<<q, j>>] = "new"
               PROVE  /\ pc'[<<q, 0>>] = "new" /\ Main # <<q, 0>>
                      /\ \A i, k \in 1..Len(ready) :
                           ready[i] = <<q, 0>> /\ ready[k] = <<q, j>> => k < i
    BY <1>1 DEF OutputsFirst
  <2>1. <<q, 0>> \in Task /\ <<q, j>> \in Task
    BY ProbeTaskIsTask, TaskPairs, TaskShape DEF ProbeTask
  <2>2. pc[<<q, j>>] = "new"
    BY <1>2, <2>1
  <2> QED BY <1>1, <1>2, <2>1, <2>2 DEF Loop, OutputsFirst
<1> QED BY <1>3, <1>4 DEF Loop

LEMMA LoopProbe ==
  ASSUME TypeOK, Loop, NEW p \in Probe, RunProbe(p)
  PROVE  Loop'
<1>1. ProbeTask(p) \in Task
  BY ProbeTaskIsTask
<1>2. CASE Begin(p) \/ EndEmit(p) \/ NoData(p) \/ Overrun(p)
  BY <1>2, LoopGoOn DEF Begin, EndEmit, NoData, Overrun
<1>3. CASE Data(p)
  <2>1. CASE Kind[p] = "file"
    BY <1>3, <2>1, LoopFrame DEF Data
  <2>2. CASE Kind[p] # "file"
    BY <1>3, <2>2, LoopGoOn DEF Data
  <2> QED BY <2>1, <2>2
<1>4. CASE SendEmission(p)
  BY <1>4, LoopFrame DEF SendEmission, loopVars
<1>5. CASE RaiseInEmit(p)
  <2>1. Raise(ProbeTask(p)) /\ Executing(ProbeTask(p)) /\ UNCHANGED <<phase, sleeping>>
    BY <1>5 DEF RaiseInEmit
  <2> QED BY <1>1, <2>1, LoopLeave DEF Raise
<1>6. CASE RaiseInProbe(p)
  <2>1. Raise(ProbeTask(p)) /\ Executing(ProbeTask(p)) /\ UNCHANGED <<phase, sleeping>>
    BY <1>6 DEF RaiseInProbe
  <2> QED BY <1>1, <2>1, LoopLeave DEF Raise
<1>7. CASE Sleep(p)
  BY <1>7, LoopSleep
<1> QED BY <1>2, <1>3, <1>4, <1>5, <1>6, <1>7 DEF RunProbe

LEMMA LoopStep ==
  ASSUME TypeOK, Wiring, JoinsInOrder, NothingRuns, Loop, [Next]_vars
  PROVE  Loop'
<1>1. CASE phase' # "running"
  BY <1>1 DEF Loop, InOnePlace, OutputsFirst
<1>2. CASE JoinPlugins
  BY <1>2, LoopJoin
<1>3. CASE Dispatch \/ UnwindStep
  BY <1>3, LoopDispatch, LoopUnwind
<1>4. ASSUME NEW t \in Task, RunOutput(t) PROVE Loop'
  BY <1>4, LoopLeave DEF RunOutput
<1>5. ASSUME NEW t \in Task, RaiseInOnStart(t) PROVE Loop'
  <2>1. Raise(t) /\ Executing(t) /\ UNCHANGED <<phase, sleeping>>
    BY <1>5 DEF RaiseInOnStart
  <2> QED BY <2>1, LoopLeave DEF Raise
<1>6. CASE UNCHANGED loopVars /\ phase' = phase
  BY <1>6, LoopFrame DEF loopVars
<1>7. CASE UNCHANGED vars
  BY <1>6, <1>7 DEF vars
<1>8. CASE ConnectOutput \/ StartProbe \/ OnStop
  BY <1>6, <1>8 DEF ConnectOutput, StartProbe, OnStop
<1>9. CASE RaiseInStartup \/ Teardown \/ RaiseInOnStop \/ Exit \/ Sigint \/ Sigterm
  BY <1>1, <1>9 DEF RaiseInStartup, Teardown, RaiseInOnStop, Exit, Sigint, Sigterm, CancelAll
<1> QED
  BY <1>2, <1>3, <1>4, <1>5, <1>7, <1>8, <1>9, LoopWake, LoopProbe
     DEF Next, Thread, Startup, EventLoop, RunTask, Shutdown

-----------------------------------------------------------------------------
LEMMA OpenedStep ==
  ASSUME TypeOK, Wiring, JoinsInOrder, OpenedJoined, [Next]_vars
  PROVE  OpenedJoined'
<1>1. ASSUME NEW t \in Task, phase = "running"
      PROVE  \E i \in 1..Len(joins) : joins[i] = t
  BY <1>1, TaskShape DEF Wiring, JoinsInOrder, Reached, Probe
<1>2. ASSUME NEW t \in Task, Executing(t), opened' \subseteq opened \cup {t}, joins' = joins
      PROVE  OpenedJoined'
  BY <1>1, <1>2 DEF Executing, OpenedJoined
<1>3. ASSUME NEW t \in Task, RunOutput(t) PROVE OpenedJoined'
  BY <1>2, <1>3 DEF RunOutput, startVars
<1>4. ASSUME NEW p \in Probe, Begin(p) PROVE OpenedJoined'
  BY <1>2, <1>4, ProbeTaskIsTask DEF Begin, startVars
<1>5. CASE opened' = opened /\ joins' = joins
  BY <1>5 DEF OpenedJoined
<1>6. ASSUME NEW t \in Task, joins' = Append(joins, t), opened' = opened
      PROVE  OpenedJoined'
  <2>1. /\ Len(joins) \in Nat /\ Len(joins') = Len(joins) + 1
        /\ \A i \in 1..Len(joins) : joins'[i] = joins[i] /\ i \in 1..Len(joins')
    BY <1>6 DEF TypeOK
  <2> QED BY <1>6, <2>1 DEF OpenedJoined
<1>7. CASE ConnectOutput \/ StartProbe
  <2>1. cursor[1] \in Probe => ProbeTask(cursor[1]) \in Task
    BY ProbeTaskIsTask
  <2>2. ConnectOutput => <<cursor[1], cursor[2]>> \in Task
    <3>1. ASSUME ConnectOutput
          PROVE  cursor[1] \in Probe /\ cursor[2] \in 0..Len(OutputList[cursor[1]])
      BY <3>1, TaskShape DEF ConnectOutput, TypeOK
    <3> QED BY <3>1, TaskPairs
  <2> QED BY <1>6, <1>7, <2>1, <2>2 DEF ConnectOutput, StartProbe, loopVars
<1>8. \/ \E t \in Task : RunOutput(t)
      \/ \E p \in Probe : Begin(p)
      \/ opened' = opened /\ joins' = joins
      \/ ConnectOutput \/ StartProbe
  BY DEF Next, vars, startVars, loopVars, Thread, Startup, EventLoop, RunTask, Shutdown,
         JoinPlugins, RaiseInStartup, Dispatch, UnwindStep, Teardown, CancelAll,
         RaiseInOnStart, RunProbe, SendEmission, RaiseInEmit,
         EndEmit, Data, NoData, RaiseInProbe, Sleep, Overrun, OnStop,
         RaiseInOnStop, Exit, Wake, Sigint, Sigterm
<1> QED BY <1>3, <1>4, <1>5, <1>7, <1>8

(* What TaskInv says holds throughout.                                      *)
THEOREM TaskInvHolds == Spec => [](TypeOK /\ FanOut /\ TaskInv)
<1>1. Init => TypeOK /\ FanOut /\ TaskInv
  BY InitTypeOK, InitFanOut, InitTaskInv
<1>2. TypeOK /\ FanOut /\ TaskInv /\ [Next]_vars => (TypeOK /\ FanOut /\ TaskInv)'
  BY TypeStep, FanOutStep, JoinsStep, NothingRunsStep, StartedStep, LoopStep, OpenedStep
     DEF TaskInv, Loop, FanOut
<1> QED BY <1>1, <1>2, PTL DEF Spec

(* The event loop neither loses nor duplicates a task: one that has not     *)
(* ended has the thread, sleeps or is queued, and is queued once.           *)
THEOREM TasksAreHeldOnce == Spec => []TaskHeldOnce
<1>1. ASSUME TypeOK, InOnePlace, phase = "running", NEW t \in Task
      PROVE  LET places == (IF current = t THEN 1 ELSE 0)
                           + (IF t \in sleeping THEN 1 ELSE 0)
                           + Cardinality({i \in 1..Len(ready) : ready[i] = t})
             IN places = IF pc[t] \in {"done", "dead"} THEN 0 ELSE 1
  <2> DEFINE I == {i \in 1..Len(ready) : ready[i] = t}
  <2>1. Cardinality(I) = IF InReady(t) THEN 1 ELSE 0
    <3>1. CASE InReady(t)
      <4>1. PICK i \in 1..Len(ready) : ready[i] = t
        BY <3>1 DEF InReady
      <4>2. I = {i}
        BY <1>1, <4>1, TaskShape DEF InOnePlace
      <4> QED BY <3>1, <4>2, FS_Singleton
    <3>2. CASE ~InReady(t)
      BY <3>2, FS_EmptySet DEF InReady
    <3> QED BY <3>1, <3>2
  <2> HIDE DEF I
  <2>2. /\ HasEnded(t) <=> ~InReady(t) /\ t \notin sleeping /\ current # t
        /\ InReady(t) => t \notin sleeping /\ current # t
        /\ current \notin sleeping
    BY <1>1 DEF InOnePlace
  <2> QED BY <2>1, <2>2 DEF I, HasEnded
<1>2. TypeOK /\ TaskInv => TaskHeldOnce
  BY <1>1 DEF TaskInv, TaskHeldOnce
<1> QED BY <1>2, TaskInvHolds, PTL

(* No output is handed a message before its on_start() and its start().     *)
THEOREM EmitsAfterStart == Spec => EmitAfterStart
<1> DEFINE A == \A t \in Task : last'[t] # last[t] =>
                  pc[t] # "new" /\ OutputOf(t) \in set_up \cup LazyStart
<1>1. ASSUME TypeOK, FanOut, TaskInv, [Next]_vars PROVE A
  <2> SUFFICES ASSUME NEW t \in Task, last'[t] # last[t]
               PROVE  pc[t] # "new" /\ OutputOf(t) \in set_up \cup LazyStart
    OBVIOUS
  <2>1. PICK p \in Probe : SendEmission(p)
    BY <1>1, OnlySendEmissionDelivers
  <2>2. PICK j \in 1..Len(OutputList[p]) : last' = [last EXCEPT ![<<p, j>>] = produced[p]]
    BY <1>1, <2>1, SendEmissionDelivers
  <2>3. t = <<p, j>> /\ phase = "running" /\ current = <<p, 0>>
    BY <1>1, <2>1, <2>2 DEF TypeOK, SendEmission, Executing, ProbeTask
  <2>4. pc[t] # "new"
    BY <1>1, <2>3 DEF TaskInv, OutputsFirst
  <2>5. cursor[1] = N + 1 /\ p \in Probe
    BY <1>1, <2>3 DEF FanOut, Wiring
  <2>6. Len(emitters[p]) = Len(OutputList[p])
    BY <1>1, <2>5, TaskShape DEF FanOut, Wiring, Connected, Probe
  <2>7. OutputOf(t) = OutputList[p][j]
    BY <2>3 DEF OutputOf
  <2> QED BY <1>1, <2>4, <2>6, <2>7 DEF TaskInv, StartedFirst
<1>2. TypeOK /\ FanOut /\ TaskInv /\ [Next]_vars => [A]_vars
  BY <1>1
<1> HIDE DEF A
<1>3. Spec => [][A]_vars
  BY <1>2, TaskInvHolds, PTL DEF Spec
<1> QED BY <1>3 DEF EmitAfterStart, A

(* In the foreground, with neither a SIGTERM nor a failing on_stop() nor a  *)
(* SIGINT on the way down, whatever had on_start() called has on_stop()     *)
(* called before the process is gone, whichever plugin raised and wherever  *)
(* SIGINT came.                                                             *)
THEOREM StopsCleanly ==
  Modes = {TRUE} /\ Faults \cap {"sigterm", "on_stop", "late_sigint"} = {} => (Spec => []StoppedCleanly)
<1> SUFFICES ASSUME Modes = {TRUE}, Faults \cap {"sigterm", "on_stop", "late_sigint"} = {}
             PROVE  Spec => []StoppedCleanly
  OBVIOUS
<1> DEFINE Closed == foreground = TRUE /\ (phase = "stopped" => closed = Len(joins))
<1>1. Init => Closed
  BY DEF Init
<1>2. Closed /\ [Next]_vars => Closed'
  <2>1. SUFFICES ASSUME Closed, [Next]_vars PROVE Closed'
    OBVIOUS
  <2>2. foreground' = foreground
    BY <2>1 DEF Next, vars, startVars, Thread, Startup, EventLoop, RunTask, Shutdown,
           ConnectOutput, StartProbe, JoinPlugins, RaiseInStartup, Dispatch,
           UnwindStep, Teardown, CancelAll, RunOutput, RaiseInOnStart, RunProbe,
           Begin, SendEmission, RaiseInEmit, EndEmit, Data, NoData, RaiseInProbe,
           Sleep, Overrun, OnStop, RaiseInOnStop, Exit, Wake, Sigint, Sigterm
  <2>3. Exit \/ UNCHANGED <<phase, closed, joins>> \/ phase' # "stopped"
    BY <2>1 DEF Next, vars, startVars, Thread, Startup, EventLoop, RunTask, Shutdown,
           ConnectOutput, StartProbe, JoinPlugins, RaiseInStartup, Dispatch,
           UnwindStep, Teardown, CancelAll, RunOutput, RaiseInOnStart, RunProbe,
           Begin, SendEmission, RaiseInEmit, EndEmit, Data, NoData, RaiseInProbe,
           Sleep, Overrun, OnStop, RaiseInOnStop, Wake, Sigint, Sigterm
  <2>4. CASE Exit
    BY <2>1, <2>2, <2>4 DEF Exit, startVars
  <2> QED BY <2>1, <2>2, <2>3, <2>4
<1>3. Closed /\ TaskInv => StoppedCleanly
  BY DEF TaskInv, OpenedJoined, StoppedCleanly
<1> HIDE DEF Closed
<1> QED BY <1>1, <1>2, <1>3, TaskInvHolds, PTL DEF Spec
=============================================================================
