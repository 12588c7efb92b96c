-------------------------------- MODULE Ping --------------------------------
(***************************************************************************)
(* The ping probes: FPing over the hosts of its groups, FPingMTR over the  *)
(* hops of a traceroute, either with the Rust extension, which pings host  *)
(* after host, or with the fping command, whose output lines are parsed;   *)
(* and the Prometheus output of an FPing.                                  *)
(*                                                                         *)
(* A ping is its latency, or Lost; a fraction is a pair.                   *)
(***************************************************************************)
EXTENDS Integers, Sequences, SequencesExt, FiniteSets

CONSTANTS
  Host,       \* hosts
  GroupList,  \* groups of an FPing: the dicts in its config, then its `groups`
  Count,      \* pings per host
  Time,       \* latencies
  MaxCycles,  \* bound: probe() calls
  MaxLines    \* bound: lines that traceroute prints, and that fping prints

Lost == 0
NoRow == [host |-> "none"]   \* the None of a line that cannot be parsed
Star == "*"                  \* a hop that did not answer

ASSUME PingAssumption ==
  /\ GroupList \in Seq([name : STRING, hosts : Seq(Host)]) /\ Count \in Nat /\ Time \subseteq Nat \ {Lost}
  /\ MaxCycles \in Nat /\ MaxLines \in Nat
  /\ {"none", Star} \cap Host = {}

VARIABLES
  plugin,  \* [mtr, use_rust]: which of the four probes this is
  pc,      \* "idle", "pinging", "dead" after an exception
  cycles,  \* probe() calls so far
  hosts,   \* hosts_args() of this cycle
  ping,    \* the PingResult being built, and sent_count
  rows,    \* the results of this cycle; once idle, the message in the queue
  pings,   \* pings[i]: the pings that rows[i] is about
  hops,    \* `data` of the one row of FPingMTR's message
  metrics, \* Prometheus' metrics per host
  pinged   \* pings of each host that have been run, or that fping has reported

vars == <<plugin, pc, cycles, hosts, ping, rows, pings, hops, metrics, pinged>>

Fraction == Nat \X (Nat \ {0})
Summary == [min : Time, max : Time, avg : Fraction, last : Time]
Row == [host : Host, cnt : Nat, loss : Fraction, data : Seq(Time),
        summary : Summary \cup {<<>>}]

TypeOK ==
  /\ plugin \in [mtr : BOOLEAN, use_rust : BOOLEAN]
  /\ pc \in {"idle", "pinging", "dead"}
  /\ cycles \in 0..MaxCycles
  /\ hosts \in Seq(Host)
  /\ ping \in [times : Seq(Time), summary : Summary \cup {<<>>}, sent : 0..Count,
               log : Seq(Time \cup {Lost}), over : BOOLEAN]
  /\ rows \in Seq(Row \cup {NoRow})
  /\ pings \in Seq(Seq(Time \cup {Lost}))
  /\ \E reported \in SUBSET Host : hops \in [reported -> Row]
  /\ metrics \in [Host -> [sent : Nat, loss : Fraction, observed : Nat]]
  /\ pinged \in [Host -> Nat]

NewPing == [times |-> <<>>, summary |-> <<>>, sent |-> 0, log |-> <<>>, over |-> FALSE]

Init ==
  /\ plugin \in [mtr : BOOLEAN, use_rust : BOOLEAN]
  /\ pc = "idle" /\ cycles = 0
  /\ hosts = <<>> /\ ping = NewPing /\ rows = <<>> /\ pings = <<>> /\ hops = <<>>
  /\ metrics = [h \in Host |-> [sent |-> 0, loss |-> <<0, 1>>, observed |-> 0]]
  /\ pinged = [h \in Host |-> 0]

-----------------------------------------------------------------------------
(* Operators on results.                                                    *)

FractionOf(a, b) == IF a = 0 THEN <<0, 1>> ELSE <<a, b>>

Fastest(times) == FoldLeft(LAMBDA a, b : IF b < a THEN b ELSE a, times[1], times)
Slowest(times) == FoldLeft(LAMBDA a, b : IF b > a THEN b ELSE a, times[1], times)
Sum(times) == FoldLeft(LAMBDA a, b : a + b, 0, times)

(* Mutant: the sum is not kept from answer to answer.                       *)
Summarise_NoSum(times) ==
  [min |-> Fastest(times), max |-> Slowest(times), avg |-> <<Last(times), Len(times)>>,
   last |-> Last(times)]

Summarise(times) ==
  [min |-> Fastest(times), max |-> Slowest(times), avg |-> <<Sum(times), Len(times)>>,
   last |-> Last(times)]

(* PingResult.add_time.                                                     *)
AddTime(result, time) ==
  LET times == Append(result.times, time)
  IN [result EXCEPT !.times = times, !.summary = Summarise(times)]

(* PingResult.set_loss; the subtraction is one of unsigned numbers.         *)
SetLoss(host, result) ==
  [host |-> host, cnt |-> result.sent,
   loss |-> IF result.sent > 0
            THEN FractionOf(result.sent - Len(result.times), result.sent)
            ELSE <<0, 1>>,
   data |-> result.times, summary |-> result.summary]

(* The latencies in fping's line for a host.                                *)
TimesIn(log) ==
  FoldLeft(LAMBDA times, t : IF t = Lost THEN times ELSE Append(times, t), <<>>, log)

(* parse_verbose on such a line.                                            *)
ParseVerbose(host, log) ==
  LET times == TimesIn(log)
  IN [host |-> host, cnt |-> Len(log),
      loss |-> FractionOf(Len(log) - Len(times), Len(log)),
      data |-> times,
      summary |-> IF times = <<>> THEN <<>> ELSE Summarise(times)]

(* Mutant: a host that is in two groups is pinged twice.                    *)
Dedupe_Not(list) == list

(* hosts_args: the first occurrence of each host.                           *)
Dedupe(list) ==
  FoldLeft(LAMBDA seen, h : IF Contains(seen, h) THEN seen ELSE Append(seen, h), <<>>, list)

(* parse_traceroute: the first occurrence of each hop that answered.        *)
HopsIn(route) ==
  FoldLeft(LAMBDA seen, hop : IF hop = Star \/ Contains(seen, hop) THEN seen
                              ELSE Append(seen, hop), <<>>, route)

(* Mutant: a row without answers is skipped.                                *)
Observe_OnlyAnswers(m, row) ==
  IF row = NoRow \/ row.summary = <<>> THEN m
  ELSE [m EXCEPT ![row.host] = [sent |-> @.sent + row.cnt, loss |-> row.loss,
                                observed |-> @.observed + 1]]

(* What Prometheus.emit does with a row.                                    *)
Observe(m, row) ==
  IF row = NoRow THEN m
  ELSE [m EXCEPT ![row.host] =
          [sent |-> @.sent + row.cnt, loss |-> row.loss,
           observed |-> @.observed + (IF row.summary = <<>> THEN 0 ELSE 1)]]

-----------------------------------------------------------------------------
(* A cycle: what the last one has queued is emitted first, then probe() is  *)
(* called.  (An FPingMTR has no Prometheus among its outputs: emit() raises *)
(* on its row of hops, which has no cnt.)                                   *)
Start(list) ==
  /\ pc = "idle" /\ cycles < MaxCycles
  /\ metrics' = IF plugin.mtr THEN metrics ELSE FoldLeft(Observe, metrics, rows)
  /\ cycles' = cycles + 1
  /\ hosts' = list
  /\ pc' = IF plugin.mtr /\ list = <<>> THEN "dead" ELSE "pinging"
  /\ ping' = NewPing /\ rows' = <<>> /\ pings' = <<>> /\ hops' = <<>>
  /\ UNCHANGED <<plugin, pinged>>

(* PluginBase.groups, a dict by name: a group takes the place of an earlier *)
(* one of its name.                                                         *)
SetGroup(groups, group) ==
  IF \E i \in 1..Len(groups) : groups[i].name = group.name
  THEN [i \in 1..Len(groups) |-> IF groups[i].name = group.name THEN group ELSE groups[i]]
  ELSE Append(groups, group)

Groups == FoldLeft(SetGroup, <<>>, GroupList)

(* FPing.init, FPing.probe: the hosts of the groups.                        *)
GroupHosts == FlattenSeq([i \in 1..Len(Groups) |-> Groups[i].hosts])
StartFPing == ~plugin.mtr /\ Start(Dedupe(GroupHosts))

(* FPingMTR.probe: traceroute first; an exception when it cannot be run or  *)
(* no hop answers.                                                          *)
StartMTR ==
  /\ plugin.mtr
  /\ \E n \in 0..MaxLines : \E route \in [1..n -> Host \cup {Star}] :
       Start(Dedupe(HopsIn(route)))

(* The host that the Rust loop is at.                                       *)
Pinging == pc = "pinging" /\ plugin.use_rust /\ Len(rows) < Len(hosts)
Current == hosts[Len(rows) + 1]

(* Mutant: the counter runs one ahead.                                      *)
PingOnce_OffByOne ==
  /\ Pinging /\ ~ping.over /\ Len(ping.log) <= Count
  /\ \E t \in Time \cup {Lost} :
       LET counted == [ping EXCEPT !.sent = @ + 1, !.log = Append(@, t)]
       IN /\ ping' = IF t = Lost THEN counted ELSE AddTime(counted, t)
          /\ pinged' = [pinged EXCEPT ![Current] = @ + 1]
  /\ UNCHANGED <<plugin, pc, cycles, hosts, rows, pings, hops, metrics>>

(* One turn of ping_host's loop: the ping command answers or fails.         *)
PingOnce ==
  /\ Pinging /\ ~ping.over /\ Len(ping.log) < Count
  /\ \E t \in Time \cup {Lost} :
       LET counted == [ping EXCEPT !.sent = @ + 1, !.log = Append(@, t)]
       IN /\ ping' = IF t = Lost THEN counted ELSE AddTime(counted, t)
          /\ pinged' = [pinged EXCEPT ![Current] = @ + 1]
  /\ UNCHANGED <<plugin, pc, cycles, hosts, rows, pings, hops, metrics>>

(* The command cannot be run: the loop is left.                             *)
PingBroken ==
  /\ Pinging /\ ~ping.over /\ Len(ping.log) < Count
  /\ ping' = [ping EXCEPT !.over = TRUE]
  /\ UNCHANGED <<plugin, pc, cycles, hosts, rows, pings, hops, metrics, pinged>>

HostDone ==
  /\ Pinging /\ (ping.over \/ Len(ping.log) = Count)
  /\ rows' = Append(rows, SetLoss(Current, ping))
  /\ pings' = Append(pings, ping.log)
  /\ ping' = NewPing
  /\ UNCHANGED <<plugin, pc, cycles, hosts, hops, metrics, pinged>>

(* A line of fping's output: the pings of a host it has not had a line for, *)
(* or noise, as its error messages come over the same pipe.                 *)
FpingLine ==
  /\ pc = "pinging" /\ ~plugin.use_rust /\ Len(rows) < MaxLines
  /\ \/ \E i \in 1..Len(hosts) : \E log \in [1..Count -> Time \cup {Lost}] :
          /\ Count > 0
          /\ \A k \in 1..Len(rows) : rows[k].host # hosts[i]
          /\ rows' = Append(rows, ParseVerbose(hosts[i], log))
          /\ pings' = Append(pings, log)
          /\ pinged' = [pinged EXCEPT ![hosts[i]] = @ + Count]
     \/ /\ rows' = Append(rows, NoRow)
        /\ pings' = Append(pings, <<>>)
        /\ UNCHANGED pinged
  /\ UNCHANGED <<plugin, pc, cycles, hosts, ping, hops, metrics>>

(* fping cannot be run, or its output is not UTF-8: no one catches that.    *)
FpingFails ==
  /\ pc = "pinging" /\ ~plugin.use_rust
  /\ pc' = "dead"
  /\ UNCHANGED <<plugin, cycles, hosts, ping, rows, pings, hops, metrics, pinged>>

(* FPingMTR.probe: the rows by their host, a later one over an earlier one. *)
AddRow(data, row) ==
  IF row = NoRow \/ ~Contains(hosts, row.host) THEN data
  ELSE [h \in DOMAIN data \cup {row.host} |-> IF h = row.host THEN row ELSE data[h]]

HopsOf(results) == FoldLeft(AddRow, <<>>, results)

(* probe() returns, and the message is queued.  fping may end, or be        *)
(* killed, with any number of lines out.                                    *)
Finish ==
  /\ pc = "pinging"
  /\ plugin.use_rust => Len(rows) = Len(hosts)
  /\ pc' = "idle"
  /\ hops' = IF plugin.mtr THEN HopsOf(rows) ELSE hops
  /\ UNCHANGED <<plugin, cycles, hosts, ping, rows, pings, metrics, pinged>>

Next ==
  \/ StartFPing \/ StartMTR \/ PingOnce \/ PingBroken \/ HostDone
  \/ FpingLine \/ FpingFails \/ Finish

Spec == Init /\ [][Next]_vars

-----------------------------------------------------------------------------
(* Whichever implementation made it, a row says of the pings it is about    *)
(* how many they were, how many of them got lost, what the fastest, the     *)
(* slowest and the last answer was and what the answers add up to.          *)
AnswersSum(log) ==
  FoldLeft(LAMBDA total, t : IF t = Lost THEN total ELSE total + t, 0, log)

Answers(log) == {i \in 1..Len(log) : log[i] # Lost}

SaysOf(row, log) ==
  /\ row.cnt = Len(log)
  /\ row.loss[1] * Len(log) = Cardinality(1..Len(log) \ Answers(log)) * row.loss[2]
  /\ row.summary = <<>> <=> Answers(log) = {}
  /\ row.summary # <<>> =>
       /\ \A i \in Answers(log) : row.summary.min <= log[i] /\ log[i] <= row.summary.max
       /\ {row.summary.min, row.summary.max} \subseteq {log[i] : i \in Answers(log)}
       /\ row.summary.avg = <<AnswersSum(log), Cardinality(Answers(log))>>
       /\ row.summary.last = log[CHOOSE i \in Answers(log) : \A j \in Answers(log) : j <= i]

StatisticsAgree ==
  \A i \in 1..Len(rows) : rows[i] # NoRow => SaysOf(rows[i], pings[i])

(* A host has one row in a message at most, though several groups or hops   *)
(* name it: counters that add up rows count no ping twice.  The message of  *)
(* an FPingMTR has the row of every hop that was reported, under its name.  *)
OneRowPerHost ==
  /\ \A i, j \in 1..Len(rows) :
       rows[i] # NoRow /\ rows[i].host = rows[j].host => i = j
  /\ plugin.mtr /\ pc = "idle" =>
       /\ \A i \in 1..Len(rows) : rows[i] # NoRow =>
            rows[i].host \in DOMAIN hops /\ hops[rows[i].host] = rows[i]
       /\ \A h \in DOMAIN hops : \E i \in 1..Len(rows) : hops[h] = rows[i]

(* Is the Rust loop at host h?                                              *)
AtHost(h) == plugin.use_rust /\ Len(rows) < Len(hosts) /\ h = hosts[Len(rows) + 1]

(* The pings of a host that the message counts which is being made, or      *)
(* waits for the next cycle, and those for the row after that.              *)
Waiting(h) ==
  IF \E i \in 1..Len(rows) : rows[i].host = h
  THEN rows[CHOOSE i \in 1..Len(rows) : rows[i].host = h].cnt
  ELSE IF AtHost(h) THEN ping.sent ELSE 0

(* The counter of pings that Prometheus exports for an FPing lags behind    *)
(* the pings there have been by exactly those of the last message, however  *)
(* many cycles there were and whatever was lost, could not be run or could  *)
(* not be parsed: nothing else is missing, nothing is counted twice.        *)
CounterCounts ==
  ~plugin.mtr => \A h \in Host : metrics[h].sent + Waiting(h) = pinged[h]
=============================================================================
