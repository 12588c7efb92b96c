----------------------------- MODULE MCOutputs ------------------------------
(* Configurations for Outputs.                                              *)
EXTENDS Outputs

Dots == [host \in {"a.b", "a_b"} |-> "a_b"]

Plain(name, type) == [name |-> name, type |-> type, text |-> name, fields |-> {}, bind |-> None]
Series2(name, type, fields) == [Plain(name, type) EXCEPT !.fields = fields]
Bound(name) == [Plain(name, "zeromq") EXCEPT !.bind = "*:6021"]
Both == {"source", "host"}

Saying(rows, name, hosts, outputs) ==
  [name |-> name, hosts |-> hosts, outputs |-> outputs, rows |-> rows]
ProbeOf(name, hosts, outputs) == Saying({"value"}, name, hosts, outputs)
Spotty(name, hosts, outputs) == Saying({"none", "empty", "value"}, name, hosts, outputs)

Foreground(outputs, sources) ==
  [plugins |-> outputs, probes |-> sources, graphsrv |-> TRUE, foreground |-> TRUE]
Background(c) == [c EXCEPT !.foreground = FALSE]

(* Databases, each with files of their own, shared by two probes.           *)
Files == Foreground(
  <<Series2("rrd", "rrd", Both), Series2("loss", "whisper", Both)>>,
  <<Spotty("p", <<"a.b", "a_b">>, <<"rrd">>), ProbeOf("q", <<"a.b">>, <<"loss", "rrd">>)>>)

(* Files without the source in their names.                                 *)
NoSource == Foreground(
  <<Series2("rrd", "rrd", {"host"})>>,
  <<Spotty("p", <<"a.b">>, <<"rrd">>), ProbeOf("q", <<"a.b">>, <<"rrd">>)>>)

(* An output that a probe names twice.                                      *)
NamedTwice == Foreground(
  <<Series2("rrd", "rrd", Both)>>, <<Spotty("p", <<"a.b">>, <<"rrd", "rrd">>)>>)

(* Two of a kind that have a start() of their own.                          *)
Pairs == Foreground(
  <<Series2("w", "whisper", Both), Series2("v", "whisper", Both),
    Series2("g", "graphite", Both), Series2("h", "graphite", Both)>>,
  <<ProbeOf("p", <<"a.b", "a_b">>, <<"g", "w">>), Spotty("q", <<"a.b">>, <<"h", "v", "g">>)>>)

(* The same, the second graphite output started last.                       *)
PairsInTurn == [Pairs EXCEPT !.probes[2].outputs = <<"g", "h">>]

(* A vodka and a zeromq output for two probes.                              *)
Shared == Foreground(
  <<Plain("vodka", "vodka"), Plain("zmq", "zeromq")>>,
  <<ProbeOf("p", <<"a.b">>, <<"vodka", "zmq">>), ProbeOf("q", <<"a.b">>, <<"zmq", "vodka">>)>>)

SharedBind == [Shared EXCEPT !.plugins[2] = Bound("zmq"), !.graphsrv = FALSE]

TwoSockets == Foreground(
  <<Plain("z", "zeromq"), Bound("y")>>,
  <<ProbeOf("p", <<"a.b">>, <<"z">>), ProbeOf("q", <<"a.b">>, <<"y", "vodka">>)>>)

SameAddress2 == [TwoSockets EXCEPT !.plugins[1] = Bound("z")]

(* Outputs that are named by their type only.                               *)
Nameless == Foreground(
  <<Plain("zmq", "zeromq")>>,
  <<Saying({"none", "bare", "value"}, "p", <<"a.b">>, <<"vodka", "prometheus">>),
    ProbeOf("q", <<"a.b">>, <<"vodka">>)>>)

(* Two servers on prometheus' port, both in the daemon or one before it.    *)
TwoNameless == [Nameless EXCEPT !.probes[2].outputs = <<"prometheus">>]
TwoNamed == [Nameless EXCEPT !.plugins = <<Plain("a", "prometheus"), Plain("b", "prometheus")>>]
OneNamed == [Nameless EXCEPT !.plugins = <<Plain("a", "prometheus")>>,
                             !.probes[2].outputs = <<"a">>]

(* What _main and __init__ refuse.                                          *)
NamesClash == [Shared EXCEPT !.probes[2].name = "zmq"]
NeedsMore == [Nameless EXCEPT !.probes[2].outputs = <<"rrd">>]
ProbeForOutput == [Nameless EXCEPT !.probes[1].name = "prometheus"]
NoProbes == [Shared EXCEPT !.probes = <<>>]

AllConfigs == {Files, NoSource, NamedTwice, Pairs, PairsInTurn, Shared, Background(Shared),
               SharedBind, TwoSockets, SameAddress2, Nameless, TwoNameless, TwoNamed,
               OneNamed, Background(OneNamed), NamesClash, NeedsMore, ProbeForOutput, NoProbes}
=============================================================================
