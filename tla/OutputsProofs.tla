--------------------------- MODULE OutputsProofs ----------------------------
(* Theorems about Outputs, for every set of configurations: any plugins,    *)
(* any number of probes, any lists of outputs.                              *)
EXTENDS Outputs, ListFacts, FiniteSetTheorems

USE DEF Error

(* The object is the plugin of the config that the name stands for: the     *)
(* last of that name.                                                       *)
IsThe(o, name) ==
  /\ o \in 1..Len(config.plugins) /\ config.plugins[o].name = name
  /\ \A k \in 1..Len(config.plugins) : config.plugins[k].name = name => k <= o

Made(o) == o > Len(config.plugins)  \* by get_probe(), get_output() or vodka

(* A reference to an output that has no plugin.                             *)
OnlyType(ref) ==
  /\ ref \in Type \ NeedsConfig
  /\ \A k \in 1..Len(config.plugins) : config.plugins[k].name # ref

(* Where the loops are, and that nothing runs before they are through.      *)
Progress ==
  /\ stage = "plugins" => /\ Len(objects) <= Len(config.plugins) /\ at = <<1, 0>>
                          /\ probes = <<>> /\ joins = <<>> /\ ready = {} /\ sender = 0
  /\ stage \notin {"plugins", "ended"} => Len(objects) >= Len(config.plugins)
  /\ at[1] <= Len(config.probes) + 1
  /\ Len(probes) = IF at[2] = 0 THEN at[1] - 1 ELSE at[1]
  /\ at[2] # 0 => /\ at[1] <= Len(config.probes)
                  /\ at[2] <= Len(config.probes[at[1]].outputs) + 1
  /\ \A i \in 1..Len(probes) :
       Len(emitters[i]) = IF i < at[1] THEN Len(config.probes[i].outputs) ELSE at[2] - 1
  /\ begun # 0 \/ runs # <<>> \/ values # {} \/ stage = "running" =>
       at[1] = Len(config.probes) + 1
  /\ stage \in {"plugins", "connect"} =>
       error = None /\ begun = 0 /\ sockets = <<>> /\ runs = <<>> /\ values = {}
  /\ todo # <<>> => stage = "running" /\ turn # 0

(* The registry: a plugin keeps its name, the last of a name has it, and    *)
(* what is made later has the name of a probe, or none.                     *)
Registry ==
  /\ \A o \in 1..Len(objects) :
       IF Made(o) THEN objects[o].name = None /\ objects[o].type \notin NeedsConfig
                  ELSE objects[o] = config.plugins[o]
  /\ \A name \in Names : Made(instance[name]) =>
       /\ objects[instance[name]].type = "probe"
       /\ \E i \in 1..Len(config.probes) : config.probes[i].name = name
  /\ \A name \in Names : instance[name] \in 1..Len(config.plugins) =>
       config.plugins[instance[name]].name = name
  /\ \A k \in 1..Len(config.plugins) :
       k <= Len(objects) => instance[config.plugins[k].name] >= k
  /\ stage \in {"connect", "running"} =>
       \A i \in 1..Len(config.probes), k \in 1..Len(config.plugins) :
         config.probes[i].name # config.plugins[k].name

(* What the _emit lists hold.                                               *)
Emitters ==
  /\ \A i \in 1..Len(emitters) : \A j \in 1..Len(emitters[i]) :
       IF Made(emitters[i][j])
       THEN /\ objects[emitters[i][j]].type = config.probes[i].outputs[j]
            /\ OnlyType(config.probes[i].outputs[j])
       ELSE IsThe(emitters[i][j], config.probes[i].outputs[j])
  /\ \A i, k \in 1..Len(emitters) :
       \A j \in 1..Len(emitters[i]), l \in 1..Len(emitters[k]) :
         Made(emitters[i][j]) /\ emitters[i][j] = emitters[k][l] => i = k /\ j = l
  /\ \A i \in 1..Len(probes) : Made(probes[i]) /\ objects[probes[i]].type = "probe"
  /\ \A i, k \in 1..Len(probes) : probes[i] = probes[k] => i = k

(* What joins holds: the outputs of the _emit lists, ahead of the probes    *)
(* that emit to them, and started.                                          *)
Joins ==
  /\ \A i \in 1..Len(emitters) : \A j \in 1..Len(emitters[i]) :
       \E a \in 1..Len(joins) : joins[a] = emitters[i][j]
  /\ \A b \in 1..Len(joins) :
       \/ \E i \in 1..Len(emitters) : \E j \in 1..Len(emitters[i]) : joins[b] = emitters[i][j]
       \/ objects[joins[b]].type = "probe"
  /\ \A b \in 1..Len(joins) : \A i \in 1..Len(probes) : joins[b] = probes[i] =>
       /\ i < at[1]
       /\ \A j \in 1..Len(emitters[i]) : \E a \in 1..b : joins[a] = emitters[i][j]
  /\ \A b \in 1..Len(joins) :
       objects[joins[b]].type \notin LazyStart \cup {"probe"} => joins[b] \in ready

(* Who has a socket, and whose calls an emission makes.                     *)
Begun ==
  /\ \A b \in 1..begun : objects[joins[b]].type = "zeromq" => sock[joins[b]] # 0
  /\ \A o \in 1..Len(objects) : sock[o] # 0 =>
       objects[o].type = "zeromq" /\ \E b \in 1..begun : joins[b] = o
  /\ \A k \in 1..Len(todo) :
       /\ todo[k].probe \in 1..Len(emitters) /\ todo[k].probe = turn
       /\ todo[k].pos \in 1..Len(emitters[todo[k].probe])
       /\ todo[k].output = emitters[todo[k].probe][todo[k].pos]
       /\ \E b \in 1..begun : joins[b] = todo[k].output

VodkaRuns ==
  /\ ToSet(runs) \subseteq lazy
  /\ \A k, l \in 1..Len(runs) : k # l => runs[k] # runs[l]
  /\ groups \subseteq {config.probes[i].name : i \in 1..Len(config.probes)}
  /\ stage = "running" /\ runs # <<>> /\ config.graphsrv =>
       groups = {config.probes[i].name : i \in 1..Len(config.probes)}

Wiring == Progress /\ Registry /\ Emitters /\ Joins /\ Begun /\ VodkaRuns

-----------------------------------------------------------------------------
LEMMA ConfigFacts ==
  ASSUME TypeOK
  PROVE  /\ config.plugins \in Seq(Object) /\ config.probes \in Seq(ProbeConfig)
         /\ Len(config.plugins) \in Nat /\ Len(config.probes) \in Nat
         /\ config.graphsrv \in BOOLEAN /\ config.foreground \in BOOLEAN
         /\ \A k \in 1..Len(config.plugins) :
              /\ config.plugins[k] \in Object /\ config.plugins[k].name \in Names
              /\ config.plugins[k].name # None /\ config.plugins[k].type \in Type
         /\ \A i \in 1..Len(config.probes) :
              /\ config.probes[i] \in ProbeConfig /\ config.probes[i].name \in Names
              /\ config.probes[i].name # None /\ config.probes[i].hosts # <<>>
              /\ Len(config.probes[i].outputs) \in Nat
              /\ \A j \in 1..Len(config.probes[i].outputs) :
                   config.probes[i].outputs[j] \in Names
<1>1. config \in Configs /\ config \in [plugins : Seq(Object), probes : Seq(ProbeConfig),
                                                graphsrv : BOOLEAN, foreground : BOOLEAN]
  BY OutputsAssumption DEF TypeOK
<1>2. config.plugins \in Seq(Object) /\ config.probes \in Seq(ProbeConfig)
  BY <1>1
<1>3. \A k \in 1..Len(config.plugins) :
        /\ config.plugins[k] \in Object /\ config.plugins[k].name \in Names
        /\ config.plugins[k].name # None /\ config.plugins[k].type \in Type
  BY <1>1, <1>2, OutputsAssumption DEF Names
<1>4. ASSUME NEW i \in 1..Len(config.probes)
      PROVE  /\ config.probes[i] \in ProbeConfig /\ config.probes[i].name \in Names
             /\ config.probes[i].name # None /\ config.probes[i].hosts # <<>>
             /\ Len(config.probes[i].outputs) \in Nat
             /\ \A j \in 1..Len(config.probes[i].outputs) :
                  config.probes[i].outputs[j] \in Names
  <2>1. config.probes[i] \in ProbeConfig
    BY <1>2
  <2>2. config.probes[i].outputs \in Seq(STRING)
    BY <2>1 DEF ProbeConfig
  <2>3. \A j \in 1..Len(config.probes[i].outputs) :
          config.probes[i].outputs[j] \in ToSet(config.probes[i].outputs)
    BY <2>2 DEF ToSet
  <2>4. Len(config.probes[i].outputs) \in Nat
    BY <2>2
  <2>5. config.probes[i].name # None /\ config.probes[i].hosts # <<>>
    BY <1>1, OutputsAssumption
  <2>6. config.probes[i].name \in Names /\ ToSet(config.probes[i].outputs) \subseteq Names
    BY <1>1 DEF Names
  <2> QED BY <2>1, <2>3, <2>4, <2>5, <2>6
<1> QED BY <1>1, <1>2, <1>3, <1>4

LEMMA TypeFacts ==
  ASSUME TypeOK
  PROVE  /\ Len(objects) \in Nat /\ Len(joins) \in Nat /\ Len(probes) \in Nat
         /\ Len(emitters) = Len(probes) /\ Len(last) = Len(probes)
         /\ Len(sockets) \in Nat /\ Len(sock) = Len(objects) /\ Len(runs) \in Nat
         /\ Len(todo) \in Nat /\ begun \in 0..Len(joins) /\ begun \in Nat
         /\ at[1] \in Nat \ {0} /\ at[2] \in Nat
         /\ turn \in 0..Len(probes) /\ second \in 1..MaxSecond
         /\ \A name \in Names : instance[name] \in 0..Len(objects)
         /\ \A o \in 1..Len(objects) :
              /\ objects[o] \in Object /\ objects[o].type \in Type \cup {"probe"}
              /\ sock[o] \in 0..Len(sockets)
         /\ \A b \in 1..Len(joins) : joins[b] \in 1..Len(objects)
         /\ \A i \in 1..Len(probes) :
              /\ probes[i] \in 1..Len(objects) /\ last[i] \in Sent
              /\ emitters[i] \in Seq(1..Len(objects)) /\ Len(emitters[i]) \in Nat
              /\ \A j \in 1..Len(emitters[i]) : emitters[i][j] \in 1..Len(objects)
         /\ \A k \in 1..Len(todo) : todo[k] \in Call
         /\ \A s \in 1..Len(sockets) : sockets[s] \in [address : STRING, open : BOOLEAN]
<1> DEFINE O == 1..Len(objects)
           Socket == [address : STRING, open : BOOLEAN]
           S == 0..Len(sockets)
           T == Sent
<1>1. objects \in Seq(Object)
  BY DEF TypeOK
<1>2. joins \in Seq(O) /\ probes \in Seq(O) /\ runs \in Seq(O)
  BY DEF TypeOK
<1>3. emitters \in Seq(Seq(O)) /\ Len(emitters) = Len(probes)
  BY DEF TypeOK
<1>4. last \in Seq(T) /\ Len(last) = Len(probes)
  BY DEF TypeOK
<1>5. sockets \in Seq(Socket)
  BY DEF TypeOK
<1>6. sock \in Seq(S) /\ Len(sock) = Len(objects)
  BY DEF TypeOK
<1>7. todo \in Seq(Call)
  BY DEF TypeOK
<1>8. /\ begun \in 0..Len(joins) /\ at \in (Nat \ {0}) \X Nat
      /\ instance \in [Names -> 0..Len(objects)]
      /\ turn \in 0..Len(probes) /\ second \in 1..MaxSecond
  BY DEF TypeOK
<1> HIDE DEF O, S, T, Socket
<1>9. /\ at[1] \in Nat \ {0} /\ at[2] \in Nat /\ begun \in Nat
      /\ \A name \in Names : instance[name] \in 0..Len(objects)
  BY <1>2, <1>8
<1>10. /\ Len(objects) \in Nat /\ Len(joins) \in Nat /\ Len(probes) \in Nat
       /\ Len(sockets) \in Nat /\ Len(runs) \in Nat /\ Len(todo) \in Nat
  BY <1>1, <1>2, <1>5, <1>7
<1>11. ASSUME NEW o \in 1..Len(objects)
       PROVE  /\ objects[o] \in Object /\ objects[o].type \in Type \cup {"probe"}
              /\ sock[o] \in S
  <2>1. objects[o] \in Object
    BY <1>1
  <2>2. sock[o] \in S
    BY <1>6
  <2> QED BY <2>1, <2>2 DEF Object
<1>12. \A b \in 1..Len(joins) : joins[b] \in O
  BY <1>2
<1>13. ASSUME NEW i \in 1..Len(probes)
       PROVE  /\ probes[i] \in O /\ last[i] \in T
              /\ emitters[i] \in Seq(O) /\ Len(emitters[i]) \in Nat
              /\ \A j \in 1..Len(emitters[i]) : emitters[i][j] \in O
  <2>1. probes[i] \in O
    BY <1>2
  <2>2. last[i] \in T
    BY <1>4
  <2>3. emitters[i] \in Seq(O)
    BY <1>3
  <2> QED BY <2>1, <2>2, <2>3
<1>14. \A k \in 1..Len(todo) : todo[k] \in Call
  BY <1>7
<1>15. \A s \in 1..Len(sockets) : sockets[s] \in Socket
  BY <1>5
<1> QED
  BY <1>3, <1>4, <1>6, <1>8, <1>9, <1>10, <1>11, <1>12, <1>13, <1>14, <1>15
  DEF O, S, T, Socket

LEMMA InitTypeOK == Init => TypeOK
<1> SUFFICES ASSUME Init PROVE TypeOK
  OBVIOUS
<1>1. second \in 1..MaxSecond /\ 0 \in 0..MaxMessages
  BY OutputsAssumption DEF Init
<1> QED BY <1>1 DEF Init, TypeOK

LEMMA NoPluginFacts ==
  /\ NoPlugin \in Object /\ NoPlugin.name = None /\ NoPlugin.type = "probe"
  /\ \A type \in Type :
       LET plugin == [NoPlugin EXCEPT !.type = type]
       IN plugin \in Object /\ plugin.name = None /\ plugin.type = type
<1>1. None \in STRING
  BY OutputsAssumption
<1>2. {} \in SUBSET {"source", "host"}
  OBVIOUS
<1>3. "probe" \in Type \cup {"probe"}
  OBVIOUS
<1>4. NoPlugin \in Object /\ NoPlugin.name = None /\ NoPlugin.type = "probe"
  BY <1>1, <1>2, <1>3 DEF NoPlugin, Object
<1>5. ASSUME NEW type \in Type
      PROVE  LET plugin == [NoPlugin EXCEPT !.type = type]
             IN plugin \in Object /\ plugin.name = None /\ plugin.type = type
  BY <1>4 DEF Object
<1> QED BY <1>4, <1>5

(* More objects leave what refers to them well typed.                       *)
LEMMA TypeGrows ==
  ASSUME TypeOK, NEW n \in Nat, Len(objects) <= n
  PROVE  /\ joins \in Seq(1..n) /\ probes \in Seq(1..n) /\ emitters \in Seq(Seq(1..n))
         /\ runs \in Seq(1..n)
         /\ instance \in [Names -> 0..n]
         /\ ready \cup lazy \subseteq 1..n /\ sender \in 0..n
<1>1. Len(objects) \in Nat
  BY DEF TypeOK
<1>2. 1..Len(objects) \subseteq 1..n /\ 0..Len(objects) \subseteq 0..n
  BY <1>1
<1>3. Seq(1..Len(objects)) \subseteq Seq(1..n)
  BY <1>2, SeqMonotonic
<1>4. Seq(Seq(1..Len(objects))) \subseteq Seq(Seq(1..n))
  BY <1>3, SeqMonotonic
<1> QED BY <1>2, <1>3, <1>4 DEF TypeOK

(* new_plugin() adds one object, under a name that is free to have.         *)
LEMMA NewPluginFacts ==
  ASSUME TypeOK, NEW plugin \in Object, NEW name \in Names \cup {None}, NewPlugin(plugin, name)
  PROVE  /\ objects' \in Seq(Object) /\ Len(objects') = Len(objects) + 1
         /\ Len(objects) \in Nat
         /\ objects'[Len(objects) + 1] = plugin
         /\ \A o \in 1..Len(objects) : objects'[o] = objects[o]
         /\ sock' \in Seq(0..Len(sockets)) /\ Len(sock') = Len(objects')
         /\ sock'[Len(objects) + 1] = 0
         /\ \A o \in 1..Len(objects) : sock'[o] = sock[o]
         /\ instance' \in [Names -> 0..Len(objects')]
         /\ \A m \in Names : instance'[m] =
              IF m = name /\ name # None THEN Len(objects) + 1 ELSE instance[m]
<1> DEFINE n == Len(objects)
<1>1. n \in Nat /\ objects \in Seq(Object) /\ sock \in Seq(0..Len(sockets)) /\ Len(sock) = n
      /\ Len(sockets) \in Nat
  BY DEF TypeOK
<1>2. /\ objects' \in Seq(Object) /\ Len(objects') = n + 1 /\ objects'[n + 1] = plugin
      /\ \A o \in 1..n : objects'[o] = objects[o]
  BY <1>1 DEF NewPlugin
<1>3. /\ sock' \in Seq(0..Len(sockets)) /\ Len(sock') = n + 1 /\ sock'[n + 1] = 0
      /\ \A o \in 1..n : sock'[o] = sock[o]
  <2>1. 0 \in 0..Len(sockets) /\ sock' = Append(sock, 0)
    BY <1>1 DEF NewPlugin
  <2> QED BY <1>1, <2>1
<1>4. instance \in [Names -> 0..n + 1]
  BY <1>1, TypeGrows
<1>5. instance' = IF name = None THEN instance ELSE [instance EXCEPT ![name] = n + 1]
  BY DEF NewPlugin
<1>6. n + 1 \in 0..n + 1
  BY <1>1
<1>7. /\ instance' \in [Names -> 0..n + 1]
      /\ \A m \in Names : instance'[m] = IF m = name /\ name # None THEN n + 1 ELSE instance[m]
  BY <1>4, <1>5, <1>6
<1> QED BY <1>1, <1>2, <1>3, <1>7

(* The same for any objects that are added.                                 *)
LEMMA TypeWithMore ==
  ASSUME TypeOK, NEW n \in Nat, Len(objects) <= n,
         objects' \in Seq(Object), Len(objects') = n,
         instance' \in [Names -> 0..n],
         sock' \in Seq(0..Len(sockets')), Len(sock') = n,
         UNCHANGED <<config, sockets, second>>,
         stage' \in {"plugins", "connect", "running", "stopping", "ended"},
         error' \in Error,
         at' \in (Nat \ {0}) \X Nat,
         joins' \in Seq(1..n), probes' \in Seq(1..n),
         emitters' \in Seq(Seq(1..n)), Len(emitters') = Len(probes'),
         begun' \in 0..Len(joins'),
         ready' \cup lazy' \subseteq 1..n, sender' \in 0..n,
         runs' \in Seq(1..n),
         last' \in Seq(Sent), Len(last') = Len(probes'), todo' \in Seq(Call),
         turn' \in 0..Len(probes'), hasty' \subseteq 1..Len(probes'), made' \in 0..MaxMessages
  PROVE  TypeOK'
BY DEF TypeOK

LEMMA GetProbeType == TypeOK /\ GetProbe => TypeOK'
<1> SUFFICES ASSUME TypeOK, GetProbe PROVE TypeOK'
  OBVIOUS
<1> DEFINE n == Len(objects) + 1
           i == at[1]
<1>1. /\ Len(objects) \in Nat /\ n \in Nat /\ Len(objects) <= n /\ n \in 1..n
      /\ MaxSecond \in Nat
  BY OutputsAssumption, TypeFacts
<1>2. /\ i \in 1..Len(config.probes)
      /\ NewPlugin(NoPlugin, config.probes[i].name)
      /\ at' = <<i, 1>> /\ i \in Nat \ {0}
      /\ probes' = Append(probes, n) /\ emitters' = Append(emitters, <<>>)
      /\ last' = Append(last, [second |-> 0, rows |-> <<>>])
      /\ UNCHANGED <<stage, error, config, joins, ready, sender, begun, sockets,
                     lazy, runs, second, turn, hasty, made, todo>>
  <2>1. i \in Nat \ {0} /\ i <= Len(config.probes) /\ Len(config.probes) \in Nat
    BY TypeFacts, ConfigFacts DEF GetProbe
  <2> QED BY <2>1 DEF GetProbe, vodkaVars
<1>3. NoPlugin \in Object /\ config.probes[i].name \in Names \cup {None}
  BY <1>2, ConfigFacts, NoPluginFacts
<1>4. /\ objects' \in Seq(Object) /\ Len(objects') = n
      /\ sock' \in Seq(0..Len(sockets)) /\ Len(sock') = n
      /\ instance' \in [Names -> 0..n]
  BY <1>2, <1>3, NewPluginFacts
<1>5. /\ joins \in Seq(1..n) /\ probes \in Seq(1..n) /\ emitters \in Seq(Seq(1..n))
      /\ runs \in Seq(1..n) /\ ready \cup lazy \subseteq 1..n /\ sender \in 0..n
  BY <1>1, TypeGrows
<1> HIDE DEF n
<1>6. probes' \in Seq(1..n) /\ Len(probes') = Len(probes) + 1
  BY <1>1, <1>2, <1>5
<1>7. emitters' \in Seq(Seq(1..n)) /\ Len(emitters') = Len(emitters) + 1
  <2>1. <<>> \in Seq(1..n)
    OBVIOUS
  <2> QED BY <1>2, <1>5, <2>1
<1>8. last' \in Seq(Sent) /\ Len(last') = Len(last) + 1
  <2>1. last \in Seq(Sent)
    BY DEF TypeOK
  <2>2. [second |-> 0, rows |-> <<>>] \in Sent
    BY <1>1 DEF Sent
  <2>3. last' = Append(last, [second |-> 0, rows |-> <<>>])
    BY <1>2
  <2> QED BY <2>1, <2>2, <2>3
<1>9. /\ stage \in {"plugins", "connect", "running", "stopping", "ended"}
      /\ error \in Error
      /\ begun \in 0..Len(joins) /\ todo \in Seq(Call)
      /\ Len(emitters) = Len(probes) /\ Len(last) = Len(probes)
      /\ turn \in 0..Len(probes) /\ hasty \subseteq 1..Len(probes) /\ made \in 0..MaxMessages
  BY DEF TypeOK
<1>11. turn' \in 0..Len(probes') /\ hasty' \subseteq 1..Len(probes') /\ made' \in 0..MaxMessages
  <2>1. Len(probes) \in Nat
    BY DEF TypeOK
  <2> QED BY <1>2, <1>6, <1>9, <2>1
<1>10. at' \in (Nat \ {0}) \X Nat
  BY <1>2
<1> QED
  BY <1>1, <1>2, <1>4, <1>5, <1>6, <1>7, <1>8, <1>9, <1>10, <1>11, TypeWithMore

(* An output joined is the last of joins and of the _emit list of its probe.*)
LEMMA JoinFacts ==
  ASSUME TypeOK, NEW n \in Nat, Len(objects) <= n, NEW o \in 1..n, NEW type,
         at[1] \in 1..Len(emitters), Join(o, type)
  PROVE  /\ joins' \in Seq(1..n) /\ Len(joins') = Len(joins) + 1
         /\ Len(joins) \in Nat /\ joins'[Len(joins) + 1] = o
         /\ \A b \in 1..Len(joins) : joins'[b] = joins[b]
         /\ emitters' \in Seq(Seq(1..n)) /\ Len(emitters') = Len(emitters)
         /\ Len(emitters) \in Nat
         /\ \A i \in 1..Len(emitters) :
              emitters'[i] = IF i = at[1] THEN Append(emitters[i], o) ELSE emitters[i]
         /\ at' = <<at[1], at[2] + 1>> /\ at' \in (Nat \ {0}) \X Nat
         /\ ready' = IF type \in LazyStart THEN ready ELSE ready \cup {o}
         /\ sender' = IF type = "graphite" THEN o ELSE sender
         /\ ready' \subseteq 1..n /\ sender' \in 0..n
         /\ UNCHANGED <<stage, error>>
<1>1. /\ joins \in Seq(1..n) /\ emitters \in Seq(Seq(1..n))
      /\ ready \subseteq 1..n /\ sender \in 0..n
  BY TypeGrows
<1>2. /\ joins' \in Seq(1..n) /\ Len(joins') = Len(joins) + 1 /\ Len(joins) \in Nat
      /\ joins'[Len(joins) + 1] = o
      /\ \A b \in 1..Len(joins) : joins'[b] = joins[b]
  BY <1>1 DEF Join
<1>3. emitters[at[1]] \in Seq(1..n)
  BY <1>1
<1>4. Append(emitters[at[1]], o) \in Seq(1..n)
  BY <1>3
<1>5. emitters' = [emitters EXCEPT ![at[1]] = Append(emitters[at[1]], o)]
  BY DEF Join
<1>6. /\ emitters' \in Seq(Seq(1..n)) /\ Len(emitters') = Len(emitters) /\ Len(emitters) \in Nat
      /\ \A i \in 1..Len(emitters) :
           emitters'[i] = IF i = at[1] THEN Append(emitters[i], o) ELSE emitters[i]
  BY <1>1, <1>4, <1>5
<1>7. at' = <<at[1], at[2] + 1>> /\ at' \in (Nat \ {0}) \X Nat /\ UNCHANGED <<stage, error>>
  <2>1. at[1] \in Nat \ {0} /\ at[2] \in Nat
    BY DEF TypeOK
  <2>2. at' = <<at[1], at[2] + 1>> /\ UNCHANGED <<stage, error>>
    BY DEF Join
  <2> QED BY <2>1, <2>2
<1>8. /\ ready' = IF type \in LazyStart THEN ready ELSE ready \cup {o}
      /\ sender' = IF type = "graphite" THEN o ELSE sender
  BY DEF Join, StartOutput, LazyStart
<1>9. ready' \subseteq 1..n /\ sender' \in 0..n
  <2>1. ready \cup {o} \subseteq 1..n
    BY <1>1
  <2> QED BY <1>1, <1>8, <2>1
<1> QED BY <1>2, <1>6, <1>7, <1>8, <1>9

(* The name that the connect loop has got to.                               *)
Ref == config.probes[at[1]].outputs[at[2]]

(* What get_output() can do.                                                *)
LEMMA OutputCases ==
  ASSUME TypeOK, Progress, GetOutput
  PROVE  /\ stage = "connect" /\ error = None
         /\ at[1] \in 1..Len(config.probes) /\ Len(emitters) = at[1] /\ Len(probes) = at[1]
         /\ at[2] \in 1..Len(config.probes[at[1]].outputs) /\ Ref \in Names
         /\ Len(emitters[at[1]]) = at[2] - 1
         /\ UNCHANGED <<config, begun, sockets, lazy, runs, groups, second, last, turn, hasty, made,
                        todo, created, values, probes>>
         /\ \/ \E o \in 1..Len(objects), type \in Type :
                 /\ o = instance[Ref] /\ type = objects[o].type /\ Join(o, type)
                 /\ UNCHANGED <<objects, instance, sock>>
            \/ \E type \in Type \ NeedsConfig :
                 /\ type = Ref /\ instance[Ref] = 0
                 /\ NewPlugin([NoPlugin EXCEPT !.type = type], None)
                 /\ \E o \in 1..Len(objects) + 1 : o = Len(objects) + 1 /\ Join(o, type)
            \/ /\ stage' \in {"stopping", "ended"} /\ error' \in {"mismatch", "config", "port"}
               /\ UNCHANGED <<objects, instance, sock, at, joins, emitters, ready, sender>>
<1> DEFINE i == at[1]
           j == at[2]
<1>1. /\ stage = "connect" /\ i \in Nat \ {0} /\ i <= Len(config.probes) /\ j \in Nat
      /\ j \in 1..Len(config.probes[i].outputs)
  BY TypeFacts DEF GetOutput
<1>2. i \in 1..Len(config.probes) /\ Ref \in Names
  BY <1>1, ConfigFacts DEF Ref
<1>3. Len(probes) = i /\ Len(emitters) = i /\ Len(emitters[i]) = j - 1 /\ error = None
  <2>1. Len(probes) = i /\ error = None
    BY <1>1 DEF Progress
  <2>2. Len(emitters) = Len(probes)
    BY DEF TypeOK
  <2>3. \A k \in 1..Len(probes) :
          Len(emitters[k]) = IF k < i THEN Len(config.probes[k].outputs) ELSE j - 1
    BY DEF Progress
  <2>4. i \in 1..Len(probes)
    BY <1>1, <2>1
  <2>5. Len(emitters[i]) = j - 1
    BY <2>3, <2>4
  <2> QED BY <2>1, <2>2, <2>5
<1>4. UNCHANGED <<config, begun, sockets, lazy, runs, groups, second, last, turn, hasty, made, todo,
                  created, values, probes>>
  <2>1. UNCHANGED <<config, begun, sockets, vodkaVars, messageVars, storeVars>>
    BY DEF GetOutput
  <2>2. UNCHANGED probes
    BY DEF GetOutput, connectVars
  <2> QED BY <2>1, <2>2 DEF vodkaVars, messageVars, storeVars
<1>5. CASE instance[Ref] # 0 /\ objects[instance[Ref]].type # "probe"
  <2>1. PICK o \in 1..Len(objects) : o = instance[Ref]
    BY <1>2, <1>5 DEF TypeOK
  <2>2. objects[o] \in Object
    BY DEF TypeOK
  <2>3. PICK type \in Type : type = objects[o].type
    BY <1>5, <2>1, <2>2 DEF Object
  <2>4. Join(o, type) /\ UNCHANGED <<objects, instance, sock>>
    BY <1>5, <2>1, <2>3 DEF GetOutput, Ref, Join, StartOutput
  <2> QED BY <1>1, <1>2, <1>3, <1>4, <2>1, <2>3, <2>4
<1>6. CASE instance[Ref] # 0 /\ objects[instance[Ref]].type = "probe"
  <2>1. Raise("mismatch") /\ UNCHANGED <<objects, instance, sock, connectVars>>
    BY <1>6 DEF GetOutput, Ref
  <2> QED BY <1>1, <1>2, <1>3, <1>4, <2>1 DEF Raise, connectVars
<1> DEFINE Port == PortTaken([NoPlugin EXCEPT !.type = Ref])
<1>7. CASE instance[Ref] = 0 /\ Ref \in Type \ NeedsConfig /\ ~Port
  <2>1. PICK type \in Type \ NeedsConfig : type = Ref
    BY <1>7
  <2>2. PICK o \in 1..Len(objects) + 1 : o = Len(objects) + 1
    <3>1. Len(objects) + 1 \in 1..Len(objects) + 1
      BY DEF TypeOK
    <3> QED BY <3>1
  <2>3. Join(o, type)
    BY <1>7, <2>1, <2>2 DEF GetOutput, Ref, Join, StartOutput
  <2>4. NewPlugin([NoPlugin EXCEPT !.type = type], None)
    BY <1>7, <2>1 DEF GetOutput, Ref, NewPlugin
  <2> QED BY <1>1, <1>2, <1>3, <1>4, <1>7, <2>1, <2>2, <2>3, <2>4
<1>8. CASE instance[Ref] = 0 /\ (Ref \notin Type \ NeedsConfig \/ Port)
  <2>1. Raise("config") \/ Raise("port")
    BY <1>8 DEF GetOutput, Ref
  <2>2. UNCHANGED <<objects, instance, sock, connectVars>>
    BY <1>8 DEF GetOutput, Ref
  <2> QED BY <1>1, <1>2, <1>3, <1>4, <2>1, <2>2 DEF Raise, connectVars
<1> HIDE DEF Port
<1> QED BY <1>5, <1>6, <1>7, <1>8

LEMMA GetOutputType == TypeOK /\ Progress /\ GetOutput => TypeOK'
<1> SUFFICES ASSUME TypeOK, Progress, GetOutput PROVE TypeOK'
  OBVIOUS
<1> DEFINE n == Len(objects)
<1>1. n \in Nat /\ n + 1 \in Nat /\ n <= n + 1
  BY DEF TypeOK
<1>2. /\ UNCHANGED <<config, begun, sockets, lazy, runs, second, last, turn, hasty, made, todo, probes>>
      /\ at[1] \in 1..Len(emitters)
  BY OutputCases
<1>3. /\ stage \in {"plugins", "connect", "running", "stopping", "ended"}
      /\ error \in Error
      /\ begun \in 0..Len(joins) /\ todo \in Seq(Call)
      /\ Len(emitters) = Len(probes) /\ Len(last) = Len(probes)
      /\ last \in Seq(Sent) /\ objects \in Seq(Object)
      /\ turn \in 0..Len(probes) /\ hasty \subseteq 1..Len(probes) /\ made \in 0..MaxMessages
      /\ instance \in [Names -> 0..n] /\ sock \in Seq(0..Len(sockets)) /\ Len(sock) = n
  BY DEF TypeOK
<1>4. ASSUME NEW m \in Nat, n <= m, NEW o \in 1..m, NEW type \in Type, Join(o, type),
             objects' \in Seq(Object), Len(objects') = m,
             sock' \in Seq(0..Len(sockets)), Len(sock') = m, instance' \in [Names -> 0..m]
      PROVE  TypeOK'
  <2>1. /\ joins' \in Seq(1..m) /\ Len(joins') = Len(joins) + 1 /\ Len(joins) \in Nat
        /\ emitters' \in Seq(Seq(1..m)) /\ Len(emitters') = Len(emitters)
        /\ at' \in (Nat \ {0}) \X Nat /\ ready' \subseteq 1..m /\ sender' \in 0..m
        /\ UNCHANGED <<stage, error>>
    BY <1>2, <1>4, JoinFacts
  <2>2. /\ probes \in Seq(1..m) /\ runs \in Seq(1..m) /\ lazy \subseteq 1..m
    BY <1>4, TypeGrows
  <2>3. begun' \in 0..Len(joins')
    BY <1>2, <1>3, <2>1
  <2>4. /\ sock' \in Seq(0..Len(sockets'))
        /\ ready' \cup lazy' \subseteq 1..m /\ runs' \in Seq(1..m) /\ probes' \in Seq(1..m)
    BY <1>2, <1>4, <2>1, <2>2
  <2>5. /\ Len(emitters') = Len(probes') /\ Len(last') = Len(probes')
        /\ last' \in Seq(Sent) /\ todo' \in Seq(Call)
        /\ turn' \in 0..Len(probes') /\ hasty' \subseteq 1..Len(probes')
        /\ made' \in 0..MaxMessages
    BY <1>2, <1>3, <2>1
  <2> QED BY <1>2, <1>3, <1>4, <2>1, <2>3, <2>4, <2>5, TypeWithMore
<1>5. ASSUME NEW o \in 1..n, NEW type \in Type, Join(o, type),
             UNCHANGED <<objects, instance, sock>>
      PROVE  TypeOK'
  <2>1. n <= n /\ objects' \in Seq(Object) /\ Len(objects') = n /\ Len(sock') = n
        /\ sock' \in Seq(0..Len(sockets)) /\ instance' \in [Names -> 0..n]
    BY <1>1, <1>3, <1>5
  <2> HIDE DEF n
  <2> QED BY <1>1, <1>4, <1>5, <2>1
<1>6. ASSUME NEW type \in Type \ NeedsConfig, NewPlugin([NoPlugin EXCEPT !.type = type], None),
             NEW o \in 1..n + 1, Join(o, type)
      PROVE  TypeOK'
  <2>1. [NoPlugin EXCEPT !.type = type] \in Object /\ None \in Names \cup {None}
    BY NoPluginFacts
  <2>2. /\ objects' \in Seq(Object) /\ Len(objects') = n + 1
        /\ sock' \in Seq(0..Len(sockets)) /\ Len(sock') = n + 1
        /\ instance' \in [Names -> 0..n + 1]
    BY <1>6, <2>1, NewPluginFacts
  <2> QED BY <1>1, <1>4, <1>6, <2>2
<1>7. ASSUME stage' \in {"stopping", "ended"}, error' \in {"mismatch", "config", "port"},
             UNCHANGED <<objects, instance, sock, at, joins, emitters, ready, sender>>
      PROVE  TypeOK'
  BY <1>2, <1>7 DEF TypeOK
<1> QED BY <1>5, <1>6, <1>7, OutputCases

(* A new socket is the object's, and has at most one address taken.         *)
LEMMA OpenSocketFacts ==
  ASSUME TypeOK, NEW o \in 1..Len(objects), OpenSocket(o)
  PROVE  /\ sockets' \in Seq([address : STRING, open : BOOLEAN])
         /\ Len(sockets') = Len(sockets) + 1 /\ Len(sockets) \in Nat
         /\ sock' \in Seq(0..Len(sockets')) /\ Len(sock') = Len(sock)
         /\ \A p \in 1..Len(objects) :
              sock'[p] = IF p = o THEN Len(sockets) + 1 ELSE sock[p]
         /\ \A s \in 1..Len(sockets) :
              /\ s # sock[o] => sockets'[s] = sockets[s]
              /\ sockets'[s].address = sockets[s].address
              /\ sockets'[s].open => sockets[s].open
         /\ sockets'[Len(sockets) + 1].address \in {None, objects[o].bind}
         /\ \/ UNCHANGED <<stage, error>>
            \/ /\ stage' \in {"stopping", "ended"} /\ error' = "taken" /\ objects[o].bind # None
               /\ \E s \in 1..Len(sockets) :
                    sockets[s].open /\ sockets[s].address = objects[o].bind
<1> DEFINE n == Len(sockets)
           Socket == [address : STRING, open : BOOLEAN]
           address == objects[o].bind
           Kept(drops) == IF drops THEN [sockets EXCEPT ![sock[o]].open = FALSE] ELSE sockets
           InUse(kept) == address # None /\ \E s \in 1..Len(kept) :
                                              kept[s].open /\ kept[s].address = address
<1>1. /\ n \in Nat /\ sockets \in Seq(Socket) /\ sock \in Seq(0..n) /\ Len(sock) = Len(objects)
  BY DEF TypeOK
<1>2. /\ sock[o] \in 0..n /\ \A s \in 1..n : sockets[s] \in Socket
  BY TypeFacts
<1>3. address \in STRING /\ None \in STRING
  <2>1. objects[o] \in Object
    BY DEF TypeOK
  <2> QED BY <2>1, OutputsAssumption DEF Object
<1>4. PICK drops \in {FALSE, sock[o] # 0} :
        LET kept == Kept(drops) IN
        /\ sockets' = Append(kept, [address |-> IF InUse(kept) THEN None ELSE address,
                                    open |-> TRUE])
        /\ sock' = [sock EXCEPT ![o] = Len(kept) + 1]
        /\ IF InUse(kept) THEN Raise("taken") ELSE UNCHANGED <<stage, error>>
  BY DEF OpenSocket
<1> DEFINE kept == Kept(drops)
<1>5. /\ kept \in Seq(Socket) /\ Len(kept) = n
      /\ \A s \in 1..n : /\ s # sock[o] => kept[s] = sockets[s]
                         /\ kept[s].address = sockets[s].address
                         /\ kept[s].open => sockets[s].open
  <2>1. CASE drops
    <3>1. sock[o] \in 1..n
      <4>1. sock[o] # 0
        BY <2>1, Zenon
      <4> QED BY <1>1, <1>2, <4>1
    <3>2. sockets[sock[o]] \in Socket
      BY <1>2, <3>1
    <3>3. kept = [sockets EXCEPT ![sock[o]] = [sockets[sock[o]] EXCEPT !.open = FALSE]]
      BY <2>1
    <3>4. [sockets[sock[o]] EXCEPT !.open = FALSE] \in Socket
      BY <3>2
    <3> HIDE DEF kept, n
    <3> QED BY <1>1, <3>1, <3>2, <3>3, <3>4 DEF n
  <2>2. CASE ~drops
    BY <1>1, <2>2
  <2> QED BY <2>1, <2>2
<1> HIDE DEF kept
<1>6. sockets' = Append(kept, [address |-> IF InUse(kept) THEN None ELSE address, open |-> TRUE])
  BY <1>4 DEF kept
<1>7. [address |-> IF InUse(kept) THEN None ELSE address, open |-> TRUE] \in Socket
  BY <1>3
<1>8. /\ sockets' \in Seq(Socket) /\ Len(sockets') = n + 1
      /\ \A s \in 1..n : sockets'[s] = kept[s]
      /\ sockets'[n + 1].address \in {None, address}
  <2> DEFINE new == [address |-> IF InUse(kept) THEN None ELSE address, open |-> TRUE]
  <2>1. new.address \in {None, address}
    OBVIOUS
  <2> HIDE DEF new, InUse, n
  <2>2. sockets' = Append(kept, new) /\ new \in Socket
    BY <1>6, <1>7 DEF new
  <2> QED BY <1>1, <1>5, <2>1, <2>2
<1>9. sock' = [sock EXCEPT ![o] = n + 1]
  BY <1>4, <1>5 DEF kept
<1>10. sock' \in Seq(0..n + 1) /\ Len(sock') = Len(sock)
      /\ \A p \in 1..Len(objects) : sock'[p] = IF p = o THEN n + 1 ELSE sock[p]
  <2>1. 0..n \subseteq 0..n + 1 /\ n + 1 \in 0..n + 1
    BY <1>1
  <2>2. sock \in Seq(0..n + 1)
    BY <1>1, <2>1, SeqMonotonic
  <2> HIDE DEF n
  <2> QED BY <1>1, <1>9, <2>1, <2>2
<1>11. \/ UNCHANGED <<stage, error>>
       \/ /\ stage' \in {"stopping", "ended"} /\ error' = "taken" /\ address # None
          /\ \E s \in 1..n : sockets[s].open /\ sockets[s].address = address
  <2>1. IF InUse(kept) THEN Raise("taken") ELSE UNCHANGED <<stage, error>>
    BY <1>4 DEF kept
  <2> QED BY <1>5, <2>1 DEF Raise
<1> QED BY <1>1, <1>5, <1>8, <1>10, <1>11

LEMMA OnStartCases ==
  ASSUME OnStart, NEW o, o = joins[begun + 1]
  PROVE  IF objects[o].type = "zeromq" THEN OpenSocket(o) ELSE UNCHANGED <<stage, error, socketVars>>
<1>1. CASE objects[o].type = "zeromq"
  <2>1. OpenSocket(joins[begun + 1])
    BY <1>1 DEF OnStart
  <2>2. OpenSocket(o)
    BY <2>1 DEF OpenSocket
  <2> QED BY <1>1, <2>2
<1>2. CASE objects[o].type # "zeromq"
  BY <1>2 DEF OnStart
<1> QED BY <1>1, <1>2

LEMMA OnStartType == TypeOK /\ OnStart => TypeOK'
<1> SUFFICES ASSUME TypeOK, OnStart PROVE TypeOK'
  OBVIOUS
<1>1. /\ begun' = begun + 1 /\ begun \in Nat /\ begun < Len(joins) /\ Len(joins) \in Nat
      /\ UNCHANGED <<configVars, connectVars, vodkaVars, messageVars, storeVars>>
  BY DEF OnStart, TypeOK
<1>2. PICK o \in 1..Len(objects) : o = joins[begun + 1]
  <2>1. begun + 1 \in 1..Len(joins)
    BY <1>1
  <2> QED BY <2>1, TypeFacts
<1>3. begun' \in 0..Len(joins')
  BY <1>1 DEF connectVars
<1>4. CASE OpenSocket(o)
  <2>1. /\ sockets' \in Seq([address : STRING, open : BOOLEAN])
        /\ sock' \in Seq(0..Len(sockets')) /\ Len(sock') = Len(sock)
        /\ UNCHANGED <<stage, error>> \/ (stage' \in {"stopping", "ended"} /\ error' = "taken")
    BY <1>4, OpenSocketFacts
  <2> QED BY <1>1, <1>3, <2>1 DEF TypeOK, configVars, connectVars, vodkaVars, messageVars
<1>5. CASE UNCHANGED <<stage, error, socketVars>>
  BY <1>1, <1>3, <1>5
  DEF TypeOK, configVars, connectVars, vodkaVars, messageVars, socketVars
<1>6. OpenSocket(o) \/ UNCHANGED <<stage, error, socketVars>>
  BY <1>2, OnStartCases
<1> QED BY <1>4, <1>5, <1>6

LEMMA ProbesWithin ==
  ASSUME TypeOK, Progress
  PROVE  /\ Len(probes) <= Len(config.probes)
         /\ stage = "running" => at[1] = Len(config.probes) + 1 /\ at[2] = 0
                                 /\ Len(probes) = Len(config.probes)
         /\ \A i \in 1..Len(probes) :
              /\ i \in 1..Len(config.probes)
              /\ Len(emitters[i]) <= Len(config.probes[i].outputs)
              /\ i < at[1] => Len(emitters[i]) = Len(config.probes[i].outputs)
<1>1. /\ at[1] \in Nat \ {0} /\ at[2] \in Nat /\ Len(probes) \in Nat
      /\ Len(config.probes) \in Nat
  BY TypeFacts, ConfigFacts
<1>2. /\ at[1] <= Len(config.probes) + 1
      /\ Len(probes) = IF at[2] = 0 THEN at[1] - 1 ELSE at[1]
      /\ at[2] # 0 => at[1] <= Len(config.probes)
      /\ stage = "running" => at[1] = Len(config.probes) + 1
  BY DEF Progress
<1>3. Len(probes) <= Len(config.probes)
  BY <1>1, <1>2
<1>4. ASSUME NEW i \in 1..Len(probes)
      PROVE  /\ Len(emitters[i]) <= Len(config.probes[i].outputs)
             /\ i < at[1] => Len(emitters[i]) = Len(config.probes[i].outputs)
  <2>1. Len(emitters[i]) = IF i < at[1] THEN Len(config.probes[i].outputs) ELSE at[2] - 1
    BY DEF Progress
  <2>2. i \in 1..Len(config.probes) /\ Len(config.probes[i].outputs) \in Nat
    BY <1>1, <1>3, ConfigFacts
  <2>3. CASE i < at[1]
    BY <2>1, <2>2, <2>3
  <2>4. CASE ~(i < at[1])
    <3>1. i = at[1] /\ at[2] # 0
      BY <1>1, <1>2, <2>4
    <3>2. at[2] <= Len(config.probes[i].outputs) + 1
      BY <3>1 DEF Progress
    <3> QED BY <1>1, <2>1, <2>2, <2>4, <3>1, <3>2
  <2> QED BY <2>3, <2>4
<1> QED BY <1>1, <1>2, <1>3, <1>4

(* The calls of the emission at the start of a cycle: of one message, which  *)
(* is gone with them.                                                       *)
LEMMA EmitAllFacts ==
  ASSUME TypeOK, Progress, EmitAll
  PROVE  \E i \in 1..Len(probes) :
    /\ stage = "running" /\ turn = 0 /\ todo = <<>> /\ i \in 1..Len(config.probes)
    /\ \E b \in 1..begun : joins[b] = probes[i]
    /\ turn' = i /\ last' \in Seq(Sent) /\ Len(last') = Len(last)
    /\ last'[i].rows = <<>> /\ last'[i].second = last[i].second
    /\ \A k \in 1..Len(probes) : k # i => last'[k] = last[k]
    /\ todo' \in Seq(Call)
    /\ todo' # <<>> => last[i].rows # <<>> /\ Len(todo') = Len(emitters[i])
    /\ \A j \in 1..Len(todo') :
         /\ j \in 1..Len(emitters[i])
         /\ todo'[j].output = emitters[i][j] /\ todo'[j].probe = i /\ todo'[j].pos = j
         /\ todo'[j].rows = last[i].rows
    /\ UNCHANGED <<stage, error, config, objects, instance, at, joins, probes, emitters,
                   ready, sender, begun, sock, sockets, lazy, runs, groups, second,
                   hasty, made, created, values>>
<1> DEFINE Calls(i) == [j \in 1..Len(emitters[i]) |->
             [output |-> emitters[i][j], probe |-> i, pos |-> j, rows |-> last[i].rows]]
<1>1. PICK i \in 1..Len(probes) :
        /\ stage = "running" /\ turn = 0
        /\ probes[i] \in {joins[k] : k \in 1..begun}
        /\ turn' = i /\ last' = [last EXCEPT ![i].rows = <<>>]
        /\ todo' = IF last[i].rows = <<>> THEN <<>> ELSE Calls(i)
        /\ UNCHANGED <<stage, error, configVars, connectVars, begun, socketVars,
                       vodkaVars, second, hasty, made, storeVars>>
  BY DEF EmitAll
<1>2. todo = <<>>
  BY <1>1 DEF Progress
<1>3. i \in 1..Len(config.probes)
  BY ProbesWithin
<1>4. last \in Seq(Sent) /\ i \in 1..Len(last) /\ last[i] \in Sent /\ Len(last) = Len(probes)
  BY TypeFacts DEF TypeOK
<1>5. last[i].rows \in Seq(Row) /\ <<>> \in Seq(Row)
  BY <1>4 DEF Sent
<1>6. /\ last' \in Seq(Sent) /\ Len(last') = Len(last)
      /\ last'[i].rows = <<>> /\ last'[i].second = last[i].second
      /\ \A k \in 1..Len(probes) : k # i => last'[k] = last[k]
  <2> DEFINE new == [last[i] EXCEPT !.rows = <<>>]
  <2>1. new \in Sent /\ new.rows = <<>> /\ new.second = last[i].second
    BY <1>4, <1>5 DEF Sent
  <2>2. last' = [last EXCEPT ![i] = new]
    BY <1>1
  <2> HIDE DEF new
  <2> QED BY <1>4, <2>1, <2>2
<1>7. /\ Len(emitters[i]) \in Nat /\ \A j \in 1..Len(emitters[i]) : emitters[i][j] \in Nat
  <2>1. /\ Len(emitters[i]) \in Nat /\ Len(objects) \in Nat
        /\ \A j \in 1..Len(emitters[i]) : emitters[i][j] \in 1..Len(objects)
    BY TypeFacts
  <2> QED BY <2>1
<1>8. \A j \in 1..Len(emitters[i]) :
        [output |-> emitters[i][j], probe |-> i, pos |-> j, rows |-> last[i].rows] \in Call
  BY <1>5, <1>7, i \in Nat DEF Call
<1>9. /\ Calls(i) \in Seq(Call) /\ Len(Calls(i)) = Len(emitters[i])
      /\ \A j \in 1..Len(emitters[i]) :
           /\ Calls(i)[j].output = emitters[i][j] /\ Calls(i)[j].probe = i
           /\ Calls(i)[j].pos = j /\ Calls(i)[j].rows = last[i].rows
  BY <1>7, <1>8
<1> HIDE DEF Calls
<1>10. /\ todo' \in Seq(Call)
       /\ todo' # <<>> => last[i].rows # <<>> /\ Len(todo') = Len(emitters[i])
       /\ \A j \in 1..Len(todo') :
            /\ j \in 1..Len(emitters[i])
            /\ todo'[j].output = emitters[i][j] /\ todo'[j].probe = i /\ todo'[j].pos = j
            /\ todo'[j].rows = last[i].rows
  <2>1. CASE last[i].rows = <<>>
    BY <1>1, <2>1
  <2>2. CASE last[i].rows # <<>>
    BY <1>1, <1>9, <2>2
  <2> QED BY <2>1, <2>2
<1>11. \E b \in 1..begun : joins[b] = probes[i]
  BY <1>1
<1>12. UNCHANGED <<stage, error, config, objects, instance, at, joins, probes, emitters,
                   ready, sender, begun, sock, sockets, lazy, runs, groups, second,
                   hasty, made, created, values>>
  BY <1>1 DEF configVars, connectVars, socketVars, vodkaVars, storeVars
<1> QED BY <1>1, <1>2, <1>3, <1>6, <1>10, <1>11, <1>12

LEMMA EmitAllType == TypeOK /\ Progress /\ EmitAll => TypeOK'
<1> SUFFICES ASSUME TypeOK, Progress, EmitAll PROVE TypeOK'
  OBVIOUS
<1>1. PICK i \in 1..Len(probes) :
        /\ turn' = i /\ last' \in Seq(Sent) /\ Len(last') = Len(last) /\ todo' \in Seq(Call)
        /\ UNCHANGED <<stage, error, config, objects, instance, at, joins, probes, emitters,
                       ready, sender, begun, sock, sockets, lazy, runs, second, hasty, made>>
  BY EmitAllFacts
<1>2. turn' \in 0..Len(probes)
  BY <1>1, TypeFacts
<1> QED BY <1>1, <1>2 DEF TypeOK

(* A message that a probe makes, if it makes one: rows of its hosts, and a  *)
(* stamp that is later than the one before, or the probe is hasty.          *)
LEMMA MessageFacts ==
  ASSUME TypeOK, Progress, Message
  PROVE
    /\ stage = "running" /\ todo = <<>> /\ turn \in 1..Len(probes) /\ turn' = 0
    /\ turn \in 1..Len(config.probes)
    /\ UNCHANGED <<stage, error, config, objects, instance, at, joins, probes, emitters,
                   ready, sender, begun, sock, sockets, lazy, runs, groups, second, todo,
                   created, values>>
    /\ \/ UNCHANGED <<last, hasty, made>>
       \/ /\ made' \in 0..MaxMessages /\ last' \in Seq(Sent) /\ Len(last') = Len(last)
          /\ last'[turn].second = second
          /\ Len(last'[turn].rows) = Len(config.probes[turn].hosts)
          /\ \A k \in 1..Len(last'[turn].rows) :
               last'[turn].rows[k].host = config.probes[turn].hosts[k]
          /\ \A k \in 1..Len(probes) : k # turn => last'[k] = last[k]
          /\ hasty' = IF second <= last[turn].second THEN hasty \cup {turn} ELSE hasty
<1> DEFINE probe == config.probes[turn]
           h == Len(probe.hosts)
           Rows(has) == [k \in 1..h |-> [host |-> probe.hosts[k], has |-> has[k]]]
<1>1. /\ stage = "running" /\ todo = <<>> /\ turn # 0 /\ turn' = 0
      /\ UNCHANGED <<stage, error, config, objects, instance, at, joins, probes, emitters,
                     ready, sender, begun, sock, sockets, lazy, runs, groups, second, todo,
                     created, values>>
  BY DEF Message, configVars, connectVars, socketVars, vodkaVars, storeVars
<1>2. turn \in 1..Len(probes)
  <2>1. turn \in 0..Len(probes) /\ Len(probes) \in Nat
    BY TypeFacts
  <2> QED BY <1>1, <2>1
<1>3. turn \in 1..Len(config.probes)
  BY <1>2, ProbesWithin
<1>4. probe \in ProbeConfig
  BY <1>3, ConfigFacts
<1>5. probe.hosts \in Seq(STRING) /\ h \in Nat /\ probe.rows \subseteq Content
  BY <1>4 DEF ProbeConfig
<1>6. \A k \in 1..h : probe.hosts[k] \in STRING
  BY <1>5
<1>7. ASSUME NEW has \in [1..h -> probe.rows]
      PROVE  /\ Rows(has) \in Seq(Row) /\ Len(Rows(has)) = h
             /\ \A k \in 1..h : Rows(has)[k].host = probe.hosts[k]
  <2>1. \A k \in 1..h : [host |-> probe.hosts[k], has |-> has[k]] \in Row
    BY <1>5, <1>6 DEF Row
  <2> QED BY <1>5, <2>1
<1>8. ASSUME made < MaxMessages, made' = made + 1,
             hasty' = IF second <= last[turn].second THEN hasty \cup {turn} ELSE hasty,
             NEW has \in [1..h -> probe.rows],
             last' = [last EXCEPT ![turn] = [second |-> second, rows |-> Rows(has)]]
      PROVE  /\ made' \in 0..MaxMessages /\ last' \in Seq(Sent) /\ Len(last') = Len(last)
             /\ last'[turn].second = second
             /\ Len(last'[turn].rows) = h
             /\ \A k \in 1..Len(last'[turn].rows) : last'[turn].rows[k].host = probe.hosts[k]
             /\ \A k \in 1..Len(probes) : k # turn => last'[k] = last[k]
  <2> DEFINE new == [second |-> second, rows |-> Rows(has)]
  <2>1. made' \in 0..MaxMessages
    BY <1>8, OutputsAssumption DEF TypeOK
  <2>2. second \in 0..MaxSecond /\ last \in Seq(Sent) /\ Len(last) = Len(probes)
    BY OutputsAssumption DEF TypeOK
  <2>3. /\ Rows(has) \in Seq(Row) /\ Len(Rows(has)) = h
        /\ \A k \in 1..h : Rows(has)[k].host = probe.hosts[k]
    BY <1>7
  <2> HIDE DEF Rows
  <2>4. /\ new \in Sent /\ new.second = second /\ Len(new.rows) = h
        /\ \A k \in 1..h : new.rows[k].host = probe.hosts[k]
    BY <2>2, <2>3 DEF Sent
  <2>5. last' = [last EXCEPT ![turn] = new]
    BY <1>8
  <2> HIDE DEF new, h, probe
  <2>6. last' \in Seq(Sent) /\ Len(last') = Len(last) /\ last'[turn] = new
        /\ \A k \in 1..Len(probes) : k # turn => last'[k] = last[k]
    BY <1>2, <2>2, <2>4, <2>5
  <2> QED BY <2>1, <2>4, <2>6
<1>9. \/ UNCHANGED <<last, hasty, made>>
      \/ /\ made < MaxMessages /\ made' = made + 1
         /\ hasty' = IF second <= last[turn].second THEN hasty \cup {turn} ELSE hasty
         /\ \E has \in [1..h -> probe.rows] :
              last' = [last EXCEPT ![turn] = [second |-> second, rows |-> Rows(has)]]
  BY DEF Message
<1> HIDE DEF Rows, h
<1>10. CASE UNCHANGED <<last, hasty, made>>
  BY <1>1, <1>2, <1>3, <1>10
<1>11. CASE /\ made < MaxMessages /\ made' = made + 1
            /\ hasty' = IF second <= last[turn].second THEN hasty \cup {turn} ELSE hasty
            /\ \E has \in [1..h -> probe.rows] :
                 last' = [last EXCEPT ![turn] = [second |-> second, rows |-> Rows(has)]]
  BY <1>1, <1>2, <1>3, <1>8, <1>11 DEF h
<1> QED BY <1>9, <1>10, <1>11

LEMMA MessageType == TypeOK /\ Progress /\ Message => TypeOK'
<1> SUFFICES ASSUME TypeOK, Progress, Message PROVE TypeOK'
  OBVIOUS
<1>1. /\ turn \in 1..Len(probes) /\ turn' = 0
      /\ UNCHANGED <<stage, error, config, objects, instance, at, joins, probes, emitters,
                     ready, sender, begun, sock, sockets, lazy, runs, second, todo>>
  BY MessageFacts
<1>2. turn' \in 0..Len(probes) /\ Len(last) = Len(probes)
  BY <1>1, TypeFacts
<1>3. CASE UNCHANGED <<last, hasty, made>>
  BY <1>1, <1>2, <1>3 DEF TypeOK
<1>4. CASE /\ made' \in 0..MaxMessages /\ last' \in Seq(Sent) /\ Len(last') = Len(last)
           /\ hasty' = IF second <= last[turn].second THEN hasty \cup {turn} ELSE hasty
  <2>1. hasty' \subseteq 1..Len(probes)
    BY <1>1, <1>4 DEF TypeOK
  <2> QED BY <1>1, <1>2, <1>4, <2>1 DEF TypeOK
<1> QED BY <1>3, <1>4, MessageFacts

(* The rest of the emission, after a call of it or after a row.             *)
LEMMA TailFacts ==
  ASSUME TypeOK, todo # <<>>
  PROVE  /\ Len(todo) \in Nat /\ Len(todo) >= 1 /\ 1 \in 1..Len(todo) /\ todo[1] \in Call
         /\ Tail(todo) \in Seq(Call) /\ Len(Tail(todo)) = Len(todo) - 1
         /\ \A k \in 1..Len(todo) - 1 : Tail(todo)[k] = todo[k + 1]
<1>1. todo \in Seq(Call)
  BY DEF TypeOK
<1> QED BY <1>1

LEMMA NextRowFacts ==
  ASSUME TypeOK, todo # <<>>, NextRow
  PROVE  /\ todo' \in Seq(Call)
         /\ \/ todo' = Tail(todo)
            \/ /\ Len(todo') = Len(todo) /\ Len(todo[1].rows) > 1
               /\ \A k \in 1..Len(todo) : k # 1 => todo'[k] = todo[k]
               /\ todo'[1].output = todo[1].output /\ todo'[1].probe = todo[1].probe
               /\ todo'[1].pos = todo[1].pos /\ todo'[1].rows = Tail(todo[1].rows)
<1>1. /\ todo \in Seq(Call) /\ todo[1] \in Call /\ 1 \in 1..Len(todo)
      /\ Tail(todo) \in Seq(Call)
  BY TailFacts DEF TypeOK
<1>2. todo[1].rows \in Seq(Row)
  BY <1>1 DEF Call
<1>3. CASE Len(todo[1].rows) <= 1
  BY <1>1, <1>3 DEF NextRow
<1>4. CASE ~(Len(todo[1].rows) <= 1)
  <2> DEFINE call == [todo[1] EXCEPT !.rows = Tail(@)]
  <2>1. todo' = [todo EXCEPT ![1] = call]
    BY <1>4 DEF NextRow
  <2>2. Len(todo[1].rows) \in Nat /\ Len(todo[1].rows) > 1
    BY <1>2, <1>4
  <2>3. Tail(todo[1].rows) \in Seq(Row)
    BY <1>2, <2>2
  <2>4. /\ call \in Call /\ call.output = todo[1].output /\ call.probe = todo[1].probe
        /\ call.pos = todo[1].pos /\ call.rows = Tail(todo[1].rows)
    BY <1>1, <2>3 DEF Call
  <2> HIDE DEF call
  <2> QED BY <1>1, <2>1, <2>2, <2>4
<1> QED BY <1>3, <1>4

(* What the call of a vodka output can do.                                  *)
LEMMA VodkaCases ==
  ASSUME TypeOK, EmitVodka
  PROVE  LET o == todo[1].output
             n == Len(objects)
             m == Len(config.probes)
         IN
    /\ todo # <<>> /\ objects[o].type = "vodka" /\ n \in Nat /\ m \in Nat
    /\ UNCHANGED <<config, at, joins, probes, emitters, ready, sender, begun, sockets,
                   second, last, turn, hasty, made, created, values>>
    /\ \/ /\ todo' = Tail(todo)
          /\ UNCHANGED <<stage, error, objects, instance, sock, lazy, runs, groups>>
       \/ /\ o \notin lazy /\ runs' = Append(runs, o) /\ lazy' = lazy \cup {o}
          /\ \/ /\ stage' \in {"stopping", "ended"} /\ error' = "vodka" /\ todo' = <<>>
                /\ UNCHANGED <<objects, instance, sock, groups>>
             \/ /\ ~config.graphsrv /\ todo' = Tail(todo)
                /\ UNCHANGED <<stage, error, objects, instance, sock, groups>>
             \/ /\ todo' = Tail(todo) /\ UNCHANGED <<stage, error>>
                /\ groups' = groups \cup {config.probes[k].name : k \in 1..m}
                /\ objects' \in Seq(Object) /\ Len(objects') = n + m
                /\ \A p \in 1..n + m : objects'[p] = IF p <= n THEN objects[p] ELSE NoPlugin
                /\ sock' \in Seq(0..Len(sockets)) /\ Len(sock') = n + m
                /\ \A p \in 1..n + m : sock'[p] = IF p <= n THEN sock[p] ELSE 0
                /\ instance' \in [Names -> 0..n + m]
                /\ \A name \in Names :
                     \/ instance'[name] = instance[name]
                     \/ /\ \E k \in 1..m : config.probes[k].name = name
                        /\ instance'[name] \in n + 1..n + m
<1> DEFINE o == todo[1].output
           n == Len(objects)
           m == Len(config.probes)
           twins == [k \in 1..m |-> NoPlugin]
           zeros == [k \in 1..m |-> 0]
           Twin(name) == {k \in 1..m : config.probes[k].name = name}
           last_(name) == CHOOSE k \in Twin(name) : \A l \in Twin(name) : l <= k
<1>1. todo # <<>> /\ objects[o].type = "vodka"
  BY DEF EmitVodka
<1>2. n \in Nat /\ m \in Nat /\ objects \in Seq(Object)
      /\ sock \in Seq(0..Len(sockets)) /\ Len(sock) = n /\ Len(sockets) \in Nat
      /\ instance \in [Names -> 0..n]
  <2>1. /\ objects \in Seq(Object) /\ sock \in Seq(0..Len(sockets))
        /\ instance \in [Names -> 0..n]
    BY DEF TypeOK
  <2> QED BY <2>1, TypeFacts, ConfigFacts
<1>3. UNCHANGED <<config, at, joins, probes, emitters, ready, sender, begun, sockets,
                  second, last, turn, hasty, made, created, values>>
  BY DEF EmitVodka, connectVars, storeVars, configVars, cycleVars
<1>4. CASE o \in lazy
  BY <1>1, <1>2, <1>3, <1>4 DEF EmitVodka, Done, configVars, vodkaVars
<1>5. CASE o \notin lazy
  <2>1. runs' = Append(runs, o) /\ lazy' = lazy \cup {o}
    BY <1>5 DEF EmitVodka, VodkaStart
  <2>2. CASE Fails("vodka") /\ UNCHANGED <<objects, instance, sock, groups>>
    BY <1>1, <1>2, <1>3, <1>5, <2>1, <2>2 DEF Fails, Raise
  <2>3. ASSUME Done, objects' = objects \o twins, sock' = sock \o zeros,
               instance' = [name \in Names |-> IF Twin(name) = {} THEN instance[name]
                                               ELSE n + last_(name)],
               groups' = groups \cup {config.probes[k].name : k \in 1..m}
        PROVE  /\ todo' = Tail(todo) /\ UNCHANGED <<stage, error>>
               /\ groups' = groups \cup {config.probes[k].name : k \in 1..m}
               /\ objects' \in Seq(Object) /\ Len(objects') = n + m
               /\ \A p \in 1..n + m : objects'[p] = IF p <= n THEN objects[p] ELSE NoPlugin
               /\ sock' \in Seq(0..Len(sockets)) /\ Len(sock') = n + m
               /\ \A p \in 1..n + m : sock'[p] = IF p <= n THEN sock[p] ELSE 0
               /\ instance' \in [Names -> 0..n + m]
               /\ \A name \in Names :
                    \/ instance'[name] = instance[name]
                    \/ /\ \E k \in 1..m : config.probes[k].name = name
                       /\ instance'[name] \in n + 1..n + m
    <3>1. twins \in Seq(Object) /\ Len(twins) = m /\ zeros \in Seq(0..Len(sockets))
          /\ Len(zeros) = m
      BY <1>2, NoPluginFacts
    <3>2. ASSUME NEW name \in Names, Twin(name) # {}
          PROVE  last_(name) \in Twin(name)
      <4>1. \E k \in Twin(name) : \A l \in Twin(name) : l <= k
        BY <1>2, <3>2, GreatestBelow, Twin(name) \subseteq 0..m
      <4> QED BY <4>1
    <3>3. ASSUME NEW name \in Names
          PROVE  /\ instance'[name] \in 0..n + m
                 /\ \/ instance'[name] = instance[name]
                    \/ /\ \E k \in 1..m : config.probes[k].name = name
                       /\ instance'[name] \in n + 1..n + m
      <4>1. CASE Twin(name) = {}
        BY <1>2, <2>3, <4>1
      <4>2. CASE Twin(name) # {}
        <5>1. PICK k \in 1..m : k = last_(name) /\ config.probes[k].name = name
          BY <3>2, <4>2
        <5>2. instance'[name] = n + k
          BY <2>3, <4>2, <5>1
        <5>3. n + k \in n + 1..n + m /\ n + k \in 0..n + m
          BY <1>2
        <5> QED BY <5>1, <5>2, <5>3
      <4> QED BY <4>1, <4>2
    <3> HIDE DEF last_, Twin
    <3>4. instance' \in [Names -> 0..n + m]
      BY <2>3, <3>3
    <3>5. /\ objects' \in Seq(Object) /\ Len(objects') = n + m
          /\ \A p \in 1..n + m : objects'[p] = IF p <= n THEN objects[p] ELSE NoPlugin
      BY <1>2, <2>3, <3>1
    <3>6. /\ sock' \in Seq(0..Len(sockets)) /\ Len(sock') = n + m
          /\ \A p \in 1..n + m : sock'[p] = IF p <= n THEN sock[p] ELSE 0
      <4> DEFINE S == 0..Len(sockets)
      <4>1. sock' = sock \o [k \in 1..m |-> 0]
        BY <2>3
      <4>2. sock \in Seq(S) /\ 0 \in S /\ m \in Nat /\ Len(sock) = n
        BY <1>2
      <4> HIDE DEF S, m, n
      <4>3. /\ sock' \in Seq(S) /\ Len(sock') = n + m
            /\ \A p \in 1..n + m : sock'[p] = IF p <= n THEN sock[p] ELSE 0
        BY <4>1, <4>2
      <4> QED BY <4>3 DEF S
    <3> QED BY <2>3, <3>3, <3>4, <3>5, <3>6 DEF Done
  <2>5. CASE ~config.graphsrv /\ Done /\ UNCHANGED <<objects, instance, sock, groups>>
    BY <1>1, <1>2, <1>3, <1>5, <2>1, <2>5 DEF Done
  <2>4. \/ Fails("vodka") /\ UNCHANGED <<objects, instance, sock, groups>>
        \/ ~config.graphsrv /\ Done /\ UNCHANGED <<objects, instance, sock, groups>>
        \/ /\ Done /\ objects' = objects \o twins /\ sock' = sock \o zeros
           /\ instance' = [name \in Names |-> IF Twin(name) = {} THEN instance[name]
                                              ELSE n + last_(name)]
           /\ groups' = groups \cup {config.probes[k].name : k \in 1..m}
    BY <1>5 DEF EmitVodka
  <2> HIDE DEF last_, Twin, twins, zeros
  <2> QED BY <1>1, <1>2, <1>3, <1>5, <2>1, <2>2, <2>3, <2>4, <2>5
<1> QED BY <1>4, <1>5

(* The output of a call is an object of joins that has begun.               *)
LEMMA CalledFacts ==
  ASSUME TypeOK, Begun, todo # <<>>
  PROVE  /\ todo[1].output \in 1..Len(objects)
         /\ \E b \in 1..begun : b \in 1..Len(joins) /\ joins[b] = todo[1].output
<1>1. 1 \in 1..Len(todo)
  BY TailFacts
<1>2. PICK b \in 1..begun : joins[b] = todo[1].output
  BY <1>1 DEF Begun
<1>3. b \in 1..Len(joins)
  <2>1. begun \in 0..Len(joins) /\ Len(joins) \in Nat
    BY TypeFacts
  <2> QED BY <2>1
<1> QED BY <1>2, <1>3, TypeFacts

LEMMA EmitVodkaType == TypeOK /\ Begun /\ EmitVodka => TypeOK'
<1> SUFFICES ASSUME TypeOK, Begun, EmitVodka PROVE TypeOK'
  OBVIOUS
<1> DEFINE o == todo[1].output
           n == Len(objects)
           m == Len(config.probes)
<1>1. /\ todo # <<>> /\ n \in Nat /\ m \in Nat /\ n <= n + m /\ n + m \in Nat /\ o \in 1..n
      /\ UNCHANGED <<config, at, joins, probes, emitters, ready, sender, begun, sockets,
                     second, last, turn, hasty, made>>
  BY VodkaCases, CalledFacts
<1>2. Tail(todo) \in Seq(Call) /\ <<>> \in Seq(Call)
  BY <1>1, TailFacts
<1>3. runs \in Seq(1..n) /\ lazy \subseteq 1..n
  BY DEF TypeOK
<1> HIDE DEF o
<1>4. Append(runs, o) \in Seq(1..n) /\ lazy \cup {o} \subseteq 1..n
  BY <1>1, <1>3
<1>5. CASE todo' = Tail(todo) /\ UNCHANGED <<stage, error, objects, instance, sock, lazy, runs>>
  BY <1>1, <1>2, <1>5 DEF TypeOK
<1>6. CASE /\ runs' = Append(runs, o) /\ lazy' = lazy \cup {o}
           /\ stage' \in {"stopping", "ended"} /\ error' = "vodka" /\ todo' = <<>>
           /\ UNCHANGED <<objects, instance, sock>>
  BY <1>1, <1>2, <1>4, <1>6 DEF TypeOK
<1>8. CASE /\ runs' = Append(runs, o) /\ lazy' = lazy \cup {o} /\ todo' = Tail(todo)
           /\ UNCHANGED <<stage, error, objects, instance, sock>>
  BY <1>1, <1>2, <1>4, <1>8 DEF TypeOK
<1>7. CASE /\ runs' = Append(runs, o) /\ lazy' = lazy \cup {o}
           /\ todo' = Tail(todo) /\ UNCHANGED <<stage, error>>
           /\ objects' \in Seq(Object) /\ Len(objects') = n + m
           /\ sock' \in Seq(0..Len(sockets)) /\ Len(sock') = n + m
           /\ instance' \in [Names -> 0..n + m]
  <2>1. /\ stage \in {"plugins", "connect", "running", "stopping", "ended"}
        /\ error \in Error
        /\ begun \in 0..Len(joins) /\ Len(emitters) = Len(probes) /\ Len(last) = Len(probes)
        /\ last \in Seq(Sent) /\ at \in (Nat \ {0}) \X Nat
        /\ turn \in 0..Len(probes) /\ hasty \subseteq 1..Len(probes) /\ made \in 0..MaxMessages
    BY DEF TypeOK
  <2>2. 1..n \subseteq 1..n + m
    BY <1>1
  <2>3. runs' \in Seq(1..n + m)
    BY <1>4, <1>7, <2>2, SeqMonotonic
  <2>4. /\ joins \in Seq(1..n + m) /\ probes \in Seq(1..n + m)
        /\ emitters \in Seq(Seq(1..n + m)) /\ ready \cup lazy \subseteq 1..n + m
        /\ sender \in 0..n + m
    BY <1>1, TypeGrows
  <2>5. ready' \cup lazy' \subseteq 1..n + m
    BY <1>1, <1>4, <1>7, <2>2, <2>4
  <2> HIDE DEF n, m
  <2> QED BY <1>1, <1>2, <1>7, <2>1, <2>3, <2>4, <2>5, TypeWithMore DEF n
<1> QED BY <1>5, <1>6, <1>7, <1>8, VodkaCases DEF o

(* The other calls leave all but todo, the stage and the databases alone.   *)
LEMMA OtherEmits ==
  ASSUME TypeOK, EmitZeroMQ \/ EmitPrometheus \/ EmitRow
  PROVE  /\ todo # <<>> /\ todo' \in Seq(Call)
         /\ UNCHANGED <<config, objects, instance, at, joins, probes, emitters, ready,
                        sender, begun, sock, sockets, lazy, runs, groups, second, last, turn, hasty, made>>
         /\ \/ /\ UNCHANGED <<stage, error>>
               /\ todo' = Tail(todo) \/ NextRow
            \/ /\ stage' \in {"stopping", "ended"} /\ todo' = <<>>
               /\ error' \in {"unready", "refused", "bare"}
<1>1. todo # <<>>
  BY DEF EmitZeroMQ, EmitPrometheus, EmitRow
<1>2. Tail(todo) \in Seq(Call) /\ <<>> \in Seq(Call) /\ (NextRow => todo' \in Seq(Call))
  BY <1>1, TailFacts, NextRowFacts
<1>3. UNCHANGED <<config, objects, instance, at, joins, probes, emitters, ready, sender,
                  begun, sock, sockets, lazy, runs, groups, second, last, turn, hasty, made>>
  BY DEF EmitZeroMQ, EmitPrometheus, EmitRow, configVars, connectVars, socketVars, vodkaVars,
         cycleVars
<1>4. CASE EmitZeroMQ
  BY <1>1, <1>2, <1>3, <1>4 DEF EmitZeroMQ, Done, Fails, Raise
<1>5. CASE EmitPrometheus
  BY <1>1, <1>2, <1>3, <1>5 DEF EmitPrometheus, Done, Fails, Raise
<1>6. CASE EmitRow
  <2>1. \/ UNCHANGED <<stage, error>> /\ NextRow
        \/ Fails("unready") \/ Fails("refused")
    BY <1>6 DEF EmitRow, Store
  <2> QED BY <1>1, <1>2, <1>3, <2>1 DEF Fails, Raise
<1> QED BY <1>4, <1>5, <1>6

(* OnStop closes sockets, those of all joins unless it is cut short, and    *)
(* changes nothing else.                                                    *)
LEMMA OnStopFacts ==
  ASSUME TypeOK, OnStop
  PROVE  /\ stage = "stopping" /\ stage' = "ended" /\ error' \in {error, "cut"}
         /\ sockets' \in Seq([address : STRING, open : BOOLEAN])
         /\ Len(sockets') = Len(sockets)
         /\ \A s \in 1..Len(sockets) :
              /\ sockets'[s].address = sockets[s].address
              /\ sockets'[s].open => sockets[s].open
              /\ error' # "cut" => \A b \in 1..Len(joins) : sock[joins[b]] = s =>
                                     ~sockets'[s].open
         /\ UNCHANGED <<config, objects, instance, at, joins, probes, emitters,
                        ready, sender, begun, sock, lazy, runs, groups, second,
                        last, turn, hasty, made, todo, created, values>>
<1> DEFINE Socket == [address : STRING, open : BOOLEAN]
           closed(n) == {sock[joins[k]] : k \in 1..n}
           after(n, s) == IF s \in closed(n) THEN [sockets[s] EXCEPT !.open = FALSE]
                                             ELSE sockets[s]
<1>1. Len(sockets) \in Nat /\ \A s \in 1..Len(sockets) : sockets[s] \in Socket
  BY TypeFacts
<1>2. PICK n \in 0..Len(joins) :
        /\ error' = IF n = Len(joins) THEN error ELSE "cut"
        /\ sockets' = [s \in 1..Len(sockets) |-> after(n, s)]
  BY DEF OnStop, Closed
<1>3. ASSUME NEW s \in 1..Len(sockets)
      PROVE  /\ after(n, s) \in Socket /\ sockets'[s] = after(n, s)
             /\ after(n, s).address = sockets[s].address
             /\ after(n, s).open => sockets[s].open
             /\ error' # "cut" => \A b \in 1..Len(joins) : sock[joins[b]] = s =>
                                    ~after(n, s).open
  <2>1. sockets[s] \in Socket
    BY <1>1
  <2>2. \A b \in 1..n : sock[joins[b]] = s => s \in closed(n)
    OBVIOUS
  <2>3. error' # "cut" => n = Len(joins)
    BY <1>2
  <2> HIDE DEF closed
  <2> QED BY <1>2, <2>1, <2>2, <2>3
<1>4. sockets' \in Seq(Socket) /\ Len(sockets') = Len(sockets)
  <2> HIDE DEF after, Socket
  <2> QED BY <1>1, <1>2, <1>3
<1>5. /\ stage = "stopping" /\ stage' = "ended"
      /\ UNCHANGED <<config, objects, instance, at, joins, probes, emitters,
                     ready, sender, begun, sock, lazy, runs, groups, second,
                     last, turn, hasty, made, todo, created, values>>
  BY DEF OnStop, configVars, connectVars, vodkaVars, messageVars, storeVars
<1> QED BY <1>2, <1>3, <1>4, <1>5

(* A signal, which finds the daemon anywhere, leaves the rest as it is.     *)
LEMMA SignalFacts ==
  ASSUME TypeOK, Interrupt \/ Terminate
  PROVE  /\ stage \in {"plugins", "connect", "running"}
         /\ stage' \in {"stopping", "ended"} /\ error' \in {None, "killed"} /\ todo' = <<>>
         /\ stage' = "ended" => error' = "killed" \/ ~config.foreground
         /\ UNCHANGED <<config, objects, instance, at, joins, probes, emitters, ready, sender,
                        begun, sock, sockets, lazy, runs, groups, second,
                        last, turn, hasty, made, created, values>>
BY DEF Interrupt, Terminate, Fails, Raise, Refuse, configVars, connectVars, socketVars,
       vodkaVars, cycleVars, storeVars

(* Another plugin object, or a prometheus that cannot have its port.        *)
LEMMA InstantiateFacts ==
  ASSUME TypeOK, Instantiate
  PROVE
    /\ stage = "plugins" /\ Len(objects) < Len(config.plugins)
    /\ UNCHANGED <<config, at, joins, probes, emitters, ready, sender,
                   begun, sockets, lazy, runs, groups, second, last, turn, hasty, made, todo,
                   created, values>>
    /\ \/ stage' = "ended" /\ error' = "port" /\ UNCHANGED <<objects, instance, sock>>
       \/ \E plugin \in Object, name \in Names :
            /\ plugin = config.plugins[Len(objects) + 1] /\ name = plugin.name /\ name # None
            /\ NewPlugin(plugin, name)
            /\ UNCHANGED <<stage, error>>
<1>1. Len(objects) + 1 \in 1..Len(config.plugins)
  <2>1. Len(objects) < Len(config.plugins)
    BY DEF Instantiate
  <2> QED BY <2>1, TypeFacts, ConfigFacts
<1>2. PICK plugin \in Object : plugin = config.plugins[Len(objects) + 1]
  BY <1>1, ConfigFacts
<1>3. PICK name \in Names : name = plugin.name /\ name # None
  BY <1>1, <1>2, ConfigFacts
<1>4. \/ Refuse("port") /\ UNCHANGED <<objects, instance, sock>>
      \/ NewPlugin(plugin, name) /\ UNCHANGED <<stage, error>>
  <2>1. CASE PortTaken(config.plugins[Len(objects) + 1])
    BY <2>1 DEF Instantiate
  <2>2. CASE ~PortTaken(config.plugins[Len(objects) + 1])
    BY <1>2, <1>3, <2>2 DEF Instantiate, NewPlugin
  <2> QED BY <2>1, <2>2
<1>5. /\ stage = "plugins" /\ Len(objects) < Len(config.plugins)
      /\ UNCHANGED <<config, at, joins, probes, emitters, ready, sender,
                     begun, sockets, lazy, runs, groups, second, last, turn, hasty, made, todo,
                     created, values>>
  BY DEF Instantiate, connectVars, vodkaVars, messageVars, storeVars
<1> QED BY <1>2, <1>3, <1>4, <1>5 DEF Refuse

LEMMA InstantiateType == TypeOK /\ Instantiate => TypeOK'
<1> SUFFICES ASSUME TypeOK, Instantiate PROVE TypeOK'
  OBVIOUS
<1> DEFINE n == Len(objects)
<1>0. UNCHANGED <<config, at, joins, probes, emitters, ready, sender,
                  begun, sockets, lazy, runs, groups, second, last, turn, hasty, made, todo>>
  BY InstantiateFacts
<1>a. CASE stage' = "ended" /\ error' = "port" /\ UNCHANGED <<objects, instance, sock>>
  BY <1>0, <1>a DEF TypeOK
<1>b. CASE \E plugin \in Object, name \in Names :
             NewPlugin(plugin, name) /\ UNCHANGED <<stage, error>>
  <2>1. PICK plugin \in Object, name \in Names :
          NewPlugin(plugin, name) /\ UNCHANGED <<stage, error>>
    BY <1>b
  <2>2. /\ objects' \in Seq(Object) /\ Len(objects') = n + 1 /\ n \in Nat
        /\ sock' \in Seq(0..Len(sockets)) /\ Len(sock') = Len(objects')
        /\ instance' \in [Names -> 0..Len(objects')]
    BY <2>1, NewPluginFacts
  <2>3. /\ joins \in Seq(1..n + 1) /\ probes \in Seq(1..n + 1) /\ emitters \in Seq(Seq(1..n + 1))
        /\ runs \in Seq(1..n + 1) /\ ready \cup lazy \subseteq 1..n + 1 /\ sender \in 0..n + 1
    BY <2>2, TypeGrows, n <= n + 1, n + 1 \in Nat
  <2>4. /\ stage \in {"plugins", "connect", "running", "stopping", "ended"}
        /\ error \in Error
        /\ begun \in 0..Len(joins) /\ todo \in Seq(Call) /\ at \in (Nat \ {0}) \X Nat
        /\ Len(emitters) = Len(probes) /\ Len(last) = Len(probes) /\ last \in Seq(Sent)
        /\ turn \in 0..Len(probes) /\ hasty \subseteq 1..Len(probes) /\ made \in 0..MaxMessages
    BY DEF TypeOK
  <2>5. Len(objects) <= n + 1 /\ n + 1 \in Nat
    BY <2>2
  <2> HIDE DEF n
  <2> QED BY <1>0, <2>1, <2>2, <2>3, <2>4, <2>5, TypeWithMore
<1> QED BY <1>a, <1>b, InstantiateFacts

LEMMA StartProbeFacts ==
  ASSUME TypeOK, Progress, StartProbe
  PROVE  /\ stage = "connect" /\ at[1] \in 1..Len(config.probes)
         /\ at[1] = Len(probes) /\ at[2] = Len(config.probes[at[1]].outputs) + 1
         /\ Len(emitters[at[1]]) = Len(config.probes[at[1]].outputs)
         /\ probes[at[1]] \in 1..Len(objects)
         /\ joins' = Append(joins, probes[at[1]]) /\ at' = <<at[1] + 1, 0>>
         /\ UNCHANGED <<stage, error, config, objects, instance, probes, emitters, ready,
                        sender, begun, sock, sockets, lazy, runs, groups, second, last, turn, hasty, made,
                        todo, created, values>>
<1> DEFINE i == at[1]
<1>1. /\ stage = "connect" /\ i <= Len(config.probes)
      /\ at[2] = Len(config.probes[i].outputs) + 1
  BY DEF StartProbe
<1>2. i \in 1..Len(config.probes)
  <2>1. i \in Nat \ {0} /\ Len(config.probes) \in Nat
    BY TypeFacts, ConfigFacts
  <2> QED BY <1>1, <2>1
<1>3. Len(config.probes[i].outputs) \in Nat
  BY <1>2, ConfigFacts
<1>4. at[2] # 0
  BY <1>1, <1>3
<1>5. i = Len(probes)
  BY <1>4 DEF Progress
<1>6. i \in 1..Len(probes)
  BY <1>2, <1>5
<1>7. Len(emitters[i]) = Len(config.probes[i].outputs)
  <2>1. Len(emitters[i]) = IF i < i THEN Len(config.probes[i].outputs) ELSE at[2] - 1
    BY <1>6 DEF Progress
  <2> QED BY <1>1, <1>2, <1>3, <2>1
<1>8. probes[i] \in 1..Len(objects)
  BY <1>6, TypeFacts
<1>9. /\ joins' = Append(joins, probes[i]) /\ at' = <<i + 1, 0>>
      /\ UNCHANGED <<stage, error, config, objects, instance, probes, emitters, ready,
                     sender, begun, sock, sockets, lazy, runs, groups, second, last, turn, hasty, made,
                     todo, created, values>>
  BY DEF StartProbe, configVars, socketVars, vodkaVars, messageVars, storeVars
<1> QED BY <1>1, <1>2, <1>5, <1>7, <1>8, <1>9

LEMMA TypeStep == TypeOK /\ Progress /\ Begun /\ [Next]_vars => TypeOK'
<1> SUFFICES ASSUME TypeOK, Progress, Begun, [Next]_vars PROVE TypeOK'
  OBVIOUS
<1> USE DEF configVars, connectVars, socketVars, vodkaVars, cycleVars, messageVars, storeVars
<1>1. CASE Instantiate
  BY <1>1, InstantiateType
<1>2. CASE CheckNames
  BY <1>2 DEF CheckNames, Refuse, TypeOK
<1>3. CASE GetProbe
  BY <1>3, GetProbeType
<1>4. CASE GetOutput
  BY <1>4, GetOutputType
<1>5. CASE StartProbe
  <2>1. PICK o \in 1..Len(objects) : joins' = Append(joins, o)
    BY <1>5, StartProbeFacts
  <2>2. /\ at' = <<at[1] + 1, 0>>
        /\ UNCHANGED <<stage, error, config, objects, instance, probes, emitters, ready,
                       sender, begun, sock, sockets, lazy, runs, groups, second, last, turn, hasty, made, todo>>
    BY <1>5, StartProbeFacts
  <2>3. /\ joins \in Seq(1..Len(objects)) /\ begun \in 0..Len(joins) /\ Len(joins) \in Nat
        /\ at[1] \in Nat \ {0}
    BY TypeFacts DEF TypeOK
  <2>4. joins' \in Seq(1..Len(objects)) /\ Len(joins') = Len(joins) + 1
    BY <2>1, <2>3
  <2>5. begun \in 0..Len(joins') /\ at' \in (Nat \ {0}) \X Nat
    BY <2>2, <2>3, <2>4
  <2> QED BY <2>2, <2>4, <2>5 DEF TypeOK
<1>6. CASE Connected
  BY <1>6 DEF Connected, Raise, TypeOK
<1>7. CASE OnStart
  BY <1>7, OnStartType
<1>8. CASE Tick
  <2>1. second' \in 1..MaxSecond
    BY <1>8, OutputsAssumption DEF Tick, TypeOK
  <2> QED BY <1>8, <2>1 DEF Tick, TypeOK
<1>9. CASE EmitAll \/ Message
  BY <1>9, EmitAllType, MessageType
<1>10. CASE EmitVodka
  BY <1>10, EmitVodkaType
<1>11. CASE EmitZeroMQ \/ EmitPrometheus \/ EmitRow
  <2>1. /\ todo' \in Seq(Call)
        /\ UNCHANGED <<config, objects, instance, at, joins, probes, emitters, ready,
                       sender, begun, sock, sockets, lazy, runs, groups, second, last, turn, hasty, made>>
        /\ \/ UNCHANGED <<stage, error>>
           \/ stage' \in {"stopping", "ended"} /\ error' \in {"unready", "refused", "bare"}
    BY <1>11, OtherEmits
  <2> QED BY <2>1 DEF TypeOK
<1>12. CASE Interrupt \/ Terminate
  <2>1. /\ stage' \in {"stopping", "ended"} /\ error' \in {None, "killed"} /\ todo' = <<>>
        /\ UNCHANGED <<config, objects, instance, at, joins, probes, emitters, ready, sender,
                       begun, sock, sockets, lazy, runs, second, last, turn, hasty, made>>
    BY <1>12, SignalFacts
  <2>2. <<>> \in Seq(Call)
    OBVIOUS
  <2> QED BY <2>1, <2>2 DEF TypeOK
<1>13. CASE OnStop
  <2>1. /\ stage' = "ended" /\ sockets' \in Seq([address : STRING, open : BOOLEAN])
        /\ Len(sockets') = Len(sockets) /\ error' \in {error, "cut"}
        /\ UNCHANGED <<config, objects, instance, at, joins, probes, emitters,
                       ready, sender, begun, sock, lazy, runs, groups, second, last, turn, hasty, made, todo>>
    BY <1>13, OnStopFacts
  <2> QED BY <2>1 DEF TypeOK
<1>14. CASE UNCHANGED vars
  BY <1>14 DEF vars, TypeOK
<1> QED
  BY <1>1, <1>2, <1>3, <1>4, <1>5, <1>6, <1>7, <1>8, <1>9, <1>10, <1>11, <1>12, <1>13, <1>14
  DEF Next, Connect, Emit

LEMMA GetProbeFacts ==
  ASSUME TypeOK, Progress, GetProbe
  PROVE  LET n == Len(objects) IN
         /\ stage = "connect" /\ at[1] \in 1..Len(config.probes) /\ at[2] = 0
         /\ Len(probes) = at[1] - 1 /\ n \in Nat
         /\ objects' \in Seq(Object) /\ Len(objects') = n + 1
         /\ objects'[n + 1] = NoPlugin /\ \A o \in 1..n : objects'[o] = objects[o]
         /\ Len(sock') = n + 1
         /\ sock'[n + 1] = 0 /\ \A o \in 1..n : sock'[o] = sock[o]
         /\ \A name \in Names : instance'[name] =
              IF name = config.probes[at[1]].name THEN n + 1 ELSE instance[name]
         /\ Len(probes') = at[1] /\ probes'[at[1]] = n + 1
         /\ \A i \in 1..Len(probes) : probes'[i] = probes[i]
         /\ Len(emitters') = at[1] /\ emitters'[at[1]] = <<>>
         /\ \A i \in 1..Len(probes) : emitters'[i] = emitters[i]
         /\ last' = Append(last, [second |-> 0, rows |-> <<>>]) /\ at' = <<at[1], 1>>
         /\ UNCHANGED <<stage, error, config, joins, ready, sender, begun, sockets, lazy,
                        runs, groups, second, turn, hasty, made, todo, created, values>>
<1> DEFINE n == Len(objects)
           i == at[1]
           name == config.probes[i].name
<1>1. /\ stage = "connect" /\ i <= Len(config.probes) /\ at[2] = 0
      /\ NewPlugin(NoPlugin, name)
      /\ probes' = Append(probes, n + 1) /\ emitters' = Append(emitters, <<>>)
  BY DEF GetProbe
<1>2. last' = Append(last, [second |-> 0, rows |-> <<>>]) /\ at' = <<i, 1>>
      /\ UNCHANGED <<stage, error, config, joins, ready, sender, begun, sockets, lazy,
                     runs, groups, second, turn, hasty, made, todo, created, values>>
  BY DEF GetProbe, vodkaVars, storeVars
<1>3. i \in 1..Len(config.probes) /\ n \in Nat
  <2>1. i \in Nat \ {0} /\ Len(config.probes) \in Nat /\ n \in Nat
    BY TypeFacts, ConfigFacts
  <2> QED BY <1>1, <2>1
<1>4. Len(probes) = i - 1 /\ Len(emitters) = Len(probes)
  BY <1>1, TypeFacts DEF Progress
<1>5. name \in Names /\ name # None
  BY <1>3, ConfigFacts
<1>6. probes \in Seq(1..n) /\ emitters \in Seq(Seq(1..n))
  BY DEF TypeOK
<1>7. /\ Len(probes') = i /\ probes'[i] = n + 1
      /\ \A k \in 1..Len(probes) : probes'[k] = probes[k]
  BY <1>1, <1>3, <1>4, <1>6
<1>8. /\ Len(emitters') = i /\ emitters'[i] = <<>>
      /\ \A k \in 1..Len(probes) : emitters'[k] = emitters[k]
  BY <1>1, <1>3, <1>4, <1>6
<1>9. /\ objects' \in Seq(Object) /\ Len(objects') = n + 1
      /\ objects'[n + 1] = NoPlugin /\ \A o \in 1..n : objects'[o] = objects[o]
      /\ Len(sock') = Len(objects')
      /\ sock'[n + 1] = 0 /\ \A o \in 1..n : sock'[o] = sock[o]
      /\ \A m \in Names : instance'[m] =
           IF m = name /\ name # None THEN n + 1 ELSE instance[m]
  <2>1. NoPlugin \in Object /\ name \in Names \cup {None}
    BY <1>5, NoPluginFacts
  <2> HIDE DEF name
  <2> QED BY <1>1, <2>1, NewPluginFacts
<1> QED BY <1>1, <1>2, <1>3, <1>4, <1>5, <1>7, <1>8, <1>9

(* What happens once the loops are through leaves them alone.               *)
LEMMA ProgressAfter ==
  ASSUME TypeOK, Progress, TypeOK', UNCHANGED <<config, at, probes, emitters>>,
         Len(objects') >= Len(objects), stage \in {"running", "stopping", "ended"},
         stage' = stage \/ stage' \in {"stopping", "ended"}, stage = "ended" => stage' = "ended",
         \/ stage = "running"
         \/ UNCHANGED <<begun, runs, values>>,
         todo' # <<>> => stage' = "running" /\ turn' # 0
  PROVE  Progress'
<1>1. (stage # "ended" => Len(objects) >= Len(config.plugins)) /\ Len(objects) \in Nat
      /\ Len(objects') \in Nat /\ Len(config.plugins) \in Nat
  <2>1. stage # "ended" => Len(objects) >= Len(config.plugins)
    BY DEF Progress
  <2>2. Len(objects) \in Nat /\ Len(config.plugins) \in Nat
    BY TypeFacts, ConfigFacts
  <2>3. Len(objects') \in Nat
    BY DEF TypeOK
  <2> QED BY <2>1, <2>2, <2>3
<1>2. /\ stage' # "ended" => Len(objects') >= Len(config'.plugins)
      /\ stage' # "plugins" /\ stage' # "connect"
  BY <1>1
<1>3. begun' # 0 \/ runs' # <<>> \/ values' # {} \/ stage' = "running" =>
        at[1] = Len(config.probes) + 1
  BY DEF Progress
<1>4. /\ at'[1] <= Len(config'.probes) + 1
      /\ Len(probes') = IF at'[2] = 0 THEN at'[1] - 1 ELSE at'[1]
      /\ at'[2] # 0 => /\ at'[1] <= Len(config'.probes)
                       /\ at'[2] <= Len(config'.probes[at'[1]].outputs) + 1
      /\ \A i \in 1..Len(probes') : Len(emitters'[i]) =
           IF i < at'[1] THEN Len(config'.probes[i].outputs) ELSE at'[2] - 1
  BY DEF Progress
<1> QED BY <1>2, <1>3, <1>4 DEF Progress

(* What has ended stays so.                                                 *)
LEMMA Ended == ASSUME Progress, stage = "ended", [Next]_vars PROVE UNCHANGED vars
<1>1. todo = <<>>
  BY DEF Progress
<1> QED
  BY <1>1 DEF Next, Connect, Emit, Instantiate, CheckNames, GetProbe, GetOutput, StartProbe,
              Connected, OnStart, Tick, EmitAll, Message, EmitZeroMQ, EmitPrometheus, EmitVodka,
              EmitRow, Interrupt, Terminate, OnStop

LEMMA ProgressStep ==
  TypeOK /\ TypeOK' /\ Progress /\ Begun /\ [Next]_vars => Progress'
<1> SUFFICES ASSUME TypeOK, TypeOK', Progress, Begun, [Next]_vars PROVE Progress'
  OBVIOUS
<1> USE DEF configVars, connectVars, socketVars, vodkaVars, cycleVars, messageVars, storeVars
<1>0. Len(objects) \in Nat /\ Len(config.plugins) \in Nat /\ Len(config.probes) \in Nat
      /\ at[1] \in Nat \ {0} /\ at[2] \in Nat
  BY TypeFacts, ConfigFacts
<1>1. CASE Instantiate
  <2>1. /\ stage = "plugins" /\ Len(objects) < Len(config.plugins)
        /\ UNCHANGED <<config, at, joins, probes, emitters, ready, sender,
                       begun, sockets, runs, todo, turn, values>>
    BY <1>1, InstantiateFacts
  <2>2. CASE stage' = "ended" /\ UNCHANGED objects
    BY <1>0, <2>1, <2>2 DEF Progress
  <2>3. CASE Len(objects') = Len(objects) + 1 /\ UNCHANGED <<stage, error>>
    BY <1>0, <2>1, <2>3 DEF Progress
  <2> QED BY <1>1, <2>2, <2>3, InstantiateFacts, NewPluginFacts
<1>2. CASE CheckNames
  <2>1. /\ stage = "plugins" /\ Len(objects) = Len(config.plugins)
        /\ \/ stage' = "connect" /\ UNCHANGED error
           \/ stage' \in {"stopping", "ended"}
        /\ UNCHANGED <<config, objects, at, joins, probes, emitters, ready, sender,
                       begun, sockets, runs, todo, values>>
    BY <1>2 DEF CheckNames, Refuse
  <2> QED BY <1>0, <2>1 DEF Progress
<1>3. CASE GetProbe
  <2> DEFINE i == at[1]
  <2>1. /\ stage = "connect" /\ i \in 1..Len(config.probes) /\ at[2] = 0
        /\ Len(probes) = i - 1 /\ Len(objects') = Len(objects) + 1
        /\ Len(probes') = i /\ at' = <<i, 1>>
        /\ Len(emitters') = i /\ emitters'[i] = <<>>
        /\ \A k \in 1..Len(probes) : emitters'[k] = emitters[k]
        /\ UNCHANGED <<stage, error, config, begun, sockets, runs, todo, values>>
    BY <1>3, GetProbeFacts
  <2>2. ASSUME NEW k \in 1..Len(probes')
        PROVE  Len(emitters'[k]) = IF k < i THEN Len(config.probes[k].outputs) ELSE 0
    <3>1. CASE k = i
      BY <2>1, <3>1
    <3>2. CASE k # i
      <4>1. k \in 1..Len(probes) /\ k < i
        BY <2>1, <3>2
      <4>2. Len(emitters[k]) = Len(config.probes[k].outputs)
        BY <4>1 DEF Progress
      <4> QED BY <2>1, <4>1, <4>2
    <3> QED BY <3>1, <3>2
  <2>3. Len(config.probes[i].outputs) \in Nat
    BY <2>1, ConfigFacts
  <2>4. Len(objects) >= Len(config.plugins) /\ error = None /\ begun = 0
        /\ sockets = <<>> /\ runs = <<>> /\ values = {} /\ todo = <<>>
    BY <2>1 DEF Progress
  <2>5. at'[1] = i /\ at'[2] = 1 /\ at'[2] - 1 = 0 /\ Len(probes') = i
    BY <2>1
  <2>6. \A k \in 1..Len(probes') : Len(emitters'[k]) =
          IF k < at'[1] THEN Len(config'.probes[k].outputs) ELSE at'[2] - 1
    BY <2>1, <2>2, <2>5
  <2>7. /\ at'[1] <= Len(config'.probes) + 1 /\ at'[1] <= Len(config'.probes)
        /\ at'[2] <= Len(config'.probes[at'[1]].outputs) + 1
        /\ Len(objects') >= Len(config'.plugins)
    <3>1. config' = config
      BY <2>1
    <3>2. i <= Len(config.probes) + 1 /\ i <= Len(config.probes)
      BY <1>0, <2>1
    <3>3. 1 <= Len(config.probes[i].outputs) + 1
      BY <2>3
    <3>4. Len(objects') >= Len(config.plugins)
      BY <1>0, <2>1, <2>4
    <3> QED BY <2>5, <3>1, <3>2, <3>3, <3>4
  <2> QED BY <2>1, <2>4, <2>5, <2>6, <2>7 DEF Progress
<1>4. CASE GetOutput
  <2> DEFINE i == at[1]
  <2>1. /\ stage = "connect" /\ i \in 1..Len(config.probes) /\ i = Len(probes)
        /\ Len(emitters) = i /\ at[2] \in 1..Len(config.probes[i].outputs)
        /\ Len(emitters[i]) = at[2] - 1 /\ Len(config.probes[i].outputs) \in Nat
        /\ UNCHANGED <<config, begun, sockets, lazy, runs, todo, values, probes>>
    BY <1>4, OutputCases, ConfigFacts
  <2>2. Len(objects) >= Len(config.plugins) /\ error = None /\ begun = 0
        /\ sockets = <<>> /\ runs = <<>> /\ values = {} /\ todo = <<>>
    BY <2>1 DEF Progress
  <2>3. ASSUME Len(objects') >= Len(objects), Len(objects') \in Nat,
               NEW o \in 1..Len(objects'), NEW type \in Type, Join(o, type)
        PROVE  Progress'
    <3>1. /\ at' = <<i, at[2] + 1>> /\ UNCHANGED <<stage, error>>
          /\ \A k \in 1..Len(emitters) :
               emitters'[k] = IF k = i THEN Append(emitters[k], o) ELSE emitters[k]
      <4> DEFINE size == Len(objects')
      <4>1. size \in Nat /\ Len(objects) <= size /\ o \in 1..size /\ at[1] \in 1..Len(emitters)
        BY <2>1, <2>3
      <4> HIDE DEF size
      <4> QED BY <2>3, <4>1, JoinFacts
    <3>2. ASSUME NEW k \in 1..Len(probes)
          PROVE  Len(emitters'[k]) = IF k < i THEN Len(config.probes[k].outputs) ELSE at[2]
      <4>1. Len(emitters[k]) = IF k < i THEN Len(config.probes[k].outputs) ELSE at[2] - 1
        BY DEF Progress
      <4>2. emitters[k] \in Seq(1..Len(objects))
        BY TypeFacts
      <4>3. emitters'[k] = IF k = i THEN Append(emitters[k], o) ELSE emitters[k]
        BY <2>1, <3>1
      <4>4. Len(Append(emitters[k], o)) = Len(emitters[k]) + 1
        BY <4>2
      <4>5. CASE k = i
        BY <1>0, <4>1, <4>3, <4>4, <4>5
      <4>6. CASE k # i
        BY <2>1, <4>1, <4>3, <4>6
      <4> QED BY <4>5, <4>6
    <3>3. /\ at'[1] = i /\ at'[2] = at[2] + 1 /\ at'[2] # 0 /\ Len(probes') = i
          /\ at'[2] - 1 = at[2]
      BY <1>0, <2>1, <3>1
    <3>4. \A k \in 1..Len(probes') : Len(emitters'[k]) =
            IF k < at'[1] THEN Len(config'.probes[k].outputs) ELSE at'[2] - 1
      BY <2>1, <3>2, <3>3
    <3>5. /\ at'[1] <= Len(config'.probes) + 1 /\ at'[1] <= Len(config'.probes)
          /\ at'[2] <= Len(config'.probes[at'[1]].outputs) + 1
          /\ Len(objects') >= Len(config'.plugins)
      <4>1. config' = config
        BY <2>1
      <4>2. i <= Len(config.probes) + 1 /\ i <= Len(config.probes)
        BY <1>0, <2>1
      <4>3. at[2] + 1 <= Len(config.probes[i].outputs) + 1
        <5>1. /\ at[2] \in 1..Len(config.probes[i].outputs)
              /\ Len(config.probes[i].outputs) \in Nat
          BY <2>1
        <5> QED BY <5>1
      <4>4. Len(objects') >= Len(config.plugins)
        BY <1>0, <2>2, <2>3
      <4> QED BY <3>3, <4>1, <4>2, <4>3, <4>4
    <3> QED BY <2>1, <2>2, <3>1, <3>3, <3>4, <3>5 DEF Progress
  <2>4. ASSUME NEW o \in 1..Len(objects), NEW type \in Type, Join(o, type), UNCHANGED objects
        PROVE  Progress'
    BY <1>0, <2>3, <2>4
  <2>5. ASSUME NEW type \in Type \ NeedsConfig,
               NewPlugin([NoPlugin EXCEPT !.type = type], None),
               NEW o \in 1..Len(objects) + 1, Join(o, type)
        PROVE  Progress'
    <3>1. [NoPlugin EXCEPT !.type = type] \in Object /\ None \in Names \cup {None}
      BY NoPluginFacts
    <3>2. Len(objects') = Len(objects) + 1
      BY <2>5, <3>1, NewPluginFacts
    <3> QED BY <1>0, <2>3, <2>5, <3>2
  <2>6. CASE /\ stage' \in {"stopping", "ended"} /\ UNCHANGED <<objects, at, emitters>>
    BY <1>0, <2>1, <2>2, <2>6 DEF Progress
  <2> QED BY <1>4, <2>4, <2>5, <2>6, OutputCases
<1>5. CASE StartProbe
  <2> DEFINE i == at[1]
  <2>1. /\ stage = "connect" /\ i \in 1..Len(config.probes) /\ i = Len(probes)
        /\ Len(emitters[i]) = Len(config.probes[i].outputs) /\ at' = <<i + 1, 0>>
        /\ UNCHANGED <<stage, error, config, objects, probes, emitters, begun, sockets,
                       runs, todo, values>>
    BY <1>5, StartProbeFacts
  <2>2. ASSUME NEW k \in 1..Len(probes)
        PROVE  Len(emitters[k]) = Len(config.probes[k].outputs)
    <3>1. CASE k = i
      BY <2>1, <3>1
    <3>2. CASE k # i
      BY <2>1, <3>2 DEF Progress
    <3> QED BY <3>1, <3>2
  <2>3. Len(objects) >= Len(config.plugins) /\ error = None /\ begun = 0
        /\ sockets = <<>> /\ runs = <<>> /\ values = {} /\ todo = <<>>
    BY <2>1 DEF Progress
  <2> QED BY <1>0, <2>1, <2>2, <2>3 DEF Progress
<1>6. CASE Connected
  <2>1. /\ stage = "connect" /\ at[1] > Len(config.probes)
        /\ \/ stage' = "running" /\ UNCHANGED error
           \/ stage' \in {"stopping", "ended"}
        /\ UNCHANGED <<config, objects, at, joins, probes, emitters, ready, sender,
                       begun, sockets, runs, todo, values>>
    BY <1>6 DEF Connected, Raise
  <2> QED BY <1>0, <2>1 DEF Progress
<1>7. CASE OnStart
  <2>1. /\ stage = "running" /\ todo = <<>>
        /\ stage' \in {"running", "stopping", "ended"}
        /\ UNCHANGED <<config, objects, at, probes, emitters, todo>>
    BY <1>7 DEF Progress, OnStart, OpenSocket, Raise
  <2> QED BY <1>0, <2>1, ProgressAfter
<1>8. CASE Tick
  <2>1. /\ stage = "running" /\ todo' = <<>>
        /\ UNCHANGED <<stage, config, objects, at, probes, emitters>>
    BY <1>8 DEF Tick
  <2> QED BY <1>0, <2>1, ProgressAfter
<1>9. CASE EmitAll \/ Message
  <2>1. /\ stage = "running" /\ UNCHANGED <<stage, config, objects, at, probes, emitters>>
        /\ todo' # <<>> => turn' # 0
    BY <1>9, EmitAllFacts, MessageFacts
  <2> QED BY <1>0, <2>1, ProgressAfter
<1>10. CASE EmitVodka
  <2>1. /\ todo # <<>> /\ UNCHANGED <<config, at, probes, emitters>>
        /\ (stage' = stage /\ turn' = turn) \/ (stage' \in {"stopping", "ended"} /\ todo' = <<>>)
        /\ Len(objects') = Len(objects) \/ Len(objects') = Len(objects) + Len(config.probes)
    BY <1>10, VodkaCases
  <2>2. stage = "running" /\ turn # 0
    BY <2>1 DEF Progress
  <2>3. Len(objects') >= Len(objects)
    BY <1>0, <2>1
  <2> QED BY <2>1, <2>2, <2>3, ProgressAfter
<1>11. CASE EmitZeroMQ \/ EmitPrometheus \/ EmitRow
  <2>1. /\ todo # <<>> /\ UNCHANGED <<config, objects, at, probes, emitters>>
        /\ (stage' = stage /\ turn' = turn) \/ (stage' \in {"stopping", "ended"} /\ todo' = <<>>)
    BY <1>11, OtherEmits
  <2>2. stage = "running" /\ turn # 0
    BY <2>1 DEF Progress
  <2> QED BY <1>0, <2>1, <2>2, ProgressAfter
<1>12. CASE Interrupt \/ Terminate
  <2>1. /\ stage \in {"plugins", "connect", "running"} /\ stage' \in {"stopping", "ended"}
        /\ todo' = <<>>
        /\ stage' = "stopping" => stage # "plugins"
        /\ UNCHANGED <<config, objects, at, probes, emitters, begun, runs, values>>
    BY <1>12, SignalFacts DEF Interrupt, Terminate, Refuse
  <2>2. CASE stage = "running"
    BY <1>0, <2>1, <2>2, ProgressAfter
  <2>3. CASE stage # "running"
    BY <1>0, <2>1, <2>3 DEF Progress
  <2> QED BY <2>2, <2>3
<1>13. CASE OnStop
  <2>1. /\ stage = "stopping" /\ stage' = "ended"
        /\ UNCHANGED <<config, objects, at, probes, emitters, begun, runs, values, todo>>
    BY <1>13, OnStopFacts
  <2>2. todo = <<>>
    BY <2>1 DEF Progress
  <2> QED BY <1>0, <2>1, <2>2, ProgressAfter
<1>14. CASE UNCHANGED vars
  BY <1>14 DEF vars, Progress
<1> QED
  BY <1>1, <1>2, <1>3, <1>4, <1>5, <1>6, <1>7, <1>8, <1>9, <1>10, <1>11, <1>12, <1>13, <1>14
  DEF Next, Connect, Emit

-----------------------------------------------------------------------------
(* Once the plugins of the config are there, what else is made has no name, *)
(* and the names of probes only change hands.                               *)
Additions ==
  /\ \A o \in Len(objects) + 1..Len(objects') :
       objects'[o].name = None /\ objects'[o].type \notin NeedsConfig
  /\ \A name \in Names :
       \/ instance'[name] = instance[name]
       \/ /\ \E i \in 1..Len(config.probes) : config.probes[i].name = name
          /\ instance'[name] \in Len(objects) + 1..Len(objects')
          /\ objects'[instance'[name]].type = "probe"

LEMMA Unchanging ==
  ASSUME UNCHANGED <<objects, instance>>, TypeOK
  PROVE  /\ Len(objects') >= Len(objects) /\ Additions
         /\ \A o \in 1..Len(objects) : objects'[o] = objects[o]
<1>1. Len(objects) \in Nat
  BY TypeFacts
<1> QED BY <1>1 DEF Additions

LEMMA Growth ==
  ASSUME TypeOK, Progress, [Next]_vars
  PROVE  /\ config' = config /\ Len(objects') >= Len(objects)
         /\ \A o \in 1..Len(objects) : objects'[o] = objects[o]
         /\ stage # "plugins" => /\ Additions /\ stage' # "plugins"
                                 /\ stage' \in {"connect", "running"} =>
                                      stage \in {"connect", "running"}
<1> USE DEF configVars, connectVars, socketVars, vodkaVars, cycleVars, messageVars, storeVars
<1>0. Len(objects) \in Nat
  BY TypeFacts
<1> DEFINE Held == UNCHANGED <<config, objects, instance>>
           Later == stage # "plugins" =>
                      /\ stage' # "plugins"
                      /\ stage' \in {"connect", "running"} => stage \in {"connect", "running"}
<1>1. CASE Instantiate
  <2>1. stage = "plugins" /\ config' = config
    BY <1>1, InstantiateFacts
  <2>2. CASE UNCHANGED <<objects, instance>>
    BY <2>1, <2>2, Unchanging
  <2>3. CASE \E plugin \in Object, name \in Names : NewPlugin(plugin, name)
    BY <1>0, <2>1, <2>3, NewPluginFacts
  <2> QED BY <1>1, <2>2, <2>3, InstantiateFacts
<1>2. CASE GetProbe
  <2>1. /\ stage = "connect" /\ at[1] \in 1..Len(config.probes)
        /\ Len(objects') = Len(objects) + 1 /\ objects'[Len(objects) + 1] = NoPlugin
        /\ \A o \in 1..Len(objects) : objects'[o] = objects[o]
        /\ \A name \in Names : instance'[name] =
             IF name = config.probes[at[1]].name THEN Len(objects) + 1 ELSE instance[name]
        /\ UNCHANGED <<stage, config>>
    BY <1>2, GetProbeFacts
  <2>2. NoPlugin.name = None /\ NoPlugin.type = "probe" /\ "probe" \notin NeedsConfig
    BY NoPluginFacts DEF NeedsConfig, TimeSeries
  <2>3. Additions
    BY <1>0, <2>1, <2>2 DEF Additions
  <2> QED BY <1>0, <2>1, <2>3
<1>3. CASE GetOutput
  <2>1. stage = "connect" /\ config' = config
    BY <1>3, OutputCases
  <2>2. CASE /\ UNCHANGED <<objects, instance>> /\ stage' \in {"connect", "stopping", "ended"}
    BY <2>1, <2>2, Unchanging
  <2>3. ASSUME NEW type \in Type \ NeedsConfig,
               NewPlugin([NoPlugin EXCEPT !.type = type], None)
        PROVE  /\ Additions /\ Len(objects') = Len(objects) + 1
               /\ \A o \in 1..Len(objects) : objects'[o] = objects[o]
    <3> DEFINE plugin == [NoPlugin EXCEPT !.type = type]
    <3>1. plugin \in Object /\ plugin.name = None /\ plugin.type = type
          /\ None \in Names \cup {None}
      BY NoPluginFacts
    <3> HIDE DEF plugin
    <3>2. /\ Len(objects') = Len(objects) + 1 /\ objects'[Len(objects) + 1] = plugin
          /\ \A o \in 1..Len(objects) : objects'[o] = objects[o]
          /\ \A name \in Names : instance'[name] = instance[name]
      BY <2>3, <3>1, NewPluginFacts DEF plugin
    <3> QED BY <1>0, <3>1, <3>2 DEF Additions
  <2>4. ASSUME NEW o, NEW type, Join(o, type) PROVE stage' \in {"connect", "stopping", "ended"}
    BY <2>1, <2>4 DEF Join
  <2>5. CASE \E type \in Type \ NeedsConfig :
               /\ NewPlugin([NoPlugin EXCEPT !.type = type], None)
               /\ \E o \in 1..Len(objects) + 1 : Join(o, type)
    <3>1. PICK type \in Type \ NeedsConfig :
            /\ NewPlugin([NoPlugin EXCEPT !.type = type], None)
            /\ \E o \in 1..Len(objects) + 1 : Join(o, type)
      BY <2>5
    <3>2. /\ Additions /\ Len(objects') = Len(objects) + 1
          /\ \A o \in 1..Len(objects) : objects'[o] = objects[o]
      BY <2>3, <3>1
    <3> QED BY <1>0, <2>1, <2>4, <3>1, <3>2
  <2> QED BY <1>3, <2>2, <2>4, <2>5, OutputCases
<1>4. CASE EmitVodka
  <2> DEFINE n == Len(objects)
             m == Len(config.probes)
  <2>1. /\ todo # <<>> /\ m \in Nat /\ config' = config /\ stage' \in {stage, "stopping", "ended"}
        /\ \/ UNCHANGED <<objects, instance>>
           \/ /\ Len(objects') = n + m
              /\ \A p \in 1..n + m : objects'[p] = IF p <= n THEN objects[p] ELSE NoPlugin
              /\ \A name \in Names :
                   \/ instance'[name] = instance[name]
                   \/ /\ \E k \in 1..m : config.probes[k].name = name
                      /\ instance'[name] \in n + 1..n + m
    BY <1>4, VodkaCases
  <2>2. stage = "running"
    BY <2>1 DEF Progress
  <2>3. CASE UNCHANGED <<objects, instance>>
    BY <2>1, <2>2, <2>3, Unchanging
  <2>4. CASE /\ Len(objects') = n + m
             /\ \A p \in 1..n + m : objects'[p] = IF p <= n THEN objects[p] ELSE NoPlugin
             /\ \A name \in Names :
                  \/ instance'[name] = instance[name]
                  \/ /\ \E k \in 1..m : config.probes[k].name = name
                     /\ instance'[name] \in n + 1..n + m
    <3>1. NoPlugin.name = None /\ NoPlugin.type = "probe" /\ "probe" \notin NeedsConfig
      BY NoPluginFacts DEF NeedsConfig, TimeSeries
    <3>2. \A p \in n + 1..n + m : objects'[p] = NoPlugin
      BY <1>0, <2>1, <2>4
    <3>3. Additions
      BY <2>4, <3>1, <3>2 DEF Additions
    <3>4. n + m >= n /\ \A p \in 1..n : objects'[p] = objects[p]
      BY <1>0, <2>1, <2>4
    <3> QED BY <2>1, <2>2, <2>4, <3>3, <3>4
  <2> QED BY <2>1, <2>3, <2>4
<1>5. CASE CheckNames
  <2>1. stage = "plugins" /\ Held
    BY <1>5 DEF CheckNames
  <2> QED BY <2>1, Unchanging
<1>6. ASSUME Held, Later
      PROVE  /\ config' = config /\ Len(objects') >= Len(objects)
             /\ \A o \in 1..Len(objects) : objects'[o] = objects[o]
             /\ stage # "plugins" => /\ Additions /\ stage' # "plugins"
                                     /\ stage' \in {"connect", "running"} =>
                                          stage \in {"connect", "running"}
  BY <1>6, Unchanging
<1>7. CASE StartProbe \/ Connected \/ Tick
  BY <1>6, <1>7 DEF StartProbe, Connected, Tick, Raise
<1>13. CASE Interrupt \/ Terminate
  BY <1>6, <1>13, SignalFacts
<1>8. CASE OnStart
  BY <1>6, <1>8 DEF OnStart, OpenSocket, Raise
<1>9. CASE EmitAll \/ Message
  <2>1. Held /\ UNCHANGED stage
    BY <1>9, EmitAllFacts, MessageFacts
  <2> QED BY <1>6, <2>1
<1>10. CASE EmitZeroMQ \/ EmitPrometheus \/ EmitRow
  <2>1. Held /\ stage' \in {stage, "stopping", "ended"}
    BY <1>10, OtherEmits
  <2> QED BY <1>6, <2>1
<1>11. CASE OnStop
  BY <1>6, <1>11 DEF OnStop
<1>12. CASE UNCHANGED vars
  BY <1>6, <1>12 DEF vars
<1> QED
  BY <1>1, <1>2, <1>3, <1>4, <1>5, <1>7, <1>8, <1>9, <1>10, <1>11, <1>12, <1>13
  DEF Next, Connect, Emit

LEMMA RegistryStep ==
  TypeOK /\ TypeOK' /\ Progress /\ Registry /\ [Next]_vars => Registry'
<1> SUFFICES ASSUME TypeOK, TypeOK', Progress, Registry, [Next]_vars PROVE Registry'
  OBVIOUS
<1> USE DEF configVars, connectVars, socketVars, vodkaVars, cycleVars, messageVars, storeVars
<1> DEFINE P == Len(config.plugins)
           n == Len(objects)
           OtherNames == \A i \in 1..Len(config.probes), k \in 1..P :
                           config.probes[i].name # config.plugins[k].name
<1>1. /\ n \in Nat /\ P \in Nat /\ Len(objects') \in Nat
      /\ \A name \in Names : instance[name] \in 0..n
      /\ \A k \in 1..P : config.plugins[k].name \in Names
  <2>1. Len(objects') \in Nat
    BY DEF TypeOK
  <2> QED BY <2>1, TypeFacts, ConfigFacts
<1>2. /\ config' = config /\ Len(objects') >= n
      /\ \A o \in 1..n : objects'[o] = objects[o]
      /\ stage # "plugins" => /\ Additions /\ stage' # "plugins"
                              /\ stage' \in {"connect", "running"} =>
                                   stage \in {"connect", "running"}
  BY Growth
<1>3. /\ \A o \in 1..n : IF Made(o) THEN objects[o].name = None /\ objects[o].type \notin NeedsConfig
                                    ELSE objects[o] = config.plugins[o]
      /\ \A name \in Names : Made(instance[name]) =>
           /\ objects[instance[name]].type = "probe"
           /\ \E i \in 1..Len(config.probes) : config.probes[i].name = name
      /\ \A name \in Names : instance[name] \in 1..P =>
           config.plugins[instance[name]].name = name
      /\ \A k \in 1..P : k <= n => instance[config.plugins[k].name] >= k
      /\ stage \in {"connect", "running"} => OtherNames
  BY DEF Registry
<1>4. CASE Instantiate
  <2>0. /\ stage = "plugins" /\ n < P /\ config' = config
        /\ \/ stage' = "ended" /\ UNCHANGED <<objects, instance>>
           \/ \E plugin \in Object, name \in Names :
                /\ plugin = config.plugins[n + 1] /\ name = plugin.name /\ name # None
                /\ NewPlugin(plugin, name) /\ UNCHANGED stage
    BY <1>4, InstantiateFacts
  <2>a. CASE stage' = "ended" /\ UNCHANGED <<objects, instance>>
    BY <2>0, <2>a DEF Registry, Made
  <2> SUFFICES ASSUME \E plugin \in Object, name \in Names :
                        /\ plugin = config.plugins[n + 1] /\ name = plugin.name /\ name # None
                        /\ NewPlugin(plugin, name) /\ UNCHANGED stage
               PROVE  Registry'
    BY <2>0, <2>a
  <2>1. PICK plugin \in Object, name \in Names :
          /\ stage = "plugins" /\ n < P /\ UNCHANGED <<stage, config>>
          /\ plugin = config.plugins[n + 1] /\ name = plugin.name /\ name # None
          /\ NewPlugin(plugin, name)
    BY <2>0
  <2>2. /\ Len(objects') = n + 1 /\ objects'[n + 1] = plugin
        /\ \A o \in 1..n : objects'[o] = objects[o]
        /\ \A m \in Names : instance'[m] = IF m = name THEN n + 1 ELSE instance[m]
    BY <2>1, NewPluginFacts
  <2>3. \A o \in 1..n + 1 : ~Made(o) /\ objects'[o] = config.plugins[o]
    BY <1>1, <1>3, <2>1, <2>2 DEF Made
  <2>4. \A m \in Names : ~Made(instance'[m])
    BY <1>1, <2>1, <2>2 DEF Made
  <2>5. ASSUME NEW m \in Names, instance'[m] \in 1..P
        PROVE  config.plugins[instance'[m]].name = m
    BY <1>3, <2>1, <2>2, <2>5
  <2>6. ASSUME NEW k \in 1..P, k <= n + 1
        PROVE  instance'[config.plugins[k].name] >= k
    <3>1. CASE k <= n
      BY <1>1, <1>3, <2>2, <3>1
    <3>2. CASE k = n + 1
      BY <1>1, <2>1, <2>2, <3>2
    <3> QED BY <1>1, <2>6, <3>1, <3>2
  <2> QED BY <2>1, <2>2, <2>3, <2>4, <2>5, <2>6 DEF Registry, Made
<1>5. CASE CheckNames
  <2>1. /\ stage = "plugins" /\ n = P /\ UNCHANGED <<config, objects, instance>>
        /\ stage' \in {"connect", "running"} => ~Clash
    BY <1>5 DEF CheckNames, Refuse
  <2>2. ASSUME ~Clash PROVE OtherNames
    <3>1. SUFFICES ASSUME NEW i \in 1..Len(config.probes), NEW k \in 1..P,
                          config.probes[i].name = config.plugins[k].name
                   PROVE  FALSE
      OBVIOUS
    <3>2. instance[config.plugins[k].name] >= k
      BY <1>3, <2>1
    <3>3. instance[config.probes[i].name] = 0
      BY <2>2 DEF Clash
    <3> QED BY <1>1, <3>1, <3>2, <3>3
  <2> QED BY <2>1, <2>2 DEF Registry, Made
<1>6. CASE stage \notin {"plugins", "ended"}
  <2>1. n >= P
    BY <1>6 DEF Progress
  <2>2. /\ \A o \in n + 1..Len(objects') :
             objects'[o].name = None /\ objects'[o].type \notin NeedsConfig
        /\ \A name \in Names :
             \/ instance'[name] = instance[name]
             \/ /\ \E i \in 1..Len(config.probes) : config.probes[i].name = name
                /\ instance'[name] \in n + 1..Len(objects')
                /\ objects'[instance'[name]].type = "probe"
    BY <1>2, <1>6 DEF Additions
  <2>3. ASSUME NEW o \in 1..Len(objects')
        PROVE  IF Made(o) THEN objects'[o].name = None /\ objects'[o].type \notin NeedsConfig
                          ELSE objects'[o] = config.plugins[o]
    <3>1. CASE o <= n
      BY <1>1, <1>2, <1>3, <3>1
    <3>2. CASE o > n
      BY <1>1, <2>1, <2>2, <3>2 DEF Made
    <3> QED BY <1>1, <3>1, <3>2
  <2>4. ASSUME NEW name \in Names, Made(instance'[name])
        PROVE  /\ objects'[instance'[name]].type = "probe"
               /\ \E i \in 1..Len(config.probes) : config.probes[i].name = name
    <3>1. CASE instance'[name] = instance[name]
      <4>1. instance[name] \in 1..n
        BY <1>1, <2>4, <3>1 DEF Made
      <4> QED BY <1>2, <1>3, <2>4, <3>1, <4>1
    <3>2. CASE instance'[name] # instance[name]
      BY <2>2, <3>2
    <3> QED BY <3>1, <3>2
  <2>5. ASSUME NEW name \in Names, instance'[name] \in 1..P
        PROVE  config.plugins[instance'[name]].name = name
    BY <1>1, <1>3, <2>1, <2>2, <2>5
  <2>6. ASSUME NEW k \in 1..P
        PROVE  instance'[config.plugins[k].name] >= k
    <3>1. instance[config.plugins[k].name] >= k
      BY <1>1, <1>3, <2>1
    <3> QED BY <1>1, <2>1, <2>2, <3>1
  <2> HIDE DEF OtherNames
  <2>7. stage' \in {"connect", "running"} => OtherNames
    BY <1>2, <1>3, <1>6
  <2> QED BY <1>2, <2>3, <2>4, <2>5, <2>6, <2>7 DEF Registry, Made, OtherNames
<1>8. CASE UNCHANGED vars
  BY <1>8 DEF vars, Registry, Made
<1>7. CASE stage = "plugins"
  <2>1. todo = <<>>
    BY <1>7 DEF Progress
  <2>2. Instantiate \/ CheckNames \/ Terminate \/ UNCHANGED vars
    BY <1>7, <2>1
    DEF Next, Connect, Emit, GetProbe, GetOutput, StartProbe, Connected, OnStart, Tick,
        EmitAll, Message, EmitZeroMQ, EmitPrometheus, EmitVodka, EmitRow, Interrupt, OnStop
  <2>3. CASE Terminate
    BY <2>3 DEF Terminate, Refuse, Registry, Made
  <2> QED BY <1>4, <1>5, <1>8, <2>2, <2>3
<1>9. CASE stage = "ended"
  BY <1>8, <1>9, Ended
<1> QED BY <1>6, <1>7, <1>9

-----------------------------------------------------------------------------
(* What happens when o becomes the output that the loop has got to.         *)
Joined(o, type) ==
  /\ Len(joins') = Len(joins) + 1 /\ joins'[Len(joins) + 1] = o
  /\ \A b \in 1..Len(joins) : joins'[b] = joins[b]
  /\ ready' = IF type \in LazyStart THEN ready ELSE ready \cup {o}
  /\ sender' = IF type = "graphite" THEN o ELSE sender
  /\ at' = <<at[1], at[2] + 1>> /\ Len(emitters') = Len(emitters)
  /\ \A i \in 1..Len(emitters) :
       /\ emitters'[i] = IF i = at[1] THEN Append(emitters[i], o) ELSE emitters[i]
       /\ Len(emitters'[i]) = IF i = at[1] THEN at[2] ELSE Len(emitters[i])
       /\ \A j \in 1..Len(emitters[i]) : emitters'[i][j] = emitters[i][j]
  /\ emitters'[at[1]][at[2]] = o

(* What get_output() joins, and where it goes.                              *)
LEMMA OutputJoined ==
  ASSUME TypeOK, TypeOK', Progress, Registry, GetOutput
  PROVE  \/ /\ UNCHANGED <<objects, joins, emitters, ready, sender, at>>
            /\ stage' \in {"stopping", "ended"}
         \/ \E o \in 1..Len(objects'), type \in Type :
              /\ objects'[o].type = type
              /\ \/ o <= Len(objects) /\ ~Made(o) /\ IsThe(o, Ref)
                 \/ o = Len(objects) + 1 /\ Made(o) /\ type = Ref /\ OnlyType(Ref)
              /\ Joined(o, type)
<1> DEFINE n == Len(objects)
           P == Len(config.plugins)
<1>1. /\ stage = "connect" /\ Len(emitters) = at[1] /\ at[1] \in 1..Len(emitters)
      /\ Len(emitters[at[1]]) = at[2] - 1 /\ Ref \in Names
  BY OutputCases
<1>2. /\ n \in Nat /\ P \in Nat /\ at[2] \in Nat /\ Len(emitters) \in Nat
      /\ \A i \in 1..Len(emitters) : emitters[i] \in Seq(1..n)
  BY TypeFacts, ConfigFacts
<1>3. n >= P
  BY <1>1 DEF Progress
<1>4. ASSUME NEW m \in Nat, n <= m, NEW o \in 1..m, NEW type \in Type, Join(o, type)
      PROVE  Joined(o, type)
  <2>1. /\ Len(joins') = Len(joins) + 1 /\ joins'[Len(joins) + 1] = o
        /\ \A b \in 1..Len(joins) : joins'[b] = joins[b]
        /\ ready' = IF type \in LazyStart THEN ready ELSE ready \cup {o}
        /\ sender' = IF type = "graphite" THEN o ELSE sender
        /\ at' = <<at[1], at[2] + 1>> /\ Len(emitters') = Len(emitters)
        /\ \A i \in 1..Len(emitters) :
             emitters'[i] = IF i = at[1] THEN Append(emitters[i], o) ELSE emitters[i]
    BY <1>1, <1>4, JoinFacts
  <2>2. ASSUME NEW i \in 1..Len(emitters)
        PROVE  /\ Len(emitters'[i]) = IF i = at[1] THEN at[2] ELSE Len(emitters[i])
               /\ \A j \in 1..Len(emitters[i]) : emitters'[i][j] = emitters[i][j]
               /\ i = at[1] => emitters'[i][at[2]] = o
    <3>1. CASE i = at[1]
      <4>1. emitters'[i] = Append(emitters[i], o)
        BY <2>1, <3>1
      <4>2. emitters[i] \in Seq(1..n) /\ Len(emitters[i]) = at[2] - 1
        BY <1>1, <1>2, <3>1
      <4>3. /\ Len(Append(emitters[i], o)) = Len(emitters[i]) + 1
            /\ \A j \in 1..Len(emitters[i]) : Append(emitters[i], o)[j] = emitters[i][j]
            /\ Append(emitters[i], o)[Len(emitters[i]) + 1] = o
        BY <4>2
      <4>4. Len(emitters[i]) + 1 = at[2]
        BY <1>2, <4>2
      <4> QED BY <3>1, <4>1, <4>3, <4>4
    <3>2. CASE i # at[1]
      BY <2>1, <3>2
    <3> QED BY <3>1, <3>2
  <2> QED BY <1>1, <2>1, <2>2 DEF Joined
<1>5. ASSUME NEW o \in 1..n, NEW type \in Type, o = instance[Ref], type = objects[o].type,
             Join(o, type), UNCHANGED objects
      PROVE  /\ objects'[o].type = type /\ o \in 1..Len(objects')
             /\ o <= n /\ ~Made(o) /\ IsThe(o, Ref)
  <2>1. type # "probe"
    BY DEF Type
  <2>2. ~Made(o)
    BY <1>1, <1>5, <2>1 DEF Registry
  <2>3. o \in 1..P
    BY <1>2, <2>2 DEF Made
  <2>4. config.plugins[o].name = Ref
    BY <1>1, <1>5, <2>3 DEF Registry
  <2>5. ASSUME NEW k \in 1..P, config.plugins[k].name = Ref PROVE k <= o
    <3>1. k <= n
      BY <1>2, <1>3
    <3> QED BY <1>5, <2>5, <3>1 DEF Registry
  <2> QED BY <1>5, <2>2, <2>3, <2>4, <2>5 DEF IsThe
<1>6. ASSUME NEW type \in Type \ NeedsConfig, type = Ref, instance[Ref] = 0,
             NewPlugin([NoPlugin EXCEPT !.type = type], None)
      PROVE  /\ n + 1 \in 1..Len(objects') /\ objects'[n + 1].type = type
             /\ Made(n + 1) /\ OnlyType(Ref)
  <2> DEFINE plugin == [NoPlugin EXCEPT !.type = type]
  <2>1. plugin \in Object /\ plugin.type = type /\ None \in Names \cup {None}
    BY NoPluginFacts
  <2> HIDE DEF plugin
  <2>2. Len(objects') = n + 1 /\ objects'[n + 1] = plugin
    BY <1>6, <2>1, NewPluginFacts DEF plugin
  <2>3. ASSUME NEW k \in 1..P PROVE config.plugins[k].name # Ref
    <3>1. k <= n
      BY <1>2, <1>3
    <3>2. instance[config.plugins[k].name] >= k
      BY <3>1 DEF Registry
    <3> QED BY <1>2, <1>6, <3>2
  <2>4. Made(n + 1) /\ n + 1 \in 1..n + 1
    BY <1>2, <1>3 DEF Made
  <2> QED BY <1>6, <2>1, <2>2, <2>3, <2>4 DEF OnlyType
<1>7. CASE \E o \in 1..n, type \in Type :
             /\ o = instance[Ref] /\ type = objects[o].type /\ Join(o, type)
             /\ UNCHANGED objects
  <2>1. PICK o \in 1..n, type \in Type :
             /\ o = instance[Ref] /\ type = objects[o].type /\ Join(o, type)
             /\ UNCHANGED objects
    BY <1>7
  <2>2. n \in Nat /\ n <= n
    BY <1>2
  <2>3. /\ objects'[o].type = type /\ o \in 1..Len(objects')
        /\ o <= n /\ ~Made(o) /\ IsThe(o, Ref)
    BY <1>5, <2>1
  <2> HIDE DEF n
  <2>4. Joined(o, type)
    BY <1>4, <2>1, <2>2
  <2> QED BY <2>3, <2>4 DEF n
<1>8. CASE \E type \in Type \ NeedsConfig :
             /\ type = Ref /\ instance[Ref] = 0
             /\ NewPlugin([NoPlugin EXCEPT !.type = type], None)
             /\ \E o \in 1..n + 1 : o = n + 1 /\ Join(o, type)
  <2>1. PICK type \in Type \ NeedsConfig :
             /\ type = Ref /\ instance[Ref] = 0
             /\ NewPlugin([NoPlugin EXCEPT !.type = type], None)
             /\ \E o \in 1..n + 1 : o = n + 1 /\ Join(o, type)
    BY <1>8
  <2>2. PICK o \in 1..n + 1 : o = n + 1 /\ Join(o, type)
    BY <2>1
  <2>3. /\ o \in 1..Len(objects') /\ objects'[o].type = type /\ Made(o) /\ OnlyType(Ref)
        /\ o = n + 1 /\ type = Ref /\ n + 1 \in Nat /\ n <= n + 1 /\ type \in Type
    BY <1>2, <1>6, <2>1, <2>2
  <2> HIDE DEF n
  <2> QED BY <1>4, <2>2, <2>3 DEF n
<1> QED BY <1>7, <1>8, OutputCases

(* Only the loops of _main make probes, join outputs and start them.        *)
LEMMA ConnectOnly ==
  ASSUME TypeOK, Progress, [Next]_vars, ~GetProbe, ~GetOutput
  PROVE  /\ UNCHANGED <<config, probes, emitters, ready, sender>>
         /\ StartProbe \/ UNCHANGED <<joins, at>>
<1> USE DEF configVars, connectVars, socketVars, vodkaVars, cycleVars, messageVars, storeVars
<1>1. CASE Instantiate \/ CheckNames \/ StartProbe \/ Connected
  BY <1>1 DEF Instantiate, CheckNames, StartProbe, Connected
<1>2. CASE OnStart \/ Tick \/ Interrupt \/ Terminate \/ OnStop
  BY <1>2 DEF OnStart, Tick, Interrupt, Terminate, OnStop
<1>3. CASE EmitAll \/ Message
  BY <1>3 DEF EmitAll, Message
<1>4. CASE EmitVodka
  BY <1>4 DEF EmitVodka
<1>5. CASE EmitZeroMQ \/ EmitPrometheus \/ EmitRow
  BY <1>5, OtherEmits
<1>6. CASE UNCHANGED vars
  BY <1>6 DEF vars
<1> QED BY <1>1, <1>2, <1>3, <1>4, <1>5, <1>6 DEF Next, Connect, Emit

LEMMA EmittersStep ==
  TypeOK /\ TypeOK' /\ Progress /\ Registry /\ Emitters /\ [Next]_vars => Emitters'
<1> SUFFICES ASSUME TypeOK, TypeOK', Progress, Registry, Emitters, [Next]_vars
             PROVE  Emitters'
  OBVIOUS
<1> DEFINE n == Len(objects)
<1>1. /\ config' = config /\ n \in Nat /\ Len(objects') \in Nat /\ Len(objects') >= n
      /\ \A o \in 1..n : objects'[o] = objects[o]
  <2>1. Len(objects') \in Nat
    BY DEF TypeOK
  <2> QED BY <2>1, Growth, TypeFacts
<1>2. /\ Len(emitters) = Len(probes) /\ Len(probes) \in Nat
      /\ \A i \in 1..Len(probes) : probes[i] \in 1..n
      /\ \A i \in 1..Len(emitters) : \A j \in 1..Len(emitters[i]) : emitters[i][j] \in 1..n
  BY TypeFacts
<1>3. /\ \A i \in 1..Len(emitters) : \A j \in 1..Len(emitters[i]) :
           IF Made(emitters[i][j])
           THEN /\ objects[emitters[i][j]].type = config.probes[i].outputs[j]
                /\ OnlyType(config.probes[i].outputs[j])
           ELSE IsThe(emitters[i][j], config.probes[i].outputs[j])
      /\ \A i, k \in 1..Len(emitters) :
           \A j \in 1..Len(emitters[i]), l \in 1..Len(emitters[k]) :
             Made(emitters[i][j]) /\ emitters[i][j] = emitters[k][l] => i = k /\ j = l
      /\ \A i \in 1..Len(probes) : Made(probes[i]) /\ objects[probes[i]].type = "probe"
      /\ \A i, k \in 1..Len(probes) : probes[i] = probes[k] => i = k
  BY DEF Emitters
<1>4. ASSUME UNCHANGED <<probes, emitters>> PROVE Emitters'
  <2>1. ASSUME NEW i \in 1..Len(emitters), NEW j \in 1..Len(emitters[i])
        PROVE  objects'[emitters[i][j]] = objects[emitters[i][j]]
    BY <1>1, <1>2
  <2>2. \A i \in 1..Len(emitters) : \A j \in 1..Len(emitters[i]) :
          IF Made(emitters[i][j])
          THEN /\ objects'[emitters[i][j]].type = config.probes[i].outputs[j]
               /\ OnlyType(config.probes[i].outputs[j])
          ELSE IsThe(emitters[i][j], config.probes[i].outputs[j])
    BY <1>3, <2>1
  <2>3. \A i \in 1..Len(probes) : Made(probes[i]) /\ objects'[probes[i]].type = "probe"
    BY <1>1, <1>2, <1>3
  <2> QED BY <1>1, <1>3, <1>4, <2>2, <2>3 DEF Emitters, Made, IsThe, OnlyType
<1>5. CASE GetProbe
  <2> DEFINE m == at[1]
  <2>1. /\ stage = "connect" /\ Len(probes) = m - 1 /\ objects'[n + 1] = NoPlugin
        /\ Len(probes') = m /\ probes'[m] = n + 1
        /\ \A i \in 1..Len(probes) : probes'[i] = probes[i]
        /\ Len(emitters') = m /\ emitters'[m] = <<>>
        /\ \A i \in 1..Len(probes) : emitters'[i] = emitters[i]
    BY <1>5, GetProbeFacts
  <2>2. m \in Nat \ {0}
    BY TypeFacts
  <2> HIDE DEF m
  <2>3. \A i \in 1..Len(emitters') :
          \/ i \in 1..Len(emitters) /\ emitters'[i] = emitters[i]
          \/ Len(emitters'[i]) = 0
    BY <1>2, <2>1, <2>2
  <2>4. n >= Len(config.plugins) /\ Len(config.plugins) \in Nat
    <3>1. Len(config.plugins) \in Nat
      BY ConfigFacts
    <3> QED BY <2>1, <3>1 DEF Progress
  <2>5. Made(n + 1) /\ NoPlugin.type = "probe"
    BY <1>1, <2>4, NoPluginFacts DEF Made
  <2>6. ASSUME NEW i \in 1..Len(emitters'), NEW j \in 1..Len(emitters'[i])
        PROVE  /\ i \in 1..Len(emitters) /\ j \in 1..Len(emitters[i])
               /\ emitters'[i][j] = emitters[i][j]
    BY <2>3, <2>6
  <2>7. \A i \in 1..Len(emitters') : \A j \in 1..Len(emitters'[i]) :
          IF Made(emitters'[i][j])
          THEN /\ objects'[emitters'[i][j]].type = config.probes[i].outputs[j]
               /\ OnlyType(config.probes[i].outputs[j])
          ELSE IsThe(emitters'[i][j], config.probes[i].outputs[j])
    BY <1>1, <1>2, <1>3, <2>6
  <2>8. \A i, k \in 1..Len(emitters') :
          \A j \in 1..Len(emitters'[i]), l \in 1..Len(emitters'[k]) :
            Made(emitters'[i][j]) /\ emitters'[i][j] = emitters'[k][l] => i = k /\ j = l
    BY <1>3, <2>6
  <2>9. \A i \in 1..Len(probes') :
          \/ i = m /\ probes'[i] = n + 1
          \/ i \in 1..Len(probes) /\ probes'[i] = probes[i] /\ probes[i] \in 1..n
    BY <1>2, <2>1, <2>2
  <2>10. \A i \in 1..Len(probes') : Made(probes'[i]) /\ objects'[probes'[i]].type = "probe"
    BY <1>1, <1>3, <2>1, <2>5, <2>9
  <2>11. ASSUME NEW i \in 1..Len(probes'), NEW k \in 1..Len(probes'), probes'[i] = probes'[k]
         PROVE  i = k
    <3> HIDE DEF n
    <3>1. \/ i = m /\ probes'[i] = n + 1
          \/ i \in 1..Len(probes) /\ probes'[i] = probes[i] /\ probes[i] \in 1..n
      BY <2>9
    <3>2. \/ k = m /\ probes'[k] = n + 1
          \/ k \in 1..Len(probes) /\ probes'[k] = probes[k] /\ probes[k] \in 1..n
      BY <2>9
    <3>3. \A p, q \in 1..Len(probes) : probes[p] = probes[q] => p = q
      BY <1>3
    <3>4. n \in Nat
      BY <1>1
    <3> QED BY <2>11, <3>1, <3>2, <3>3, <3>4
  <2> QED BY <1>1, <2>7, <2>8, <2>10, <2>11 DEF Emitters, Made, IsThe, OnlyType
<1>6. CASE GetOutput
  <2>1. UNCHANGED probes /\ at[2] \in Nat /\ Len(emitters) = at[1]
        /\ Len(emitters[at[1]]) = at[2] - 1
    BY <1>6, OutputCases, TypeFacts
  <2>2. CASE UNCHANGED emitters
    BY <1>4, <2>1, <2>2
  <2>3. CASE \E o \in 1..Len(objects'), type \in Type :
               /\ objects'[o].type = type
               /\ \/ o <= n /\ ~Made(o) /\ IsThe(o, Ref)
                  \/ o = n + 1 /\ Made(o) /\ type = Ref /\ OnlyType(Ref)
               /\ Joined(o, type)
    <3>1. PICK o \in 1..Len(objects'), type \in Type :
               /\ objects'[o].type = type
               /\ \/ o <= n /\ ~Made(o) /\ IsThe(o, Ref)
                  \/ o = n + 1 /\ Made(o) /\ type = Ref /\ OnlyType(Ref)
               /\ Joined(o, type)
      BY <2>3
    <3>2. /\ Len(emitters') = Len(emitters) /\ emitters'[at[1]][at[2]] = o
          /\ \A i \in 1..Len(emitters) :
               /\ Len(emitters'[i]) = IF i = at[1] THEN at[2] ELSE Len(emitters[i])
               /\ \A j \in 1..Len(emitters[i]) : emitters'[i][j] = emitters[i][j]
      BY <3>1 DEF Joined
    <3>3. ASSUME NEW i \in 1..Len(emitters'), NEW j \in 1..Len(emitters'[i])
          PROVE  /\ i \in 1..Len(emitters)
                 /\ \/ /\ j \in 1..Len(emitters[i]) /\ emitters'[i][j] = emitters[i][j]
                       /\ emitters[i][j] \in 1..n
                    \/ i = at[1] /\ j = at[2] /\ emitters'[i][j] = o
      <4>1. i \in 1..Len(emitters)
        BY <3>2, <3>3
      <4>2. CASE j \in 1..Len(emitters[i])
        BY <1>2, <3>2, <4>1, <4>2
      <4>3. CASE j \notin 1..Len(emitters[i])
        <5>1. i = at[1] /\ j \in 1..at[2]
          BY <3>2, <3>3, <4>1, <4>3
        <5>2. j = at[2]
          BY <2>1, <4>3, <5>1
        <5> QED BY <3>2, <4>1, <5>1, <5>2
      <4> QED BY <4>2, <4>3
    <3>4. ASSUME NEW i \in 1..Len(emitters'), NEW j \in 1..Len(emitters'[i])
          PROVE  IF Made(emitters'[i][j])
                 THEN /\ objects'[emitters'[i][j]].type = config.probes[i].outputs[j]
                      /\ OnlyType(config.probes[i].outputs[j])
                 ELSE IsThe(emitters'[i][j], config.probes[i].outputs[j])
      <4>1. CASE i = at[1] /\ j = at[2] /\ emitters'[i][j] = o
        BY <3>1, <4>1 DEF Ref
      <4>2. CASE /\ j \in 1..Len(emitters[i]) /\ emitters'[i][j] = emitters[i][j]
                 /\ emitters[i][j] \in 1..n
        <5>1. i \in 1..Len(emitters)
          BY <3>3
        <5>2. objects'[emitters[i][j]] = objects[emitters[i][j]]
          BY <1>1, <4>2
        <5> QED BY <1>3, <4>2, <5>1, <5>2
      <4> QED BY <3>3, <4>1, <4>2
    <3>5. Made(o) => o = n + 1
      BY <3>1
    <3>6. ASSUME NEW i \in 1..Len(emitters'), NEW k \in 1..Len(emitters'),
                 NEW j \in 1..Len(emitters'[i]), NEW l \in 1..Len(emitters'[k]),
                 Made(emitters'[i][j]), emitters'[i][j] = emitters'[k][l]
          PROVE  i = k /\ j = l
      <4> HIDE DEF n
      <4>1. /\ i \in 1..Len(emitters)
            /\ \/ /\ j \in 1..Len(emitters[i]) /\ emitters'[i][j] = emitters[i][j]
                  /\ emitters[i][j] \in 1..n
               \/ i = at[1] /\ j = at[2] /\ emitters'[i][j] = o
        BY <3>3
      <4>2. /\ k \in 1..Len(emitters)
            /\ \/ /\ l \in 1..Len(emitters[k]) /\ emitters'[k][l] = emitters[k][l]
                  /\ emitters[k][l] \in 1..n
               \/ k = at[1] /\ l = at[2] /\ emitters'[k][l] = o
        BY <3>3
      <4>3. n \in Nat /\ emitters'[i][j] = emitters'[k][l] /\ (emitters'[i][j] = o => o = n + 1)
        BY <1>1, <3>5, <3>6
      <4>4. CASE emitters'[i][j] = o
        <5>1. emitters'[i][j] \notin 1..n
          BY <4>3, <4>4
        <5>2. i = at[1] /\ j = at[2]
          BY <4>1, <5>1
        <5>3. k = at[1] /\ l = at[2]
          BY <4>2, <4>3, <5>1
        <5> QED BY <5>2, <5>3
      <4>5. CASE emitters'[i][j] # o
        <5>1. /\ j \in 1..Len(emitters[i]) /\ l \in 1..Len(emitters[k])
              /\ emitters[i][j] = emitters[k][l] /\ Made(emitters[i][j])
          BY <3>6, <4>1, <4>2, <4>3, <4>5
        <5> QED BY <1>3, <4>1, <4>2, <5>1
      <4> QED BY <4>4, <4>5
    <3>7. \A i \in 1..Len(probes') : Made(probes'[i]) /\ objects'[probes'[i]].type = "probe"
      BY <1>1, <1>2, <1>3, <2>1
    <3>8. \A i, k \in 1..Len(probes') : probes'[i] = probes'[k] => i = k
      BY <1>3, <2>1
    <3>9. /\ \A x : Made(x)' <=> Made(x)
          /\ \A x, ref : IsThe(x, ref)' <=> IsThe(x, ref)
          /\ \A ref : OnlyType(ref)' <=> OnlyType(ref)
      BY <1>1 DEF Made, IsThe, OnlyType
    <3> QED BY <1>1, <3>4, <3>6, <3>7, <3>8, <3>9 DEF Emitters
  <2> QED BY <1>6, <2>2, <2>3, OutputJoined
<1> QED BY <1>4, <1>5, <1>6, ConnectOnly

LEMMA JoinsStep ==
  /\ TypeOK /\ TypeOK' /\ Progress /\ Registry /\ Emitters /\ Emitters' /\ Joins
  /\ [Next]_vars
  => Joins'
<1> SUFFICES ASSUME TypeOK, TypeOK', Progress, Registry, Emitters, Emitters', Joins, [Next]_vars
             PROVE  Joins'
  OBVIOUS
<1> DEFINE n == Len(objects)
           J == Len(joins)
           m == at[1]
           Joined1 == \A i \in 1..Len(emitters) : \A j \in 1..Len(emitters[i]) :
                        \E a \in 1..J : joins[a] = emitters[i][j]
           Ahead == \A b \in 1..J : \A i \in 1..Len(probes) : joins[b] = probes[i] =>
                      /\ i < m
                      /\ \A j \in 1..Len(emitters[i]) : \E a \in 1..b : joins[a] = emitters[i][j]
<1>1. /\ n \in Nat /\ J \in Nat /\ m \in Nat \ {0}
      /\ Len(emitters) = Len(probes) /\ Len(probes) \in Nat
      /\ \A b \in 1..J : joins[b] \in 1..n
      /\ \A i \in 1..Len(probes) : probes[i] \in 1..n
  BY TypeFacts
<1>2. config' = config /\ \A o \in 1..n : objects'[o] = objects[o]
  BY Growth
<1>3. /\ Joined1 /\ Ahead
      /\ \A b \in 1..J :
           \/ \E i \in 1..Len(emitters) : \E j \in 1..Len(emitters[i]) : joins[b] = emitters[i][j]
           \/ objects[joins[b]].type = "probe"
      /\ \A b \in 1..J : objects[joins[b]].type \notin LazyStart \cup {"probe"} => joins[b] \in ready
  BY DEF Joins
<1>4. \A b \in 1..J : objects'[joins[b]] = objects[joins[b]]
  BY <1>1, <1>2
<1> HIDE DEF n, J, m
<1>5. CASE UNCHANGED <<probes, emitters, ready, joins, at>>
  BY <1>3, <1>4, <1>5 DEF Joins, J, m
<1>6. CASE GetProbe
  <2>0. at' = <<m, 1>> /\ joins' = joins /\ ready' = ready
    BY <1>6, GetProbeFacts DEF m
  <2>1. /\ Len(probes) = m - 1 /\ joins' = joins /\ ready' = ready
        /\ Len(probes') = m /\ probes'[m] = n + 1
        /\ \A i \in 1..Len(probes) : probes'[i] = probes[i]
        /\ Len(emitters') = m /\ emitters'[m] = <<>>
        /\ \A i \in 1..Len(probes) : emitters'[i] = emitters[i]
    BY <1>6, GetProbeFacts DEF m, n
  <2>2. \A i \in 1..Len(probes') :
          \/ i \in 1..Len(probes) /\ probes'[i] = probes[i] /\ emitters'[i] = emitters[i]
          \/ probes'[i] = n + 1 /\ Len(emitters'[i]) = 0
    BY <1>1, <2>1
  <2>3. Len(emitters') = Len(probes')
    BY <2>1
  <2>4. ASSUME NEW i \in 1..Len(emitters'), NEW j \in 1..Len(emitters'[i])
        PROVE  \E a \in 1..J : joins[a] = emitters'[i][j]
    <3>1. i \in 1..Len(emitters) /\ emitters'[i] = emitters[i]
      BY <1>1, <2>2, <2>3, <2>4
    <3> QED BY <1>3, <2>4, <3>1
  <2>5. ASSUME NEW b \in 1..J
        PROVE  \/ \E i \in 1..Len(emitters') : \E j \in 1..Len(emitters'[i]) :
                    joins[b] = emitters'[i][j]
               \/ objects'[joins[b]].type = "probe"
    <3>1. ASSUME NEW i \in 1..Len(emitters)
          PROVE  i \in 1..Len(emitters') /\ emitters'[i] = emitters[i]
      BY <1>1, <2>1
    <3>2. CASE objects[joins[b]].type = "probe"
      BY <1>4, <3>2
    <3>3. CASE \E i \in 1..Len(emitters) : \E j \in 1..Len(emitters[i]) : joins[b] = emitters[i][j]
      <4>0. PICK i \in 1..Len(emitters) : \E j \in 1..Len(emitters[i]) : joins[b] = emitters[i][j]
        BY <3>3
      <4>1. PICK j \in 1..Len(emitters[i]) : joins[b] = emitters[i][j]
        BY <4>0
      <4>2. i \in 1..Len(emitters') /\ j \in 1..Len(emitters'[i]) /\ joins[b] = emitters'[i][j]
        BY <3>1, <4>1
      <4> QED BY <4>2
    <3> QED BY <1>3, <3>2, <3>3
  <2>6. ASSUME NEW b \in 1..J, NEW i \in 1..Len(probes'), joins[b] = probes'[i]
        PROVE  /\ i < m
               /\ \A j \in 1..Len(emitters'[i]) : \E a \in 1..b : joins[a] = emitters'[i][j]
    <3>1. i \in 1..Len(probes) /\ probes'[i] = probes[i] /\ emitters'[i] = emitters[i]
      BY <1>1, <2>2, <2>6
    <3>2. /\ i < m
          /\ \A j \in 1..Len(emitters[i]) : \E a \in 1..b : joins[a] = emitters[i][j]
      BY <1>3, <2>6, <3>1
    <3> QED BY <3>1, <3>2
  <2>7. /\ at'[1] = m /\ Len(joins') = J
        /\ \A b \in 1..J : objects'[joins[b]].type \notin LazyStart \cup {"probe"} =>
             joins[b] \in ready'
    BY <1>3, <1>4, <2>0 DEF J
  <2>8. \A i \in 1..Len(emitters') : \A j \in 1..Len(emitters'[i]) :
          \E a \in 1..Len(joins') : joins'[a] = emitters'[i][j]
    BY <2>0, <2>4, <2>7
  <2>9. \A b \in 1..Len(joins') :
          \/ \E i \in 1..Len(emitters') : \E j \in 1..Len(emitters'[i]) :
               joins'[b] = emitters'[i][j]
          \/ objects'[joins'[b]].type = "probe"
    BY <2>0, <2>5, <2>7
  <2>10. \A b \in 1..Len(joins') : \A i \in 1..Len(probes') : joins'[b] = probes'[i] =>
           /\ i < at'[1]
           /\ \A j \in 1..Len(emitters'[i]) : \E a \in 1..b : joins'[a] = emitters'[i][j]
    BY <2>0, <2>6, <2>7
  <2>11. \A b \in 1..Len(joins') :
           objects'[joins'[b]].type \notin LazyStart \cup {"probe"} => joins'[b] \in ready'
    BY <2>0, <2>7
  <2> QED BY <2>8, <2>9, <2>10, <2>11 DEF Joins
<1>7. CASE GetOutput
  <2>1. UNCHANGED probes /\ at[2] \in Nat /\ Len(emitters) = m /\ Len(emitters[m]) = at[2] - 1
    BY <1>7, OutputCases, TypeFacts DEF m
  <2>2. CASE UNCHANGED <<joins, emitters, ready, at>>
    BY <1>5, <2>1, <2>2
  <2>3. CASE \E o \in 1..Len(objects'), type \in Type :
               objects'[o].type = type /\ Joined(o, type)
    <3>1. PICK o \in 1..Len(objects'), type \in Type :
               objects'[o].type = type /\ Joined(o, type)
      BY <2>3
    <3>2. /\ Len(joins') = J + 1 /\ joins'[J + 1] = o
          /\ \A b \in 1..J : joins'[b] = joins[b]
          /\ ready' = IF type \in LazyStart THEN ready ELSE ready \cup {o}
          /\ at'[1] = m /\ Len(emitters') = Len(emitters)
          /\ emitters'[m][at[2]] = o
          /\ \A i \in 1..Len(emitters) :
               /\ i # m => emitters'[i] = emitters[i]
               /\ Len(emitters'[i]) = IF i = m THEN at[2] ELSE Len(emitters[i])
               /\ \A j \in 1..Len(emitters[i]) : emitters'[i][j] = emitters[i][j]
      BY <3>1 DEF Joined, J, m
    <3>3. type # "probe"
      BY DEF Type
    <3>4. \A b \in 1..J + 1 :
            \/ b = J + 1 /\ joins'[b] = o
            \/ b \in 1..J /\ joins'[b] = joins[b]
      <4>1. \A b \in 1..J + 1 : b = J + 1 \/ b \in 1..J
        BY <1>1
      <4> QED BY <3>2, <4>1
    <3>5. \A i \in 1..Len(probes) : objects'[probes[i]].type = "probe"
      BY <2>1 DEF Emitters
    <3>6. ASSUME NEW i \in 1..Len(emitters'), NEW j \in 1..Len(emitters'[i])
          PROVE  \E a \in 1..J + 1 : joins'[a] = emitters'[i][j]
      <4>1. i \in 1..Len(emitters)
        BY <3>2, <3>6
      <4>2. CASE j \in 1..Len(emitters[i])
        <5>1. PICK a \in 1..J : joins[a] = emitters[i][j]
          BY <1>3, <4>1, <4>2
        <5>2. a \in 1..J + 1
          BY <1>1
        <5> QED BY <3>2, <4>1, <4>2, <5>1, <5>2
      <4>3. CASE j \notin 1..Len(emitters[i])
        <5>1. i = m /\ j \in 1..at[2]
          BY <3>2, <3>6, <4>1, <4>3
        <5>2. j = at[2] /\ J + 1 \in 1..J + 1
          BY <1>1, <2>1, <4>3, <5>1
        <5> QED BY <3>2, <5>1, <5>2
      <4> QED BY <4>2, <4>3
    <3>7. ASSUME NEW b \in 1..J + 1
          PROVE  \/ \E i \in 1..Len(emitters') : \E j \in 1..Len(emitters'[i]) :
                      joins'[b] = emitters'[i][j]
                 \/ objects'[joins'[b]].type = "probe"
      <4>1. CASE b = J + 1 /\ joins'[b] = o
        <5>1. m \in 1..Len(emitters') /\ at[2] \in 1..Len(emitters'[m])
          <6>1. at[2] \in Nat \ {0}
            BY <1>7, OutputCases
          <6>2. m \in 1..Len(emitters)
            BY <1>1, <2>1
          <6> QED BY <3>2, <6>1, <6>2
        <5> QED BY <3>2, <4>1, <5>1
      <4>2. CASE b \in 1..J /\ joins'[b] = joins[b]
        <5>1. CASE \E i \in 1..Len(emitters) : \E j \in 1..Len(emitters[i]) :
                     joins[b] = emitters[i][j]
          <6>1. PICK i \in 1..Len(emitters) :
                  \E j \in 1..Len(emitters[i]) : joins[b] = emitters[i][j]
            BY <5>1
          <6>2. PICK j \in 1..Len(emitters[i]) : joins[b] = emitters[i][j]
            BY <6>1
          <6>3. i \in 1..Len(emitters') /\ emitters'[i][j] = emitters[i][j]
            BY <3>2
          <6>4. j \in 1..Len(emitters'[i])
            <7>1. Len(emitters'[i]) = IF i = m THEN at[2] ELSE Len(emitters[i])
              BY <3>2
            <7> QED BY <2>1, <7>1
          <6> QED BY <4>2, <6>2, <6>3, <6>4
        <5>2. CASE objects[joins[b]].type = "probe"
          BY <1>4, <4>2, <5>2
        <5> QED BY <1>3, <4>2, <5>1, <5>2
      <4> QED BY <3>4, <4>1, <4>2
    <3>8. ASSUME NEW b \in 1..J + 1, NEW i \in 1..Len(probes), joins'[b] = probes[i]
          PROVE  /\ i < m
                 /\ \A j \in 1..Len(emitters'[i]) : \E a \in 1..b : joins'[a] = emitters'[i][j]
      <4>1. o # probes[i]
        BY <3>1, <3>3, <3>5
      <4>2. b \in 1..J /\ joins[b] = probes[i]
        BY <3>4, <3>8, <4>1
      <4>3. /\ i < m
            /\ \A j \in 1..Len(emitters[i]) : \E a \in 1..b : joins[a] = emitters[i][j]
        BY <1>3, <4>2
      <4>4. emitters'[i] = emitters[i]
        BY <1>1, <3>2, <4>3
      <4>5. \A a \in 1..b : joins'[a] = joins[a]
        BY <1>1, <3>2, <4>2
      <4> QED BY <4>3, <4>4, <4>5
    <3>9. ASSUME NEW b \in 1..J + 1, objects'[joins'[b]].type \notin LazyStart \cup {"probe"}
          PROVE  joins'[b] \in ready'
      <4>1. CASE b = J + 1 /\ joins'[b] = o
        BY <3>1, <3>2, <3>9, <4>1
      <4>2. CASE b \in 1..J /\ joins'[b] = joins[b]
        BY <1>3, <1>4, <3>2, <3>9, <4>2
      <4> QED BY <3>4, <4>1, <4>2
    <3> QED BY <2>1, <3>2, <3>6, <3>7, <3>8, <3>9 DEF Joins
  <2> QED BY <1>7, <2>2, <2>3, OutputJoined
<1>8. CASE StartProbe
  <2>1. /\ m = Len(probes) /\ joins' = Append(joins, probes[m]) /\ at'[1] = m + 1
        /\ UNCHANGED <<probes, emitters, ready>>
    BY <1>8, StartProbeFacts DEF m
  <2>0. m \in 1..Len(probes) /\ probes[m] \in 1..n
    BY <1>1, <2>1
  <2>2. joins \in Seq(1..n) /\ m \in 1..Len(probes) /\ probes[m] \in 1..n
    BY <2>0 DEF TypeOK, n
  <2>3. /\ Len(joins') = J + 1 /\ joins'[J + 1] = probes[m]
        /\ \A b \in 1..J : joins'[b] = joins[b]
    BY <2>1, <2>2 DEF J
  <2>4. \A b \in 1..J + 1 :
          \/ b = J + 1 /\ joins'[b] = probes[m]
          \/ b \in 1..J /\ joins'[b] = joins[b]
    BY <1>1, <2>3
  <2>5. objects'[probes[m]].type = "probe" /\ \A i \in 1..Len(probes) : probes[i] = probes[m] => i = m
    BY <2>1, <2>2 DEF Emitters
  <2>6. ASSUME NEW i \in 1..Len(emitters), NEW j \in 1..Len(emitters[i])
        PROVE  \E a \in 1..J + 1 : a \in 1..J /\ joins'[a] = emitters[i][j]
    BY <1>1, <1>3, <2>3
  <2>7. ASSUME NEW b \in 1..J + 1
        PROVE  \/ \E i \in 1..Len(emitters) : \E j \in 1..Len(emitters[i]) :
                    joins'[b] = emitters[i][j]
               \/ objects'[joins'[b]].type = "probe"
    BY <1>3, <1>4, <2>4, <2>5
  <2>8. ASSUME NEW b \in 1..J + 1, NEW i \in 1..Len(probes), joins'[b] = probes[i]
        PROVE  /\ i < m + 1
               /\ \A j \in 1..Len(emitters[i]) : \E a \in 1..b : joins'[a] = emitters[i][j]
    <3>1. CASE b = J + 1 /\ joins'[b] = probes[m]
      <4>1. i = m
        BY <2>5, <2>8, <3>1
      <4>2. i \in 1..Len(emitters) /\ i < m + 1
        BY <1>1, <4>1
      <4>3. ASSUME NEW j \in 1..Len(emitters[i])
            PROVE  \E a \in 1..b : joins'[a] = emitters[i][j]
        BY <2>6, <3>1, <4>2
      <4> QED BY <4>2, <4>3
    <3>2. CASE b \in 1..J /\ joins'[b] = joins[b]
      <4>1. /\ i < m
            /\ \A j \in 1..Len(emitters[i]) : \E a \in 1..b : joins[a] = emitters[i][j]
        BY <1>3, <2>8, <3>2
      <4>2. \A a \in 1..b : joins'[a] = joins[a]
        BY <1>1, <2>3, <3>2
      <4> QED BY <1>1, <4>1, <4>2
    <3> QED BY <2>4, <3>1, <3>2
  <2>9. ASSUME NEW b \in 1..J + 1, objects'[joins'[b]].type \notin LazyStart \cup {"probe"}
        PROVE  joins'[b] \in ready
    BY <1>3, <1>4, <2>4, <2>5, <2>9
  <2>10. \A i \in 1..Len(emitters) : \A j \in 1..Len(emitters[i]) :
           \E a \in 1..J + 1 : joins'[a] = emitters[i][j]
    BY <2>6
  <2>11. Len(joins') = J + 1 /\ at'[1] = m + 1 /\ UNCHANGED <<probes, emitters, ready>>
    BY <2>1, <2>3
  <2> QED BY <2>7, <2>8, <2>9, <2>10, <2>11 DEF Joins
<1> QED BY <1>5, <1>6, <1>7, <1>8, ConnectOnly

-----------------------------------------------------------------------------
(* Sockets are opened and calls are made only once the loops are through.   *)
LEMMA BeforeRunning ==
  ASSUME TypeOK, TypeOK', Progress, Progress', Next, stage \in {"plugins", "connect"}
  PROVE  /\ begun' = 0 /\ runs' = <<>> /\ values' = {} /\ todo' = <<>>
         /\ \A o \in 1..Len(objects') : sock'[o] = 0
<1> USE DEF configVars, connectVars, socketVars, vodkaVars, cycleVars, messageVars, storeVars
<1>1. begun = 0 /\ runs = <<>> /\ values = {} /\ todo = <<>> /\ sockets = <<>>
  BY DEF Progress
<1>2. UNCHANGED <<begun, runs, values, todo, sockets>>
  <2>1. CASE Instantiate \/ CheckNames \/ GetProbe \/ GetOutput \/ StartProbe \/ Connected
    BY <2>1 DEF Instantiate, CheckNames, GetProbe, GetOutput, StartProbe, Connected
  <2>2. CASE Interrupt \/ Terminate
    BY <1>1, <2>2, SignalFacts
  <2> QED BY <1>1, <2>1, <2>2 DEF Next, Connect, Emit, OnStart, Tick, EmitAll, Message,
            EmitZeroMQ, EmitPrometheus, EmitVodka, EmitRow, OnStop
<1>3. ASSUME NEW o \in 1..Len(objects') PROVE sock'[o] = 0
  <2>1. sock' \in Seq(0..Len(sockets')) /\ Len(sock') = Len(objects')
    BY DEF TypeOK
  <2>2. Len(sockets') = 0
    BY <1>1, <1>2
  <2>3. sock'[o] \in 0..Len(sockets')
    BY <2>1
  <2> QED BY <2>2, <2>3
<1> QED BY <1>1, <1>2, <1>3

(* A step that opens no socket and adds no call.                            *)
LEMMA BegunKept ==
  ASSUME TypeOK, Begun, UNCHANGED <<joins, emitters, begun, turn>>,
         \A o \in 1..Len(objects) : objects'[o] = objects[o] /\ sock'[o] = sock[o],
         \A o \in 1..Len(objects') : o \in 1..Len(objects) \/ sock'[o] = 0,
         \A k \in 1..Len(todo') : \E l \in 1..Len(todo) :
           /\ todo'[k].output = todo[l].output /\ todo'[k].probe = todo[l].probe
           /\ todo'[k].pos = todo[l].pos
  PROVE  Begun'
<1>1. \A b \in 1..begun : joins[b] \in 1..Len(objects)
  <2>1. /\ begun \in 0..Len(joins) /\ Len(joins) \in Nat
        /\ \A b \in 1..Len(joins) : joins[b] \in 1..Len(objects)
    BY TypeFacts
  <2> QED BY <2>1
<1>2. \A b \in 1..begun : objects'[joins[b]].type = "zeromq" => sock'[joins[b]] # 0
  BY <1>1 DEF Begun
<1>3. \A o \in 1..Len(objects') : sock'[o] # 0 =>
        objects'[o].type = "zeromq" /\ \E b \in 1..begun : joins[b] = o
  BY DEF Begun
<1>4. ASSUME NEW k \in 1..Len(todo')
      PROVE  /\ todo'[k].probe \in 1..Len(emitters) /\ todo'[k].probe = turn
             /\ todo'[k].pos \in 1..Len(emitters[todo'[k].probe])
             /\ todo'[k].output = emitters[todo'[k].probe][todo'[k].pos]
             /\ \E b \in 1..begun : joins[b] = todo'[k].output
  <2>1. PICK l \in 1..Len(todo) :
          /\ todo'[k].output = todo[l].output /\ todo'[k].probe = todo[l].probe
          /\ todo'[k].pos = todo[l].pos
    OBVIOUS
  <2>2. /\ todo[l].probe \in 1..Len(emitters) /\ todo[l].probe = turn
        /\ todo[l].pos \in 1..Len(emitters[todo[l].probe])
        /\ todo[l].output = emitters[todo[l].probe][todo[l].pos]
        /\ \E b \in 1..begun : joins[b] = todo[l].output
    BY DEF Begun
  <2> QED BY <2>1, <2>2
<1> QED BY <1>2, <1>3, <1>4 DEF Begun

LEMMA CallsLeft ==
  ASSUME TypeOK, todo # <<>>, todo' = Tail(todo) \/ NextRow \/ todo' = <<>>
  PROVE  \A k \in 1..Len(todo') : \E l \in 1..Len(todo) :
           /\ todo'[k].output = todo[l].output /\ todo'[k].probe = todo[l].probe
           /\ todo'[k].pos = todo[l].pos
<1>1. CASE todo' = Tail(todo)
  <2>1. /\ Len(todo) \in Nat /\ Len(Tail(todo)) = Len(todo) - 1
        /\ \A k \in 1..Len(todo) - 1 : Tail(todo)[k] = todo[k + 1]
    BY TailFacts
  <2>2. \A k \in 1..Len(todo) - 1 : k + 1 \in 1..Len(todo)
    BY <2>1
  <2> QED BY <1>1, <2>1, <2>2
<1>2. CASE NextRow
  <2>1. CASE /\ Len(todo') = Len(todo)
             /\ \A k \in 1..Len(todo) : k # 1 => todo'[k] = todo[k]
             /\ todo'[1].output = todo[1].output /\ todo'[1].probe = todo[1].probe
             /\ todo'[1].pos = todo[1].pos
    BY <2>1
  <2> QED BY <1>1, <1>2, <2>1, NextRowFacts
<1>3. CASE todo' = <<>>
  BY <1>3
<1> QED BY <1>1, <1>2, <1>3

LEMMA BegunStep ==
  /\ TypeOK /\ TypeOK' /\ Progress /\ Progress' /\ Joins /\ Begun
  /\ [Next]_vars
  => Begun'
<1> SUFFICES ASSUME TypeOK, TypeOK', Progress, Progress', Joins, Begun, [Next]_vars
             PROVE  Begun'
  OBVIOUS
<1> USE DEF configVars, connectVars, socketVars, vodkaVars, cycleVars, messageVars, storeVars
<1>1. ASSUME UNCHANGED <<objects, joins, emitters, begun, sock>>,
             todo' = <<>> \/ UNCHANGED <<todo, turn>>
      PROVE  Begun'
  BY <1>1 DEF Begun
<1>2. CASE Next /\ stage \in {"plugins", "connect"}
  <2>1. /\ begun' = 0 /\ todo' = <<>>
        /\ \A o \in 1..Len(objects') : sock'[o] = 0
    BY <1>2, BeforeRunning
  <2> QED BY <2>1 DEF Begun
<1>3. CASE OnStart
  <2>1. /\ todo = <<>> /\ begun < Len(joins) /\ begun' = begun + 1
        /\ UNCHANGED <<objects, joins, emitters, todo>>
    BY <1>3 DEF OnStart, Progress
  <2>2. /\ begun \in Nat /\ Len(joins) \in Nat
        /\ \A b \in 1..Len(joins) : joins[b] \in 1..Len(objects)
    BY TypeFacts
  <2>3. begun + 1 \in 1..Len(joins)
    BY <2>1, <2>2
  <2>4. PICK o \in 1..Len(objects) : o = joins[begun + 1]
    BY <2>2, <2>3
  <2>5. \A b \in 1..begun + 1 : b = begun + 1 \/ b \in 1..begun
    BY <2>2
  <2>6. \A b \in 1..begun : b \in 1..begun + 1
    BY <2>2
  <2>7. CASE objects[o].type = "zeromq"
    <3>1. OpenSocket(o)
      BY <1>3, <2>4, <2>7, OnStartCases
    <3>2. \A p \in 1..Len(objects) :
            sock'[p] = IF p = o THEN Len(sockets) + 1 ELSE sock[p]
      BY <3>1, OpenSocketFacts
    <3>3. Len(sockets) + 1 # 0
      BY TypeFacts
    <3>4. \A b \in 1..begun + 1 : objects[joins[b]].type = "zeromq" => sock'[joins[b]] # 0
      <4>1. \A b \in 1..begun : joins[b] \in 1..Len(objects)
        BY <2>1, <2>2
      <4>2. \A b \in 1..begun : objects[joins[b]].type = "zeromq" => sock[joins[b]] # 0
        BY DEF Begun
      <4> QED BY <2>4, <2>5, <3>2, <3>3, <4>1, <4>2
    <3>5. ASSUME NEW p \in 1..Len(objects), sock'[p] # 0
          PROVE  objects[p].type = "zeromq" /\ \E b \in 1..begun + 1 : joins[b] = p
      <4>1. CASE p = o
        <5>1. begun + 1 \in 1..begun + 1
          BY <2>2
        <5> QED BY <2>4, <2>7, <4>1, <5>1
      <4>2. CASE p # o
        <5>1. sock[p] # 0
          BY <3>2, <3>5, <4>2
        <5> QED BY <2>6, <5>1 DEF Begun
      <4> QED BY <4>1, <4>2
    <3>6. \A k \in 1..Len(todo') : FALSE
      BY <2>1
    <3> QED BY <2>1, <3>4, <3>5, <3>6 DEF Begun
  <2>8. CASE objects[o].type # "zeromq"
    <3>1. UNCHANGED sock
      BY <1>3, <2>4, <2>8 DEF OnStart
    <3>2. \A b \in 1..begun + 1 : objects[joins[b]].type = "zeromq" => sock[joins[b]] # 0
      BY <2>4, <2>5, <2>8 DEF Begun
    <3>3. \A p \in 1..Len(objects) : sock[p] # 0 =>
            objects[p].type = "zeromq" /\ \E b \in 1..begun + 1 : joins[b] = p
      BY <2>6 DEF Begun
    <3> QED BY <2>1, <3>1, <3>2, <3>3 DEF Begun
  <2> QED BY <2>7, <2>8
<1>4. CASE EmitAll
  <2>1. PICK i \in 1..Len(probes) :
          /\ \E b \in 1..begun : joins[b] = probes[i]
          /\ turn' = i
          /\ \A j \in 1..Len(todo') :
               /\ j \in 1..Len(emitters[i])
               /\ todo'[j].output = emitters[i][j] /\ todo'[j].probe = i /\ todo'[j].pos = j
          /\ UNCHANGED <<objects, joins, emitters, begun, sock>>
    BY <1>4, EmitAllFacts
  <2>2. PICK b \in 1..begun : joins[b] = probes[i]
    BY <2>1
  <2>3. b \in 1..Len(joins) /\ \A a \in 1..b : a \in 1..begun
    <3>1. begun \in 0..Len(joins) /\ Len(joins) \in Nat
      BY TypeFacts
    <3> QED BY <3>1
  <2>4. \A j \in 1..Len(emitters[i]) : \E a \in 1..b : joins[a] = emitters[i][j]
    BY <2>2, <2>3 DEF Joins
  <2>5. i \in 1..Len(emitters)
    BY TypeFacts
  <2>6. \A k \in 1..Len(todo') :
          /\ todo'[k].probe \in 1..Len(emitters) /\ todo'[k].probe = turn'
          /\ todo'[k].pos \in 1..Len(emitters[todo'[k].probe])
          /\ todo'[k].output = emitters[todo'[k].probe][todo'[k].pos]
          /\ \E a \in 1..begun : joins[a] = todo'[k].output
    BY <2>1, <2>3, <2>4, <2>5
  <2> QED BY <2>1, <2>6 DEF Begun
<1>5. CASE EmitVodka
  <2> DEFINE n == Len(objects)
             m == Len(config.probes)
  <2>1. /\ todo # <<>> /\ n \in Nat /\ m \in Nat /\ UNCHANGED <<joins, emitters, begun, turn>>
        /\ todo' = Tail(todo) \/ todo' = <<>>
        /\ \/ UNCHANGED <<objects, sock>>
           \/ /\ Len(objects') = n + m
              /\ \A p \in 1..n + m : objects'[p] = IF p <= n THEN objects[p] ELSE NoPlugin
              /\ \A p \in 1..n + m : sock'[p] = IF p <= n THEN sock[p] ELSE 0
    BY <1>5, VodkaCases
  <2>2. \A o \in 1..n : objects'[o] = objects[o] /\ sock'[o] = sock[o]
    BY <2>1
  <2>3. \A o \in 1..Len(objects') : o \in 1..n \/ sock'[o] = 0
    BY <2>1
  <2> QED BY <2>1, <2>2, <2>3, CallsLeft, BegunKept
<1>6. CASE EmitZeroMQ \/ EmitPrometheus \/ EmitRow
  <2>1. /\ todo # <<>> /\ UNCHANGED <<objects, joins, emitters, begun, sock, turn>>
        /\ todo' = Tail(todo) \/ NextRow \/ todo' = <<>>
    BY <1>6, OtherEmits
  <2> QED BY <2>1, CallsLeft, BegunKept
<1>7. CASE Tick \/ OnStop
  BY <1>1, <1>7 DEF Tick, OnStop
<1>10. CASE Interrupt \/ Terminate \/ Message
  BY <1>1, <1>10, SignalFacts, MessageFacts
<1>8. CASE UNCHANGED vars
  BY <1>1, <1>8 DEF vars
<1>9. CASE Instantiate \/ CheckNames \/ Connect
  BY <1>2, <1>9 DEF Next, Connect, Instantiate, CheckNames, GetProbe, GetOutput, StartProbe,
                    Connected
<1> QED BY <1>3, <1>4, <1>5, <1>6, <1>7, <1>8, <1>9, <1>10 DEF Next, Emit

(* vodka's flag, and the groups of the probes.                              *)
LEMMA VodkaRunsStep ==
  TypeOK /\ TypeOK' /\ Progress /\ Progress' /\ VodkaRuns /\ [Next]_vars => VodkaRuns'
<1> SUFFICES ASSUME TypeOK, TypeOK', Progress, Progress', VodkaRuns, [Next]_vars
             PROVE  VodkaRuns'
  OBVIOUS
<1> USE DEF configVars, connectVars, socketVars, vodkaVars, cycleVars, messageVars, storeVars
<1> DEFINE All == {config.probes[i].name : i \in 1..Len(config.probes)}
<1>1. config' = config /\ Len(runs) \in Nat
  BY Growth, TypeFacts
<1>2. /\ ToSet(runs) \subseteq lazy /\ \A k, l \in 1..Len(runs) : k # l => runs[k] # runs[l]
      /\ groups \subseteq All /\ (stage = "running" /\ runs # <<>> /\ config.graphsrv => groups = All)
  BY DEF VodkaRuns
<1>3. ASSUME UNCHANGED <<runs, lazy, groups>>, stage' = "running" /\ runs # <<>> => stage = "running"
      PROVE  VodkaRuns'
  BY <1>1, <1>2, <1>3 DEF VodkaRuns
<1>4. CASE EmitVodka
  <2> DEFINE o == todo[1].output
  <2>1. CASE UNCHANGED <<stage, runs, lazy, groups>>
    BY <1>3, <2>1
  <2>2. ASSUME o \notin lazy, runs' = Append(runs, o), lazy' = lazy \cup {o},
               \/ (stage' \in {"stopping", "ended"} \/ ~config.graphsrv) /\ UNCHANGED groups
               \/ groups' = groups \cup All
        PROVE  VodkaRuns'
    <3>1. runs \in Seq(1..Len(objects))
      BY DEF TypeOK
    <3> HIDE DEF o
    <3>2. /\ Len(runs') = Len(runs) + 1 /\ runs'[Len(runs) + 1] = o
          /\ \A k \in 1..Len(runs) : runs'[k] = runs[k]
      BY <2>2, <3>1
    <3>3. \A k \in 1..Len(runs) : runs[k] \in lazy
      BY <1>2, <3>1 DEF ToSet
    <3>4. \A k \in 1..Len(runs') :
            \/ k = Len(runs) + 1 /\ runs'[k] = o
            \/ k \in 1..Len(runs) /\ runs'[k] = runs[k] /\ runs[k] # o
      BY <1>1, <2>2, <3>2, <3>3
    <3>5. \A k, l \in 1..Len(runs') : k # l => runs'[k] # runs'[l]
      BY <1>2, <3>4
    <3>6. ToSet(runs') \subseteq lazy'
      <4>1. DOMAIN runs' = 1..Len(runs')
        BY DEF TypeOK
      <4> QED BY <2>2, <3>3, <3>4, <4>1 DEF ToSet
    <3>7. groups' \subseteq All /\ (stage' = "running" /\ config.graphsrv => groups' = All)
      <4> HIDE DEF All
      <4>1. groups \subseteq All
        BY <1>2
      <4> QED BY <2>2, <4>1
    <3> QED BY <1>1, <3>5, <3>6, <3>7 DEF VodkaRuns
  <2> QED BY <1>4, <2>1, <2>2, VodkaCases
<1>5. CASE Next /\ stage \in {"plugins", "connect"}
  <2>1. UNCHANGED <<runs, lazy, groups>> /\ runs = <<>>
    <3>1. runs = <<>> /\ todo = <<>>
      BY <1>5 DEF Progress
    <3> QED BY <1>5, <3>1 DEF Next, Connect, Emit, Instantiate, CheckNames, GetProbe, GetOutput,
              StartProbe, Connected, OnStart, Tick, EmitAll, Message, EmitZeroMQ, EmitPrometheus,
              EmitVodka, EmitRow, Interrupt, Terminate, OnStop
  <2> QED BY <1>3, <2>1
<1>6. CASE Instantiate \/ CheckNames \/ Connect
  BY <1>5, <1>6 DEF Next, Connect, Instantiate, CheckNames, GetProbe, GetOutput, StartProbe,
                    Connected
<1>7. CASE OnStart
  BY <1>3, <1>7 DEF OnStart
<1>8. CASE EmitAll \/ Message
  <2>1. UNCHANGED <<stage, runs, lazy, groups>>
    BY <1>8 DEF EmitAll, Message
  <2> QED BY <1>3, <2>1
<1>9. CASE EmitZeroMQ \/ EmitPrometheus \/ EmitRow
  <2>1. UNCHANGED <<runs, lazy, groups>> /\ stage' \in {stage, "stopping", "ended"}
    BY <1>9, OtherEmits
  <2> QED BY <1>3, <2>1
<1>10. CASE Tick \/ OnStop
  BY <1>3, <1>10 DEF Tick, OnStop
<1>12. CASE Interrupt \/ Terminate
  BY <1>3, <1>12, SignalFacts
<1>11. CASE UNCHANGED vars
  BY <1>3, <1>11 DEF vars
<1> QED BY <1>4, <1>6, <1>7, <1>8, <1>9, <1>10, <1>11, <1>12 DEF Next, Emit

-----------------------------------------------------------------------------
LEMMA WiringInit == Init => Wiring
<1> SUFFICES ASSUME Init PROVE Wiring
  OBVIOUS
<1>1. TypeOK /\ config \in Configs /\ stage = "plugins" /\ error = None
      /\ objects = <<>> /\ instance = [n \in Names |-> 0] /\ at = <<1, 0>>
      /\ joins = <<>> /\ probes = <<>> /\ emitters = <<>> /\ ready = {} /\ sender = 0
      /\ begun = 0 /\ sock = <<>> /\ sockets = <<>> /\ runs = <<>> /\ groups = {}
      /\ lazy = {} /\ todo = <<>> /\ values = {}
  BY InitTypeOK DEF Init
<1>2. Len(config.plugins) \in Nat /\ Len(config.probes) \in Nat
      /\ \A k \in 1..Len(config.plugins) : config.plugins[k].name \in Names
  BY <1>1, ConfigFacts
<1>3. Progress
  BY <1>1, <1>2 DEF Progress
<1>4. Registry
  BY <1>1, <1>2 DEF Registry, Made
<1>5. Emitters /\ Joins /\ Begun
  BY <1>1 DEF Emitters, Joins, Begun
<1>6. VodkaRuns
  BY <1>1 DEF VodkaRuns, ToSet
<1> QED BY <1>3, <1>4, <1>5, <1>6 DEF Wiring

LEMMA WiringStep == TypeOK /\ Wiring /\ [Next]_vars => TypeOK' /\ Wiring'
<1> SUFFICES ASSUME TypeOK, Wiring, [Next]_vars PROVE TypeOK' /\ Wiring'
  OBVIOUS
<1>1. Progress /\ Registry /\ Emitters /\ Joins /\ Begun /\ VodkaRuns
  BY DEF Wiring
<1>2. TypeOK' /\ Progress'
  BY <1>1, TypeStep, ProgressStep
<1>3. Registry' /\ Emitters'
  BY <1>1, <1>2, RegistryStep, EmittersStep
<1>4. Joins' /\ Begun' /\ VodkaRuns'
  BY <1>1, <1>2, <1>3, JoinsStep, BegunStep, VodkaRunsStep
<1> QED BY <1>2, <1>3, <1>4 DEF Wiring

(* Every variable keeps its type, and the daemon its wiring: the registry,  *)
(* the _emit lists, joins and the sockets agree as the definitions above    *)
(* say, whatever plugins and probes the config has.                         *)
THEOREM WiringHolds == Spec => [](TypeOK /\ Wiring)
<1>1. Init => TypeOK /\ Wiring
  BY InitTypeOK, WiringInit
<1>2. (TypeOK /\ Wiring) /\ [Next]_vars => (TypeOK /\ Wiring)'
  BY WiringStep
<1> QED BY <1>1, <1>2, PTL DEF Spec

(* Numbers in the variables are of objects, sockets, probes and joins that  *)
(* exist.                                                                   *)
THEOREM OutputsTypeCorrect == Spec => []TypeOK
BY WiringHolds, PTL

(* NeverUnready, from what Joins and Begun say of the object called.        *)
LEMMA ReadyStep ==
  TypeOK /\ Wiring /\ NeverUnready /\ [Next]_vars => NeverUnready'
<1> SUFFICES ASSUME TypeOK, Wiring, NeverUnready, [Next]_vars PROVE NeverUnready'
  OBVIOUS
<1> USE DEF NeverUnready
<1>1. CASE EmitZeroMQ
  <2>1. todo # <<>> /\ objects[todo[1].output].type = "zeromq"
    BY <1>1 DEF EmitZeroMQ
  <2>2. sock[todo[1].output] # 0
    BY <2>1, CalledFacts DEF Wiring, Begun
  <2> QED BY <1>1, <2>2 DEF EmitZeroMQ, Done
<1>2. CASE EmitRow
  <2> DEFINE o == todo[1].output
  <2>1. todo # <<>> /\ objects[o].type \in TimeSeries
    BY <1>2 DEF EmitRow
  <2>2. objects[o].type \notin LazyStart \cup {"probe"}
    BY <2>1 DEF TimeSeries, LazyStart
  <2>3. o \in ready
    BY <2>1, <2>2, CalledFacts DEF Wiring, Joins
  <2>4. error' = "refused" \/ error' = error
    BY <1>2, <2>3 DEF EmitRow, Store, Fails, Raise
  <2> QED BY <2>4
<1>3. CASE EmitVodka
  <2>1. error' \in {error, "vodka"}
    BY <1>3, VodkaCases
  <2> QED BY <2>1
<1>4. CASE GetOutput
  <2>1. error' \in {error, "mismatch", "config", "port"}
    BY <1>4 DEF GetOutput, Raise, Join
  <2> QED BY <2>1
<1>5. CASE Instantiate \/ CheckNames \/ GetProbe \/ StartProbe \/ Connected
  <2>1. error' \in {error, "config", "port"}
    BY <1>5 DEF Instantiate, CheckNames, GetProbe, StartProbe, Connected, Raise, Refuse
  <2> QED BY <2>1
<1>6. CASE OnStart \/ Tick \/ EmitPrometheus \/ OnStop
  <2>1. error' \in {error, "taken", "bare", "cut"}
    BY <1>6 DEF OnStart, OpenSocket, Tick, EmitPrometheus, Done, Fails, OnStop, Raise
  <2> QED BY <2>1
<1>7. CASE EmitAll \/ Message
  BY <1>7 DEF EmitAll, Message
<1>8. CASE Interrupt \/ Terminate
  <2>1. error' \in {None, "killed"}
    BY <1>8, SignalFacts
  <2> QED BY <2>1 DEF None
<1>9. CASE UNCHANGED vars
  BY <1>9 DEF vars
<1> QED BY <1>1, <1>2, <1>3, <1>4, <1>5, <1>6, <1>7, <1>8, <1>9 DEF Next, Connect, Emit

(* No output is used before its socket, archive or connection is there, for *)
(* any config: shared and nameless outputs, any order of the probes.        *)
THEOREM OutputsAreReady == Spec => []NeverUnready
<1>1. Init => NeverUnready
  BY DEF Init, NeverUnready, None
<1> QED BY <1>1, WiringHolds, ReadyStep, PTL DEF Spec

(* vodka.run() is called once by each object, and from then on graphsrv, if *)
(* it is installed, has the groups of every probe.                          *)
THEOREM VodkaRunsOnce == Spec => []VodkaStartsOnce
<1>1. Wiring => VodkaStartsOnce
  BY DEF Wiring, VodkaRuns, VodkaStartsOnce
<1> QED BY <1>1, WiringHolds, PTL

(* In the registry a plugin's name is never taken over by what is made      *)
(* later, and two places of the config share an object just if they name    *)
(* the same plugin.                                                         *)
THEOREM NamesStandForOne == Spec => []OneObjectPerName
<1> DEFINE P == Len(config.plugins)
           of(r) == emitters[r[1]][r[2]]
           has(r) == r[1] <= Len(emitters) /\ r[2] <= Len(emitters[r[1]])
           name(r) == config.probes[r[1]].outputs[r[2]]
<1>1. ASSUME TypeOK, Wiring, stage \in {"connect", "running"}, NEW k \in 1..P
      PROVE  LET o == instance[config.plugins[k].name]
             IN o <= P /\ objects[o].name = config.plugins[k].name
  <2> DEFINE ref == config.plugins[k].name
             o == instance[ref]
  <2>1. ref \in Names /\ P \in Nat /\ Len(objects) \in Nat /\ o \in 0..Len(objects)
    BY <1>1, ConfigFacts, TypeFacts
  <2>2. k <= Len(objects)
    <3>1. Len(objects) >= P
      BY <1>1 DEF Wiring, Progress
    <3> QED BY <2>1, <3>1
  <2>3. o >= k
    BY <1>1, <2>2 DEF Wiring, Registry
  <2>4. ~Made(o)
    <3>1. Made(o) => \E i \in 1..Len(config.probes) : config.probes[i].name = ref
      BY <1>1, <2>1 DEF Wiring, Registry
    <3>2. \A i \in 1..Len(config.probes) : config.probes[i].name # ref
      BY <1>1 DEF Wiring, Registry
    <3> QED BY <3>1, <3>2
  <2>5. o \in 1..P /\ o \in 1..Len(objects)
    BY <2>1, <2>3, <2>4 DEF Made
  <2>6. config.plugins[o].name = ref
    BY <1>1, <2>1, <2>5 DEF Wiring, Registry
  <2>7. objects[o] = config.plugins[o]
    BY <1>1, <2>4, <2>5 DEF Wiring, Registry
  <2> HIDE DEF ref, o
  <2>8. o <= P /\ objects[o].name = ref
    BY <2>1, <2>5, <2>6, <2>7
  <2> QED BY <2>8 DEF ref, o
<1>2. ASSUME TypeOK, Wiring, NEW p \in Places, has(p)
      PROVE  /\ p[1] \in 1..Len(emitters) /\ p[2] \in 1..Len(emitters[p[1]])
             /\ p = <<p[1], p[2]>> /\ of(p) \in Nat
             /\ IF of(p) <= P THEN IsThe(of(p), name(p)) ELSE Made(of(p)) /\ OnlyType(name(p))
  <2>1. PICK i \in 1..Len(config.probes) :
          p \in {<<i, j>> : j \in 1..Len(config.probes[i].outputs)}
    BY DEF Places
  <2>2. PICK j \in 1..Len(config.probes[i].outputs) : p = <<i, j>>
    BY <2>1
  <2>3. Len(config.probes[i].outputs) \in Nat /\ P \in Nat /\ Len(emitters) \in Nat
        /\ Len(config.probes) \in Nat
    BY <1>2, ConfigFacts, TypeFacts
  <2>4. i \in 1..Len(emitters)
    BY <1>2, <2>2, <2>3
  <2>5. Len(emitters[i]) \in Nat
    BY <1>2, <2>4, TypeFacts
  <2>6. j \in 1..Len(emitters[i])
    BY <1>2, <2>2, <2>3, <2>5
  <2>7. emitters[i][j] \in Nat
    <3>1. emitters[i][j] \in 1..Len(objects) /\ Len(objects) \in Nat
      BY <1>2, <2>4, <2>6, TypeFacts
    <3> QED BY <3>1
  <2>8. IF Made(emitters[i][j]) THEN OnlyType(config.probes[i].outputs[j])
                                ELSE IsThe(emitters[i][j], config.probes[i].outputs[j])
    BY <1>2, <2>4, <2>6 DEF Wiring, Emitters
  <2>9. Made(emitters[i][j]) <=> ~(emitters[i][j] <= P)
    BY <2>3, <2>7 DEF Made
  <2> HIDE DEF P
  <2> QED BY <2>2, <2>4, <2>6, <2>7, <2>8, <2>9
<1>3. ASSUME TypeOK, Wiring, NEW p \in Places, NEW q \in Places, has(p), has(q)
      PROVE  (of(p) = of(q)) = (p = q \/ (name(p) = name(q) /\ of(p) <= P))
  <2>1. /\ p[1] \in 1..Len(emitters) /\ p[2] \in 1..Len(emitters[p[1]])
        /\ p = <<p[1], p[2]>> /\ of(p) \in Nat
        /\ IF of(p) <= P THEN IsThe(of(p), name(p)) ELSE Made(of(p)) /\ OnlyType(name(p))
    BY <1>2, <1>3
  <2>2. /\ q[1] \in 1..Len(emitters) /\ q[2] \in 1..Len(emitters[q[1]])
        /\ q = <<q[1], q[2]>> /\ of(q) \in Nat
        /\ IF of(q) <= P THEN IsThe(of(q), name(q)) ELSE Made(of(q)) /\ OnlyType(name(q))
    BY <1>2, <1>3
  <2>3. of(p) = of(q) /\ Made(of(p)) => p[1] = q[1] /\ p[2] = q[2]
    BY <1>3, <2>1, <2>2 DEF Wiring, Emitters
  <2>4. \A o, ref1, ref2 : IsThe(o, ref1) /\ IsThe(o, ref2) => ref1 = ref2
    BY DEF IsThe
  <2>5. \A o1, o2 \in Nat : \A ref : IsThe(o1, ref) /\ IsThe(o2, ref) => o1 = o2
    BY DEF IsThe
  <2>6. \A o, ref : ~(IsThe(o, ref) /\ OnlyType(ref))
    BY DEF IsThe, OnlyType
  <2> HIDE DEF of, name, P
  <2>7. of(p) = of(q) => p = q \/ (name(p) = name(q) /\ of(p) <= P)
    BY <2>1, <2>2, <2>3, <2>4
  <2>8. name(p) = name(q) /\ of(p) <= P => of(p) = of(q)
    BY <2>1, <2>2, <2>5, <2>6
  <2> QED BY <2>7, <2>8
<1>4. TypeOK /\ Wiring => OneObjectPerName
  <2> SUFFICES ASSUME TypeOK, Wiring, stage \in {"connect", "running"}
               PROVE  /\ \A k \in 1..P :
                           LET o == instance[config.plugins[k].name]
                           IN o <= P /\ objects[o].name = config.plugins[k].name
                      /\ \A p, q \in Places : has(p) /\ has(q) =>
                           (of(p) = of(q)) = (p = q \/ (name(p) = name(q) /\ of(p) <= P))
    BY DEF OneObjectPerName
  <2> QED BY <1>1, <1>3
<1> QED BY <1>4, WiringHolds, PTL

-----------------------------------------------------------------------------
(* What the outputs keep open and store.                                    *)

(* The config names a zeromq output at two places.                          *)
Twice == \E p \in ToSet(config.plugins) :
           p.type = "zeromq" /\ Cardinality(Named(p.name)) > 1

AtTwoPlaces(o) ==
  \E i, k \in 1..Len(emitters) : \E j \in 1..Len(emitters[i]), l \in 1..Len(emitters[k]) :
    ~(i = k /\ j = l) /\ emitters[i][j] = o /\ emitters[k][l] = o

(* An output is as often in joins as it is in _emit lists.                  *)
Repeats ==
  \A a, b \in 1..Len(joins) : a # b /\ joins[a] = joins[b] =>
    objects[joins[a]].type = "probe" \/ AtTwoPlaces(joins[a])

(* The object that can still close a socket that is open.                   *)
Owned ==
  ~Twice => \A s \in 1..Len(sockets) : sockets[s].open =>
              \E o \in 1..Len(objects) :
                sock[o] = s /\ sockets[s].address \in {None, objects[o].bind}

(* graphyte.init() was last called for the last graphite output there is.   *)
Sender ==
  /\ \A i \in 1..Len(emitters) : \A j \in 1..Len(emitters[i]) :
       objects[emitters[i][j]].type = "graphite" => sender # 0
  /\ sender # 0 =>
       /\ objects[sender].type = "graphite"
       /\ \E k \in 1..Len(emitters) : \E l \in 1..Len(emitters[k]) :
            /\ emitters[k][l] = sender
            /\ \A i \in 1..Len(emitters) : \A j \in 1..Len(emitters[i]) :
                 objects[emitters[i][j]].type = "graphite" => i < k \/ (i = k /\ j <= l)

HostOf(i, host) == \E h \in 1..Len(config.probes[i].hosts) : config.probes[i].hosts[h] = host

(* What a value was stored for and where it went.                           *)
Stored(v) ==
  LET i == v.series[1]
      j == v.series[2]
  IN /\ v.series = <<i, j, v.series[3]>>
     /\ i \in 1..Len(emitters) /\ j \in 1..Len(emitters[i]) /\ HostOf(i, v.series[3])
     /\ v.output = emitters[i][j] /\ objects[v.output].type \in TimeSeries
     /\ v.database = Database(objects[v.output])
     /\ v.file = FileOf(objects[v.output], config.probes[i].name, v.series[3])
     /\ v.second \in Nat /\ (i \notin hasty => v.second <= last[i].second)

HostsOnce(i, rows) ==
  /\ \A r \in 1..Len(rows) : HostOf(i, rows[r].host)
  /\ \A r, q \in 1..Len(rows) : rows[r].host = rows[q].host => r = q

(* The rows of a message that waits for the next cycle of its probe, where  *)
(* it is taken away ahead of the next message.                              *)
Waiting ==
  /\ \A i \in 1..Len(last) : HostsOnce(i, last[i].rows)
  /\ turn # 0 => last[turn].rows = <<>>

(* The rows that an emission has still to store.                            *)
Rows ==
  /\ \A k \in 1..Len(todo) : Len(todo[k].rows) >= 1 /\ HostsOnce(todo[k].probe, todo[k].rows)
  /\ \A k, l \in 1..Len(todo) : todo[k].pos = todo[l].pos => k = l

(* Neither are stored yet, nor is a value that has their second or a later  *)
(* one, if the probe has always let a second go by.                         *)
Fresh ==
  \A v \in values :
    /\ v.series[1] \notin hasty /\ last[v.series[1]].rows # <<>> =>
         v.second < last[v.series[1]].second
    /\ \A k \in 1..Len(todo) : \A r \in 1..Len(todo[k].rows) :
         /\ v.series = <<todo[k].probe, todo[k].pos, todo[k].rows[r].host>>
         /\ todo[k].probe \notin hasty
         => v.second < last[todo[k].probe].second

Storage == Sender /\ (\A v \in values : Stored(v)) /\ Waiting /\ Rows /\ Fresh

-----------------------------------------------------------------------------
LEMMA EmittersGrow ==
  ASSUME TypeOK, TypeOK', Progress, Registry, [Next]_vars
  PROVE  /\ Len(emitters') >= Len(emitters) /\ Len(emitters) \in Nat /\ Len(emitters') \in Nat
         /\ \A i \in 1..Len(emitters) :
              /\ Len(emitters'[i]) >= Len(emitters[i])
              /\ Len(emitters[i]) \in Nat /\ Len(emitters'[i]) \in Nat
              /\ \A j \in 1..Len(emitters[i]) : emitters'[i][j] = emitters[i][j]
<1>1. /\ Len(emitters) \in Nat /\ Len(emitters') \in Nat
      /\ \A i \in 1..Len(emitters) : Len(emitters[i]) \in Nat
      /\ \A i \in 1..Len(emitters') : Len(emitters'[i]) \in Nat
  <2>1. emitters' \in Seq(Seq(1..Len(objects')))
    BY DEF TypeOK
  <2>2. Len(emitters') \in Nat /\ \A i \in 1..Len(emitters') : Len(emitters'[i]) \in Nat
    BY <2>1
  <2> QED BY <2>2, TypeFacts
<1>2. CASE UNCHANGED emitters
  BY <1>1, <1>2
<1>3. CASE GetProbe
  <2>1. Len(emitters') = Len(probes) + 1 /\ \A i \in 1..Len(probes) : emitters'[i] = emitters[i]
    <3>1. /\ Len(emitters') = at[1] /\ Len(probes) = at[1] - 1
          /\ \A i \in 1..Len(probes) : emitters'[i] = emitters[i]
      BY <1>3, GetProbeFacts
    <3> QED BY <1>1, <3>1, TypeFacts
  <2>2. Len(emitters) = Len(probes)
    BY TypeFacts
  <2> QED BY <1>1, <2>1, <2>2
<1>4. CASE GetOutput
  <2>1. at[2] \in Nat /\ Len(emitters[at[1]]) = at[2] - 1
    BY <1>4, OutputCases, TypeFacts
  <2>2. ASSUME NEW o, NEW type, Joined(o, type)
        PROVE  /\ Len(emitters') = Len(emitters)
               /\ \A i \in 1..Len(emitters) :
                    /\ Len(emitters'[i]) >= Len(emitters[i])
                    /\ \A j \in 1..Len(emitters[i]) : emitters'[i][j] = emitters[i][j]
    <3>1. /\ Len(emitters') = Len(emitters)
          /\ \A i \in 1..Len(emitters) :
               /\ Len(emitters'[i]) = IF i = at[1] THEN at[2] ELSE Len(emitters[i])
               /\ \A j \in 1..Len(emitters[i]) : emitters'[i][j] = emitters[i][j]
      BY <2>2 DEF Joined
    <3>2. ASSUME NEW i \in 1..Len(emitters)
          PROVE  Len(emitters'[i]) >= Len(emitters[i])
      <4>1. Len(emitters[i]) \in Nat
        BY <1>1
      <4>2. Len(emitters'[i]) = IF i = at[1] THEN at[2] ELSE Len(emitters[i])
        BY <3>1
      <4>3. CASE i = at[1]
        BY <2>1, <4>2, <4>3
      <4>4. CASE i # at[1]
        BY <4>1, <4>2, <4>4
      <4> QED BY <4>3, <4>4
    <3> QED BY <3>1, <3>2
  <2>3. UNCHANGED emitters \/ \E o, type : Joined(o, type)
    BY <1>4, OutputJoined
  <2>4. CASE UNCHANGED emitters
    BY <1>2, <2>4
  <2>5. CASE \E o, type : Joined(o, type)
    <3>1. PICK o, type : Joined(o, type)
      BY <2>5
    <3>2. /\ Len(emitters') = Len(emitters)
          /\ \A i \in 1..Len(emitters) :
               /\ Len(emitters'[i]) >= Len(emitters[i])
               /\ \A j \in 1..Len(emitters[i]) : emitters'[i][j] = emitters[i][j]
      BY <2>2, <3>1
    <3>3. ASSUME NEW i \in 1..Len(emitters)
          PROVE  /\ Len(emitters'[i]) >= Len(emitters[i])
                 /\ Len(emitters[i]) \in Nat /\ Len(emitters'[i]) \in Nat
                 /\ \A j \in 1..Len(emitters[i]) : emitters'[i][j] = emitters[i][j]
      BY <1>1, <3>2
    <3>4. Len(emitters') >= Len(emitters) /\ Len(emitters) \in Nat /\ Len(emitters') \in Nat
      BY <1>1, <3>2
    <3> QED BY <3>3, <3>4
  <2> QED BY <2>3, <2>4, <2>5
<1> QED BY <1>2, <1>3, <1>4, ConnectOnly

LEMMA TwoPlacesKept ==
  ASSUME TypeOK, TypeOK', Progress, Registry, [Next]_vars, NEW o, AtTwoPlaces(o)
  PROVE  AtTwoPlaces(o)'
<1>1. PICK i \in 1..Len(emitters), k \in 1..Len(emitters) :
        \E j \in 1..Len(emitters[i]), l \in 1..Len(emitters[k]) :
          ~(i = k /\ j = l) /\ emitters[i][j] = o /\ emitters[k][l] = o
  BY DEF AtTwoPlaces
<1>2. PICK j \in 1..Len(emitters[i]), l \in 1..Len(emitters[k]) :
        ~(i = k /\ j = l) /\ emitters[i][j] = o /\ emitters[k][l] = o
  BY <1>1
<1>3. /\ i \in 1..Len(emitters') /\ k \in 1..Len(emitters')
      /\ j \in 1..Len(emitters'[i]) /\ l \in 1..Len(emitters'[k])
      /\ emitters'[i][j] = o /\ emitters'[k][l] = o
  <2>1. /\ Len(emitters') >= Len(emitters) /\ Len(emitters) \in Nat /\ Len(emitters') \in Nat
        /\ \A n \in 1..Len(emitters) :
             /\ Len(emitters'[n]) >= Len(emitters[n])
             /\ Len(emitters[n]) \in Nat /\ Len(emitters'[n]) \in Nat
             /\ \A p \in 1..Len(emitters[n]) : emitters'[n][p] = emitters[n][p]
    BY EmittersGrow
  <2>2. i \in 1..Len(emitters') /\ j \in 1..Len(emitters'[i]) /\ emitters'[i][j] = o
    BY <1>2, <2>1
  <2>3. k \in 1..Len(emitters') /\ l \in 1..Len(emitters'[k]) /\ emitters'[k][l] = o
    BY <1>2, <2>1
  <2> QED BY <2>2, <2>3
<1> QED BY <1>2, <1>3 DEF AtTwoPlaces

LEMMA RepeatsStep ==
  /\ TypeOK /\ TypeOK' /\ Progress /\ Registry /\ Emitters' /\ Joins /\ Repeats
  /\ [Next]_vars
  => Repeats'
<1> SUFFICES ASSUME TypeOK, TypeOK', Progress, Registry, Emitters', Joins, Repeats, [Next]_vars
             PROVE  Repeats'
  OBVIOUS
<1> DEFINE J == Len(joins)
<1>1. J \in Nat /\ \A b \in 1..J : joins[b] \in 1..Len(objects)
  BY TypeFacts
<1>2. \A o \in 1..Len(objects) : objects'[o] = objects[o]
  BY Growth
<1>3. ASSUME NEW a \in 1..J, NEW b \in 1..J, a # b, joins[a] = joins[b],
             NEW o \in 1..Len(objects), o = joins[a]
      PROVE  objects'[o].type = "probe" \/ AtTwoPlaces(o)'
  <2>1. objects[o].type = "probe" \/ AtTwoPlaces(o)
    BY <1>3 DEF Repeats
  <2> QED BY <1>2, <2>1, TwoPlacesKept
<1>4. CASE UNCHANGED joins
  <2> SUFFICES ASSUME NEW a \in 1..J, NEW b \in 1..J, a # b, joins[a] = joins[b]
               PROVE  objects'[joins'[a]].type = "probe" \/ AtTwoPlaces(joins[a])'
    BY <1>4 DEF Repeats
  <2>1. PICK o \in 1..Len(objects) : o = joins[a] /\ o = joins'[a]
    BY <1>1, <1>4
  <2>2. objects'[o].type = "probe" \/ AtTwoPlaces(o)'
    BY <1>3, <2>1
  <2> QED BY <2>1, <2>2, ZenonT(40) DEF AtTwoPlaces
<1>5. ASSUME NEW o \in 1..Len(objects'), Len(joins') = J + 1, joins'[J + 1] = o,
             \A b \in 1..J : joins'[b] = joins[b],
             \A a \in 1..J : joins[a] = o =>
               objects'[o].type = "probe" \/ AtTwoPlaces(o)'
      PROVE  Repeats'
  <2> SUFFICES ASSUME NEW a \in 1..J + 1, NEW b \in 1..J + 1, a # b, joins'[a] = joins'[b]
               PROVE  objects'[joins'[a]].type = "probe" \/ AtTwoPlaces(joins[a])'
    BY <1>5 DEF Repeats
  <2>1. \A c \in 1..J + 1 : c = J + 1 \/ c \in 1..J
    BY <1>1
  <2>2. CASE a = J + 1 \/ b = J + 1
    <3>1. joins'[a] = o
      BY <1>5, <2>2
    <3>2. \E c \in 1..J : joins[c] = o
      BY <1>5, <2>1, <2>2
    <3>3. objects'[o].type = "probe" \/ AtTwoPlaces(o)'
      BY <1>5, <3>2
    <3> QED BY <3>1, <3>3 DEF AtTwoPlaces
  <2>3. CASE a # J + 1 /\ b # J + 1
    <3>1. a \in 1..J /\ b \in 1..J
      BY <2>1, <2>3
    <3>2. PICK p \in 1..Len(objects) : p = joins[a] /\ p = joins'[a] /\ p = joins[b]
      BY <1>1, <1>5, <3>1
    <3>3. objects'[p].type = "probe" \/ AtTwoPlaces(p)'
      BY <1>3, <3>1, <3>2
    <3> QED BY <3>2, <3>3 DEF AtTwoPlaces
  <2> QED BY <2>2, <2>3
<1>6. CASE GetOutput
  <2>1. /\ at[2] \in Nat \ {0} /\ at[1] \in 1..Len(emitters)
        /\ Len(emitters[at[1]]) = at[2] - 1
    BY <1>6, OutputCases
  <2>2. CASE \E o \in 1..Len(objects'), type \in Type : Joined(o, type)
    <3>1. PICK o \in 1..Len(objects'), type \in Type : Joined(o, type)
      BY <2>2
    <3>2. /\ Len(joins') = J + 1 /\ joins'[J + 1] = o /\ \A b \in 1..J : joins'[b] = joins[b]
          /\ Len(emitters') = Len(emitters) /\ emitters'[at[1]][at[2]] = o
          /\ Len(emitters'[at[1]]) = at[2]
      BY <2>1, <3>1 DEF Joined
    <3>3. ASSUME NEW a \in 1..J, joins[a] = o
          PROVE  objects'[o].type = "probe" \/ AtTwoPlaces(o)'
      <4>1. CASE objects[joins[a]].type = "probe"
        BY <1>1, <1>2, <3>3, <4>1
      <4>2. CASE \E i \in 1..Len(emitters) : \E j \in 1..Len(emitters[i]) :
                   joins[a] = emitters[i][j]
        <5>1. PICK i \in 1..Len(emitters) : \E j \in 1..Len(emitters[i]) : o = emitters[i][j]
          BY <3>3, <4>2
        <5>2. PICK j \in 1..Len(emitters[i]) : o = emitters[i][j]
          BY <5>1
        <5>3. i \in 1..Len(emitters') /\ j \in 1..Len(emitters'[i]) /\ o = emitters'[i][j]
          BY <5>2, EmittersGrow
        <5>4. ~(i = at[1] /\ j = at[2])
          BY <2>1, <5>2
        <5>5. at[1] \in 1..Len(emitters') /\ at[2] \in 1..Len(emitters'[at[1]])
          <6>1. at[2] \in 1..at[2] /\ at[1] \in 1..Len(emitters)
            BY <2>1
          <6> QED BY <3>2, <6>1
        <5> QED BY <3>2, <5>3, <5>4, <5>5 DEF AtTwoPlaces
      <4> QED BY <4>1, <4>2 DEF Joins
    <3> QED BY <1>5, <3>2, <3>3
  <2> QED BY <1>4, <1>6, <2>2, OutputJoined
<1>7. CASE StartProbe
  <2> DEFINE m == at[1]
  <2>1. /\ m = Len(probes) /\ m \in 1..Len(probes) /\ joins' = Append(joins, probes[m])
        /\ UNCHANGED <<objects, probes>>
    <3>1. /\ m = Len(probes) /\ joins' = Append(joins, probes[m])
          /\ UNCHANGED <<objects, probes>> /\ m \in 1..Len(config.probes)
      BY <1>7, StartProbeFacts
    <3> QED BY <3>1, TypeFacts
  <2>2. joins \in Seq(1..Len(objects)) /\ probes[m] \in 1..Len(objects)
    BY <2>1, TypeFacts DEF TypeOK
  <2>3. PICK o \in 1..Len(objects') : o = probes[m]
    BY <2>1, <2>2
  <2>4. Len(joins') = J + 1 /\ joins'[J + 1] = o /\ \A b \in 1..J : joins'[b] = joins[b]
    BY <2>1, <2>2, <2>3
  <2>5. objects'[o].type = "probe"
    BY <2>1, <2>3 DEF Emitters
  <2> QED BY <1>5, <2>4, <2>5
<1>8. CASE GetProbe
  BY <1>4, <1>8, GetProbeFacts
<1> QED BY <1>4, <1>6, <1>7, <1>8, ConnectOnly

-----------------------------------------------------------------------------
LEMMA IntervalFinite ==
  ASSUME NEW n \in Nat
  PROVE  IsFiniteSet(1..n)
<1>1. 1 \in Int /\ n \in Int
  OBVIOUS
<1> QED BY <1>1, FS_Interval

LEMMA PlacesFinite ==
  ASSUME TypeOK
  PROVE  IsFiniteSet(Places)
<1> DEFINE PlacesOf(i) == {<<i, j>> : j \in 1..Len(config.probes[i].outputs)}
           All == {PlacesOf(i) : i \in 1..Len(config.probes)}
<1>1. /\ Len(config.probes) \in Nat
      /\ \A i \in 1..Len(config.probes) : Len(config.probes[i].outputs) \in Nat
  BY ConfigFacts
<1>2. ASSUME NEW i \in 1..Len(config.probes) PROVE IsFiniteSet(PlacesOf(i))
  <2> DEFINE S == 1..Len(config.probes[i].outputs)
  <2>1. IsFiniteSet(S)
    BY <1>1, IntervalFinite
  <2>2. IsFiniteSet({i})
    BY FS_Singleton
  <2>3. PlacesOf(i) \subseteq {i} \X S
    OBVIOUS
  <2> HIDE DEF S, PlacesOf
  <2>4. IsFiniteSet({i} \X S)
    BY <2>1, <2>2, FS_Product
  <2> QED BY <2>3, <2>4, FS_Subset
<1>3. IsFiniteSet(1..Len(config.probes))
  BY <1>1, IntervalFinite
<1>4. IsFiniteSet(All)
  <2> DEFINE S == 1..Len(config.probes)
             f == [i \in S |-> PlacesOf(i)]
  <2> HIDE DEF PlacesOf
  <2>1. f \in Surjection(S, All)
    BY DEF Surjection
  <2> HIDE DEF f, S, All
  <2> QED BY <1>3, <2>1, FS_Surjection DEF S
<1>5. IsFiniteSet(UNION All)
  <2> HIDE DEF PlacesOf
  <2>1. \A S \in All : IsFiniteSet(S)
    BY <1>2
  <2> QED BY <1>4, <2>1, FS_UNION
<1> QED BY <1>5 DEF Places

LEMMA TwoElements ==
  ASSUME NEW S, IsFiniteSet(S), NEW x \in S, NEW y \in S, x # y
  PROVE  Cardinality(S) > 1
<1>1. IsFiniteSet({x}) /\ Cardinality({x}) = 1
  BY FS_Singleton
<1>2. Cardinality({x} \cup {y}) = 2
  BY <1>1, FS_AddElement
<1>3. {x} \cup {y} \subseteq S
  OBVIOUS
<1>4. Cardinality({x} \cup {y}) <= Cardinality(S) /\ Cardinality(S) \in Nat
  BY <1>3, FS_Subset, FS_CardinalityType
<1> QED BY <1>2, <1>4

(* An output that was made from a plugin is that plugin.                    *)
LEMMA NamedPlugin ==
  ASSUME TypeOK, Registry, Emitters, NEW i \in 1..Len(emitters), NEW j \in 1..Len(emitters[i]),
         objects[emitters[i][j]].type \in NeedsConfig
  PROVE  /\ emitters[i][j] \in 1..Len(config.plugins)
         /\ IsThe(emitters[i][j], config.probes[i].outputs[j])
         /\ objects[emitters[i][j]] = config.plugins[emitters[i][j]]
<1>1. emitters[i][j] \in 1..Len(objects)
  BY TypeFacts
<1>2. ~Made(emitters[i][j])
  BY <1>1 DEF Registry
<1>3. IsThe(emitters[i][j], config.probes[i].outputs[j])
  BY <1>2 DEF Emitters
<1> QED BY <1>1, <1>2, <1>3 DEF Registry, IsThe

LEMMA PlaceIn ==
  ASSUME TypeOK, Progress, NEW i \in 1..Len(emitters), NEW j \in 1..Len(emitters[i])
  PROVE  <<i, j>> \in Places /\ i \in 1..Len(config.probes)
<1>1. /\ i \in 1..Len(config.probes) /\ Len(emitters[i]) <= Len(config.probes[i].outputs)
      /\ Len(emitters[i]) \in Nat
  BY ProbesWithin, TypeFacts
<1>2. j \in 1..Len(config.probes[i].outputs)
  <2>1. Len(config.probes[i].outputs) \in Nat
    BY <1>1, ConfigFacts
  <2> QED BY <1>1, <2>1
<1> QED BY <1>1, <1>2 DEF Places

(* A zeromq output at two places is one that the config names twice.        *)
LEMMA TwoPlacesTwice ==
  ASSUME TypeOK, Progress, Registry, Emitters, NEW o \in 1..Len(objects),
         objects[o].type = "zeromq", AtTwoPlaces(o)
  PROVE  Twice
<1>1. PICK i \in 1..Len(emitters), k \in 1..Len(emitters) :
        \E j \in 1..Len(emitters[i]), l \in 1..Len(emitters[k]) :
          ~(i = k /\ j = l) /\ emitters[i][j] = o /\ emitters[k][l] = o
  BY DEF AtTwoPlaces
<1>2. PICK j \in 1..Len(emitters[i]), l \in 1..Len(emitters[k]) :
        ~(i = k /\ j = l) /\ emitters[i][j] = o /\ emitters[k][l] = o
  BY <1>1
<1>3. "zeromq" \in NeedsConfig
  BY DEF NeedsConfig
<1>4. /\ o \in 1..Len(config.plugins) /\ objects[o] = config.plugins[o]
      /\ config.plugins[o].name = config.probes[i].outputs[j]
      /\ config.plugins[o].name = config.probes[k].outputs[l]
  <2>1. objects[emitters[i][j]].type \in NeedsConfig /\ objects[emitters[k][l]].type \in NeedsConfig
    BY <1>2, <1>3
  <2>2. o \in 1..Len(config.plugins) /\ objects[o] = config.plugins[o]
        /\ IsThe(o, config.probes[i].outputs[j])
    BY <1>2, <2>1, NamedPlugin
  <2>3. IsThe(o, config.probes[k].outputs[l])
    BY <1>2, <2>1, NamedPlugin
  <2> QED BY <2>2, <2>3 DEF IsThe
<1>5. <<i, j>> \in Places /\ <<k, l>> \in Places
  BY PlaceIn
<1> DEFINE name == config.plugins[o].name
<1>6. <<i, j>> \in Named(name) /\ <<k, l>> \in Named(name) /\ <<i, j>> # <<k, l>>
  BY <1>2, <1>4, <1>5 DEF Named
<1>7. IsFiniteSet(Named(name))
  <2>1. Named(name) \subseteq Places
    BY DEF Named
  <2> HIDE DEF name
  <2> QED BY <2>1, PlacesFinite, FS_Subset
<1>8. Cardinality(Named(name)) > 1
  <2> HIDE DEF name
  <2> QED BY <1>6, <1>7, TwoElements
<1>9. config.plugins[o] \in ToSet(config.plugins)
  <2>1. config.plugins \in Seq(Object)
    BY ConfigFacts
  <2> QED BY <1>4, <2>1 DEF ToSet
<1> QED BY <1>4, <1>8, <1>9 DEF Twice

(* A zeromq object that begins has no socket yet, but for one named twice.  *)
LEMMA FirstSocket ==
  ASSUME TypeOK, Progress, Registry, Emitters, Begun, Repeats, ~Twice,
         begun < Len(joins), NEW o \in 1..Len(objects), o = joins[begun + 1],
         objects[o].type = "zeromq"
  PROVE  sock[o] = 0
<1>1. SUFFICES ASSUME sock[o] # 0 PROVE FALSE
  OBVIOUS
<1>2. PICK b \in 1..begun : joins[b] = o
  BY <1>1 DEF Begun
<1>3. b # begun + 1 /\ b \in 1..Len(joins) /\ begun + 1 \in 1..Len(joins)
  <2>1. begun \in Nat /\ Len(joins) \in Nat
    BY TypeFacts
  <2> QED BY <2>1
<1>4. AtTwoPlaces(o)
  <2>1. objects[joins[b]].type = "probe" \/ AtTwoPlaces(joins[b])
    BY <1>2, <1>3 DEF Repeats
  <2> QED BY <1>2, <2>1
<1> QED BY <1>4, TwoPlacesTwice

(* A new socket is the one that its object refers to, and the others keep   *)
(* theirs.                                                                  *)
LEMMA OwnedStep ==
  /\ TypeOK /\ TypeOK' /\ Progress /\ Registry /\ Emitters /\ Begun /\ Repeats /\ Owned
  /\ [Next]_vars
  => Owned'
<1> SUFFICES ASSUME TypeOK, TypeOK', Progress, Registry, Emitters, Begun, Repeats, Owned,
                    [Next]_vars
             PROVE  Owned'
  OBVIOUS
<1> SUFFICES ASSUME ~Twice
             PROVE  \A s \in 1..Len(sockets') : sockets'[s].open =>
                      \E o \in 1..Len(objects') :
                        sock'[o] = s /\ sockets'[s].address \in {None, objects'[o].bind}
  <2>1. config' = config
    BY Growth
  <2> QED BY <2>1 DEF Owned, Twice, Named, Places
<1> USE DEF configVars, connectVars, socketVars, vodkaVars, cycleVars, messageVars, storeVars
<1>1. /\ Len(objects) \in Nat /\ Len(objects') \in Nat /\ Len(objects') >= Len(objects)
      /\ \A o \in 1..Len(objects) : objects'[o] = objects[o]
  <2>1. Len(objects') \in Nat
    BY DEF TypeOK
  <2> QED BY <2>1, Growth, TypeFacts
<1>2. \A s \in 1..Len(sockets) : sockets[s].open =>
        \E o \in 1..Len(objects) : sock[o] = s /\ sockets[s].address \in {None, objects[o].bind}
  BY DEF Owned
<1>3. ASSUME Len(sockets') = Len(sockets),
             \A s \in 1..Len(sockets) : /\ sockets'[s].address = sockets[s].address
                                        /\ sockets'[s].open => sockets[s].open,
             \A o \in 1..Len(objects) : sock'[o] = sock[o],
             NEW s \in 1..Len(sockets'), sockets'[s].open
      PROVE  \E o \in 1..Len(objects') :
               sock'[o] = s /\ sockets'[s].address \in {None, objects'[o].bind}
  <2>1. sockets'[s].address = sockets[s].address /\ sockets[s].open
    BY <1>3
  <2>2. PICK o \in 1..Len(objects) :
          sock[o] = s /\ sockets[s].address \in {None, objects[o].bind}
    BY <1>2, <1>3, <2>1
  <2>3. o \in 1..Len(objects')
    BY <1>1
  <2> QED BY <1>1, <1>3, <2>1, <2>2, <2>3
<1>4. CASE OnStart
  <2>1. PICK o \in 1..Len(objects) : o = joins[begun + 1]
    <3>1. begun < Len(joins) /\ begun \in Nat /\ Len(joins) \in Nat
      BY <1>4, TypeFacts DEF OnStart
    <3>2. begun + 1 \in 1..Len(joins)
      BY <3>1
    <3>3. joins[begun + 1] \in 1..Len(objects)
      BY <3>2, TypeFacts
    <3> QED BY <3>3
  <2>2. CASE objects[o].type # "zeromq"
    <3>1. UNCHANGED <<sock, sockets>>
      BY <1>4, <2>1, <2>2 DEF OnStart
    <3> QED BY <1>3, <3>1
  <2>3. CASE objects[o].type = "zeromq"
    <3>1. OpenSocket(o)
      BY <1>4, <2>1, <2>3, OnStartCases
    <3>10. begun < Len(joins) /\ UNCHANGED objects
      BY <1>4 DEF OnStart, configVars
    <3>2. sock[o] = 0
      BY <2>1, <2>3, <3>10, FirstSocket
    <3>3. /\ Len(sockets') = Len(sockets) + 1 /\ Len(sockets) \in Nat
          /\ \A p \in 1..Len(objects) :
               sock'[p] = IF p = o THEN Len(sockets) + 1 ELSE sock[p]
          /\ \A s \in 1..Len(sockets) : s # sock[o] => sockets'[s] = sockets[s]
          /\ sockets'[Len(sockets) + 1].address \in {None, objects[o].bind}
      BY <3>1, OpenSocketFacts
    <3>4. ASSUME NEW s \in 1..Len(sockets'), sockets'[s].open
          PROVE  \E p \in 1..Len(objects') :
                   sock'[p] = s /\ sockets'[s].address \in {None, objects'[p].bind}
      <4>1. CASE s = Len(sockets) + 1
        BY <1>1, <3>3, <4>1
      <4>2. CASE s # Len(sockets) + 1
        <5>1. s \in 1..Len(sockets) /\ s # 0
          BY <3>3, <4>2
        <5>2. sockets'[s] = sockets[s]
          BY <3>2, <3>3, <5>1
        <5>3. PICK p \in 1..Len(objects) :
                sock[p] = s /\ sockets[s].address \in {None, objects[p].bind}
          BY <1>2, <3>4, <5>1, <5>2
        <5>4. p # o
          BY <3>2, <5>1, <5>3
        <5> QED BY <3>3, <3>10, <5>2, <5>3, <5>4
      <4> QED BY <4>1, <4>2
    <3> QED BY <3>4
  <2> QED BY <2>2, <2>3
<1>5. CASE OnStop
  <2>1. UNCHANGED sock /\ Len(sockets') = Len(sockets)
        /\ \A s \in 1..Len(sockets) : /\ sockets'[s].address = sockets[s].address
                                      /\ sockets'[s].open => sockets[s].open
    BY <1>5, OnStopFacts
  <2>2. \A o \in 1..Len(objects) : sock'[o] = sock[o]
    BY <2>1
  <2> HIDE DEF configVars, connectVars, socketVars, vodkaVars, cycleVars, messageVars, storeVars
  <2> QED BY <1>3, <2>1, <2>2
<1>6. ASSUME UNCHANGED sockets, \A o \in 1..Len(objects) : sock'[o] = sock[o]
      PROVE  \A s \in 1..Len(sockets') : sockets'[s].open =>
               \E o \in 1..Len(objects') :
                 sock'[o] = s /\ sockets'[s].address \in {None, objects'[o].bind}
  BY <1>3, <1>6
<1>7. CASE Instantiate
  <2>1. ASSUME NEW plugin \in Object, NEW name \in Names, NewPlugin(plugin, name)
        PROVE  \A o \in 1..Len(objects) : sock'[o] = sock[o]
    BY <2>1, NewPluginFacts
  <2>2. UNCHANGED sockets /\ \A o \in 1..Len(objects) : sock'[o] = sock[o]
    BY <1>7, <2>1, InstantiateFacts
  <2> QED BY <1>6, <2>2
<1>8. CASE GetProbe
  BY <1>6, <1>8, GetProbeFacts
<1>9. CASE GetOutput
  <2>1. UNCHANGED sockets
    BY <1>9, OutputCases
  <2>2. ASSUME NEW type \in Type \ NeedsConfig, NewPlugin([NoPlugin EXCEPT !.type = type], None)
        PROVE  \A o \in 1..Len(objects) : sock'[o] = sock[o]
    <3>1. [NoPlugin EXCEPT !.type = type] \in Object /\ None \in Names \cup {None}
      BY NoPluginFacts
    <3> QED BY <2>2, <3>1, NewPluginFacts
  <2>3. \A o \in 1..Len(objects) : sock'[o] = sock[o]
    BY <1>9, <2>2, OutputCases
  <2> QED BY <1>6, <2>1, <2>3
<1>10. CASE EmitVodka
  <2>1. UNCHANGED sockets /\ \A o \in 1..Len(objects) : sock'[o] = sock[o]
    <3>1. /\ UNCHANGED sockets /\ Len(config.probes) \in Nat
          /\ \/ UNCHANGED sock
             \/ \A p \in 1..Len(objects) + Len(config.probes) :
                  sock'[p] = IF p <= Len(objects) THEN sock[p] ELSE 0
      BY <1>10, VodkaCases
    <3> QED BY <1>1, <3>1
  <2> QED BY <1>6, <2>1
<1>11. CASE EmitZeroMQ \/ EmitPrometheus \/ EmitRow
  BY <1>6, <1>11, OtherEmits
<1>12. CASE EmitAll \/ Message
  BY <1>6, <1>12 DEF EmitAll, Message
<1>13. CASE CheckNames \/ StartProbe \/ Connected \/ Tick \/ Interrupt \/ Terminate
  BY <1>6, <1>13 DEF CheckNames, StartProbe, Connected, Tick, Interrupt, Terminate
<1>14. CASE UNCHANGED vars
  BY <1>6, <1>14 DEF vars
<1> QED
  BY <1>4, <1>5, <1>7, <1>8, <1>9, <1>10, <1>11, <1>12, <1>13, <1>14
  DEF Next, Connect, Emit

(* Two plugins of the config that bind the same address.                    *)
SameAddress ==
  LET address(k) == IF config.plugins[k].type = "zeromq" THEN config.plugins[k].bind ELSE None
  IN \E k, l \in 1..Len(config.plugins) :
       k # l /\ address(k) # None /\ address(k) = address(l)

(* An address is taken by a socket of another object.                       *)
LEMMA TakenBy ==
  ASSUME TypeOK, Progress, Registry, Emitters, Begun, Repeats, Owned, ~Twice,
         OnStart, error # "taken", error' = "taken"
  PROVE  SameAddress
<1>1. PICK o \in 1..Len(objects) : o = joins[begun + 1] /\ begun < Len(joins)
  <2>1. begun < Len(joins) /\ begun \in Nat /\ Len(joins) \in Nat
    BY TypeFacts DEF OnStart
  <2>2. begun + 1 \in 1..Len(joins)
    BY <2>1
  <2>3. joins[begun + 1] \in 1..Len(objects)
    BY <2>2, TypeFacts
  <2> QED BY <2>1, <2>3
<1>2. objects[o].type = "zeromq" /\ OpenSocket(o)
  BY <1>1 DEF OnStart, OpenSocket
<1>3. PICK s \in 1..Len(sockets) :
        objects[o].bind # None /\ sockets[s].open /\ sockets[s].address = objects[o].bind
  BY <1>2, OpenSocketFacts
<1>4. PICK p \in 1..Len(objects) :
        sock[p] = s /\ sockets[s].address \in {None, objects[p].bind}
  BY <1>3 DEF Owned
<1>5. s # 0 /\ sock[o] = 0
  <2>1. Len(sockets) \in Nat
    BY TypeFacts
  <2> QED BY <1>1, <1>2, <2>1, FirstSocket
<1>6. p # o /\ objects[p].type = "zeromq" /\ objects[p].bind = objects[o].bind
  BY <1>3, <1>4, <1>5 DEF Begun
<1>7. \A q \in 1..Len(objects) : objects[q].type = "zeromq" =>
        q \in 1..Len(config.plugins) /\ objects[q] = config.plugins[q]
  <2>1. SUFFICES ASSUME NEW q \in 1..Len(objects), objects[q].type = "zeromq"
                 PROVE  q \in 1..Len(config.plugins) /\ objects[q] = config.plugins[q]
    OBVIOUS
  <2>2. objects[q].type \in NeedsConfig
    BY <2>1 DEF NeedsConfig
  <2>3. ~Made(q) /\ objects[q] = config.plugins[q]
    BY <2>2 DEF Registry
  <2>4. Len(objects) \in Nat /\ Len(config.plugins) \in Nat
    BY TypeFacts, ConfigFacts
  <2> QED BY <2>3, <2>4 DEF Made
<1>8. /\ o \in 1..Len(config.plugins) /\ p \in 1..Len(config.plugins)
      /\ objects[o] = config.plugins[o] /\ objects[p] = config.plugins[p]
  BY <1>2, <1>6, <1>7
<1>9. /\ config.plugins[o].type = "zeromq" /\ config.plugins[p].type = "zeromq"
      /\ config.plugins[o].bind = config.plugins[p].bind /\ config.plugins[o].bind # None
  BY <1>2, <1>3, <1>6, <1>8
<1> QED BY <1>6, <1>8, <1>9 DEF SameAddress

(* It ends over on_stop(), by a signal that kills it, by an exception under *)
(* start(), or before it has a socket.                                      *)
LEMMA HowItEnds ==
  ASSUME TypeOK, Wiring, [Next]_vars, stage # "ended", stage' = "ended"
  PROVE  \/ OnStop \/ ~config.foreground \/ error' = "killed"
         \/ sockets = <<>> /\ UNCHANGED sockets
<1> USE DEF configVars, connectVars, socketVars, vodkaVars, cycleVars, messageVars, storeVars
<1>1. Progress /\ Begun
  BY DEF Wiring
<1>2. ASSUME NEW what, Raise(what) PROVE ~config.foreground
  BY <1>2 DEF Raise
<1>3. CASE Instantiate \/ CheckNames
  <2>1. stage = "plugins" /\ UNCHANGED sockets
    BY <1>3 DEF Instantiate, CheckNames
  <2> QED BY <1>1, <2>1 DEF Progress
<1>4. CASE GetProbe \/ StartProbe \/ Tick \/ EmitAll \/ Message \/ UNCHANGED vars
  BY <1>4 DEF GetProbe, StartProbe, Tick, EmitAll, Message, vars
<1>5. CASE GetOutput \/ Connected \/ OnStart
  BY <1>2, <1>5 DEF GetOutput, Join, Connected, OnStart, OpenSocket
<1>6. CASE EmitZeroMQ \/ EmitPrometheus \/ EmitVodka \/ EmitRow
  BY <1>2, <1>6
  DEF EmitZeroMQ, EmitPrometheus, EmitVodka, EmitRow, Store, Done, NextRow, Fails
<1>7. CASE Interrupt \/ Terminate
  BY <1>7, SignalFacts
<1> QED BY <1>3, <1>4, <1>5, <1>6, <1>7 DEF Next, Connect, Emit

LEMMA SocketsStep ==
  /\ TypeOK /\ Wiring /\ Repeats /\ Owned /\ SocketsGivenBack /\ [Next]_vars
  => SocketsGivenBack'
<1> SUFFICES ASSUME TypeOK, Wiring, Repeats, Owned, SocketsGivenBack, [Next]_vars
             PROVE  SocketsGivenBack'
  OBVIOUS
<1> USE DEF configVars, connectVars, socketVars, vodkaVars, cycleVars, messageVars, storeVars
<1>1. Progress /\ Registry /\ Emitters /\ Joins /\ Begun
  BY DEF Wiring
<1>2. config' = config
  BY <1>1, Growth
<1> DEFINE Shut == \A s \in 1..Len(sockets) : ~sockets[s].open
           Proper == config.foreground /\ error \notin {"killed", "cut"}
<1>3. /\ stage = "ended" /\ Proper /\ ~Twice => Shut
      /\ error = "taken" => Twice \/ SameAddress
  BY DEF SocketsGivenBack, Twice, SameAddress
<1>4. Twice' = Twice /\ SameAddress' = SameAddress
  BY <1>2 DEF Twice, SameAddress, Named, Places
<1>5. ASSUME OnStop, Proper', ~Twice PROVE Shut'
  <2>1. /\ error' # "cut" /\ Len(sockets') = Len(sockets)
        /\ \A s \in 1..Len(sockets) :
             /\ sockets'[s].open => sockets[s].open
             /\ error' # "cut" => \A b \in 1..Len(joins) : sock[joins[b]] = s =>
                                    ~sockets'[s].open
    BY <1>5, OnStopFacts
  <2>2. ASSUME NEW s \in 1..Len(sockets), sockets'[s].open PROVE FALSE
    <3>1. sockets[s].open
      BY <2>1, <2>2
    <3>2. PICK o \in 1..Len(objects) : sock[o] = s
      BY <1>5, <3>1 DEF Owned
    <3>3. s # 0
      BY TypeFacts
    <3>4. PICK b \in 1..begun : joins[b] = o
      BY <1>1, <3>2, <3>3 DEF Begun
    <3>5. b \in 1..Len(joins)
      <4>1. begun \in 0..Len(joins) /\ Len(joins) \in Nat
        BY TypeFacts
      <4> QED BY <4>1
    <3> QED BY <2>1, <2>2, <3>2, <3>4, <3>5
  <2> QED BY <2>1, <2>2
<1>6. ASSUME stage' = "ended", Proper', ~Twice PROVE Shut'
  <2>1. CASE stage = "ended"
    <3>1. UNCHANGED vars
      BY <1>1, <2>1, Ended
    <3> QED BY <1>2, <1>3, <1>6, <2>1, <3>1 DEF vars
  <2>2. CASE stage # "ended"
    <3>1. OnStop \/ (sockets = <<>> /\ UNCHANGED sockets)
      BY <1>2, <1>6, <2>2, HowItEnds
    <3> QED BY <1>5, <1>6, <3>1
  <2> QED BY <2>1, <2>2
<1>7. error' = "taken" => Twice \/ SameAddress
  <2> HIDE DEF Shut, Proper
  <2>1. CASE OnStart
    BY <1>1, <1>3, <2>1, TakenBy
  <2>2. CASE error' \in {error, "port", "config", "mismatch", "vodka", "unready", "refused", "bare",
                         "killed", "cut"} \/ error' = None
    BY <1>3, <2>2 DEF None
  <2>3. CASE Instantiate \/ GetOutput
    BY <2>2, <2>3, InstantiateFacts, <1>1, OutputCases DEF Join
  <2>4. CASE \/ CheckNames \/ GetProbe \/ StartProbe \/ Connected \/ Tick \/ EmitAll
             \/ Message \/ UNCHANGED vars
    BY <2>2, <2>4 DEF CheckNames, GetProbe, StartProbe, Connected, Tick, EmitAll, Message,
                      vars, Raise, Refuse
  <2>5. CASE EmitVodka \/ EmitZeroMQ \/ EmitPrometheus \/ EmitRow
    BY <2>2, <2>5, VodkaCases, OtherEmits
  <2>6. CASE Interrupt \/ Terminate \/ OnStop
    BY <2>2, <2>6, SignalFacts, OnStopFacts
  <2> QED BY <2>1, <2>3, <2>4, <2>5, <2>6 DEF Next, Connect, Emit
<1>8. /\ stage' = "ended" /\ Proper' /\ ~Twice' => Shut'
      /\ error' = "taken" => Twice' \/ SameAddress'
  BY <1>4, <1>6, <1>7
<1> QED BY <1>8 DEF SocketsGivenBack, Twice, SameAddress

(* In the foreground, zeromq's sockets are closed when the daemon has ended,*)
(* unless it was killed, an on_stop() was cut short, or the config names one*)
(* such output twice; and none finds its address in use, unless it is named *)
(* twice or two have the same.                                              *)
THEOREM SocketsAreGivenBack == Spec => []SocketsGivenBack
<1>1. Init => Repeats /\ Owned /\ SocketsGivenBack
  <2> SUFFICES ASSUME Init PROVE Repeats /\ Owned /\ SocketsGivenBack
    OBVIOUS
  <2>1. /\ stage = "plugins" /\ error = None /\ joins = <<>> /\ sockets = <<>>
    BY DEF Init
  <2> QED BY <2>1 DEF Repeats, Owned, SocketsGivenBack, None
<1>2. TypeOK /\ TypeOK' /\ Wiring /\ Wiring' /\ Repeats /\ Owned /\ [Next]_vars
        => Repeats' /\ Owned'
  BY RepeatsStep, OwnedStep DEF Wiring
<1> QED BY <1>1, <1>2, WiringHolds, SocketsStep, PTL DEF Spec

-----------------------------------------------------------------------------
LEMMA SenderStep ==
  TypeOK /\ TypeOK' /\ Progress /\ Registry /\ Sender /\ [Next]_vars => Sender'
<1> SUFFICES ASSUME TypeOK, TypeOK', Progress, Registry, Sender, [Next]_vars PROVE Sender'
  OBVIOUS
<1> DEFINE Graphite(o) == objects[o].type = "graphite"
<1>1. /\ \A o \in 1..Len(objects) : objects'[o] = objects[o]
      /\ sender \in 0..Len(objects) /\ Len(objects) \in Nat
      /\ Len(emitters) \in Nat /\ Len(emitters) = Len(probes)
      /\ \A i \in 1..Len(emitters) : Len(emitters[i]) \in Nat
      /\ \A i \in 1..Len(emitters) : \A j \in 1..Len(emitters[i]) :
           emitters[i][j] \in 1..Len(objects)
  <2>1. sender \in 0..Len(objects)
    BY DEF TypeOK
  <2> QED BY <2>1, Growth, TypeFacts
<1>2. \A i \in 1..Len(emitters) : \A j \in 1..Len(emitters[i]) :
        Graphite(emitters[i][j]) => sender # 0
  BY DEF Sender
<1>3. ASSUME UNCHANGED sender,
             \A i \in 1..Len(emitters') : \A j \in 1..Len(emitters'[i]) :
               objects'[emitters'[i][j]].type = "graphite" =>
                 /\ i \in 1..Len(emitters) /\ j \in 1..Len(emitters[i])
                 /\ emitters'[i][j] = emitters[i][j]
      PROVE  Sender'
  <2>1. ASSUME NEW i \in 1..Len(emitters'), NEW j \in 1..Len(emitters'[i]),
               objects'[emitters'[i][j]].type = "graphite"
        PROVE  /\ i \in 1..Len(emitters) /\ j \in 1..Len(emitters[i])
               /\ Graphite(emitters[i][j]) /\ sender' # 0
    <3>1. /\ i \in 1..Len(emitters) /\ j \in 1..Len(emitters[i])
          /\ emitters'[i][j] = emitters[i][j]
      BY <1>3, <2>1
    <3>2. objects'[emitters[i][j]] = objects[emitters[i][j]]
      BY <1>1, <3>1
    <3>3. Graphite(emitters[i][j])
      BY <2>1, <3>1, <3>2
    <3> QED BY <1>2, <1>3, <3>1, <3>3
  <2>2. ASSUME sender # 0
        PROVE  /\ objects'[sender'].type = "graphite"
               /\ \E k \in 1..Len(emitters') : \E l \in 1..Len(emitters'[k]) :
                    /\ emitters'[k][l] = sender'
                    /\ \A i \in 1..Len(emitters') : \A j \in 1..Len(emitters'[i]) :
                         objects'[emitters'[i][j]].type = "graphite" =>
                           i < k \/ (i = k /\ j <= l)
    <3>1. sender \in 1..Len(objects) /\ objects[sender].type = "graphite"
      BY <1>1, <2>2 DEF Sender
    <3>2. PICK k \in 1..Len(emitters) : \E l \in 1..Len(emitters[k]) :
            /\ emitters[k][l] = sender
            /\ \A i \in 1..Len(emitters) : \A j \in 1..Len(emitters[i]) :
                 Graphite(emitters[i][j]) => i < k \/ (i = k /\ j <= l)
      BY <2>2 DEF Sender
    <3>3. PICK l \in 1..Len(emitters[k]) :
            /\ emitters[k][l] = sender
            /\ \A i \in 1..Len(emitters) : \A j \in 1..Len(emitters[i]) :
                 Graphite(emitters[i][j]) => i < k \/ (i = k /\ j <= l)
      BY <3>2
    <3>4. k \in 1..Len(emitters') /\ l \in 1..Len(emitters'[k]) /\ emitters'[k][l] = emitters[k][l]
      BY EmittersGrow
    <3>5. \A i \in 1..Len(emitters') : \A j \in 1..Len(emitters'[i]) :
            objects'[emitters'[i][j]].type = "graphite" => i < k \/ (i = k /\ j <= l)
      BY <2>1, <3>3
    <3> QED BY <1>1, <1>3, <3>1, <3>3, <3>4, <3>5
  <2> QED BY <1>3, <2>1, <2>2 DEF Sender
<1>4. CASE UNCHANGED <<emitters, sender>>
  BY <1>1, <1>3, <1>4
<1>5. CASE GetProbe
  <2>1. /\ UNCHANGED sender /\ Len(emitters') = at[1] /\ emitters'[at[1]] = <<>>
        /\ Len(probes) = at[1] - 1 /\ \A i \in 1..Len(probes) : emitters'[i] = emitters[i]
    BY <1>5, GetProbeFacts
  <2>2. at[1] \in Nat \ {0}
    BY TypeFacts
  <2>3. \A i \in 1..Len(emitters') :
          \/ i \in 1..Len(emitters) /\ emitters'[i] = emitters[i]
          \/ Len(emitters'[i]) = 0
    BY <1>1, <2>1, <2>2
  <2> QED BY <1>3, <2>1, <2>3
<1>6. CASE GetOutput
  <2>1. /\ at[2] \in Nat \ {0} /\ Len(emitters) = at[1] /\ at[1] \in 1..Len(emitters)
        /\ Len(emitters[at[1]]) = at[2] - 1
    BY <1>6, OutputCases
  <2>2. CASE \E o \in 1..Len(objects'), type \in Type :
               objects'[o].type = type /\ Joined(o, type)
    <3>1. PICK o \in 1..Len(objects'), type \in Type :
               objects'[o].type = type /\ Joined(o, type)
      BY <2>2
    <3>2. /\ Len(emitters') = Len(emitters) /\ emitters'[at[1]][at[2]] = o
          /\ sender' = IF type = "graphite" THEN o ELSE sender
          /\ \A i \in 1..Len(emitters) :
               /\ Len(emitters'[i]) = IF i = at[1] THEN at[2] ELSE Len(emitters[i])
               /\ \A j \in 1..Len(emitters[i]) : emitters'[i][j] = emitters[i][j]
      BY <3>1 DEF Joined
    <3>3. CASE type = "graphite"
      <4>1. sender' = o /\ o # 0 /\ objects'[o].type = "graphite"
        BY <3>1, <3>2, <3>3
      <4>2. at[1] \in 1..Len(emitters') /\ at[2] \in 1..Len(emitters'[at[1]])
        <5>1. at[2] \in 1..at[2]
          BY <2>1
        <5> QED BY <2>1, <3>2, <5>1
      <4>3. \A i \in 1..Len(emitters') : \A j \in 1..Len(emitters'[i]) :
              i < at[1] \/ (i = at[1] /\ j <= at[2])
        BY <1>1, <2>1, <3>2
      <4>4. /\ emitters'[at[1]][at[2]] = sender'
            /\ \A i \in 1..Len(emitters') : \A j \in 1..Len(emitters'[i]) :
                 objects'[emitters'[i][j]].type = "graphite" =>
                   i < at[1] \/ (i = at[1] /\ j <= at[2])
        BY <3>2, <4>1, <4>3
      <4>5. \E k \in 1..Len(emitters') : \E l \in 1..Len(emitters'[k]) :
              /\ emitters'[k][l] = sender'
              /\ \A i \in 1..Len(emitters') : \A j \in 1..Len(emitters'[i]) :
                   objects'[emitters'[i][j]].type = "graphite" =>
                     i < k \/ (i = k /\ j <= l)
        BY <4>2, <4>4
      <4> QED BY <4>1, <4>5 DEF Sender
    <3>4. CASE type # "graphite"
      <4>1. ASSUME NEW i \in 1..Len(emitters'), NEW j \in 1..Len(emitters'[i]),
                   objects'[emitters'[i][j]].type = "graphite"
            PROVE  /\ i \in 1..Len(emitters) /\ j \in 1..Len(emitters[i])
                   /\ emitters'[i][j] = emitters[i][j]
        <5>1. i \in 1..Len(emitters)
          BY <3>2
        <5>2. CASE j \in 1..Len(emitters[i])
          BY <3>2, <5>1, <5>2
        <5>3. CASE j \notin 1..Len(emitters[i])
          <6>1. i = at[1] /\ j \in 1..at[2]
            BY <3>2, <5>1, <5>3
          <6>2. j = at[2]
            BY <2>1, <5>3, <6>1
          <6> QED BY <3>1, <3>2, <3>4, <4>1, <6>1, <6>2
        <5> QED BY <5>1, <5>2, <5>3
      <4> QED BY <1>3, <3>2, <3>4, <4>1
    <3> QED BY <3>3, <3>4
  <2>3. UNCHANGED <<emitters, sender>> \/ \E o \in 1..Len(objects'), type \in Type :
               objects'[o].type = type /\ Joined(o, type)
    BY <1>6, OutputJoined
  <2> QED BY <1>4, <2>2, <2>3
<1> QED BY <1>4, <1>5, <1>6, ConnectOnly

LEMMA HostFacts ==
  ASSUME TypeOK, NEW i \in 1..Len(config.probes)
  PROVE  /\ Len(config.probes[i].hosts) \in Nat /\ Len(config.probes[i].hosts) >= 1
         /\ \A host : HostOf(i, host) => host # None /\ Metric[host] # None
         /\ \A host : HostOf(i, host) => host \in ToSet(config.probes[i].hosts)
         /\ \A k, l \in 1..Len(config.probes[i].hosts) :
              config.probes[i].hosts[k] = config.probes[i].hosts[l] => k = l
<1>1. config \in Configs
  BY DEF TypeOK
<1>2. config.probes[i] \in ProbeConfig /\ config.probes[i].hosts # <<>>
  BY ConfigFacts
<1>3. config.probes[i].hosts \in Seq(STRING)
  BY <1>2 DEF ProbeConfig
<1>4. Len(config.probes[i].hosts) \in Nat /\ Len(config.probes[i].hosts) >= 1
  BY <1>2, <1>3
<1>5. \A k \in 1..Len(config.probes[i].hosts) :
        config.probes[i].hosts[k] \in ToSet(config.probes[i].hosts)
  BY <1>3 DEF ToSet
<1>6. /\ \A host \in ToSet(config.probes[i].hosts) : host # None /\ Metric[host] # None
      /\ \A k, l \in 1..Len(config.probes[i].hosts) :
           config.probes[i].hosts[k] = config.probes[i].hosts[l] => k = l
  BY <1>1, OutputsAssumption
<1> QED BY <1>4, <1>5, <1>6 DEF HostOf

LEMMA LastFacts ==
  ASSUME TypeOK
  PROVE  /\ second \in Nat
         /\ \A i \in 1..Len(probes) :
              /\ last[i].second \in Nat /\ last[i].rows \in Seq(Row)
              /\ Len(last[i].rows) \in Nat
              /\ last[i].rows # <<>> => Len(last[i].rows) >= 1
<1>1. MaxSecond \in Nat
  BY OutputsAssumption
<1>2. second \in Nat
  <2>1. second \in 1..MaxSecond
    BY TypeFacts
  <2> QED BY <1>1, <2>1
<1>3. ASSUME NEW i \in 1..Len(probes)
      PROVE  /\ last[i].second \in Nat /\ last[i].rows \in Seq(Row)
             /\ Len(last[i].rows) \in Nat
             /\ last[i].rows # <<>> => Len(last[i].rows) >= 1
  <2>1. last[i] \in Sent
    BY TypeFacts
  <2>2. last[i].second \in 0..MaxSecond /\ last[i].rows \in Seq(Row)
    BY <2>1 DEF Sent
  <2> QED BY <1>1, <2>2
<1> QED BY <1>2, <1>3

(* Only a probe in its cycle changes what is kept of its messages.          *)
LEMMA CyclesOnly ==
  ASSUME TypeOK, Progress, [Next]_vars, ~GetProbe, ~EmitAll, ~Message
  PROVE  UNCHANGED <<last, turn, hasty, made>>
<1> USE DEF configVars, connectVars, socketVars, vodkaVars, cycleVars, messageVars, storeVars
<1>1. CASE GetOutput \/ StartProbe
  BY <1>1, OutputCases, StartProbeFacts
<1>2. CASE EmitZeroMQ \/ EmitPrometheus \/ EmitRow
  BY <1>2, OtherEmits
<1>3. CASE EmitVodka
  BY <1>3, VodkaCases
<1>4. CASE Interrupt \/ Terminate \/ OnStop
  BY <1>4, SignalFacts, OnStopFacts
<1>5. CASE Instantiate \/ CheckNames \/ Connected \/ OnStart \/ Tick \/ UNCHANGED vars
  BY <1>5 DEF Instantiate, CheckNames, Connected, OnStart, Tick, vars
<1> QED BY <1>1, <1>2, <1>3, <1>4, <1>5 DEF Next, Connect, Emit

(* The second of a probe's last message only grows, but for a hasty one.    *)
LEMMA LastGrows ==
  ASSUME TypeOK, Progress, [Next]_vars, ~GetProbe
  PROVE  /\ hasty \subseteq hasty'
         /\ \A i \in 1..Len(probes) :
              /\ last[i].second \in Nat /\ last'[i].second \in Nat
              /\ i \notin hasty' => last'[i].second >= last[i].second
<1>1. second \in Nat /\ \A i \in 1..Len(probes) : last[i].second \in Nat
  BY LastFacts
<1>2. CASE UNCHANGED <<last, hasty>>
  BY <1>1, <1>2
<1>3. CASE EmitAll
  <2>1. UNCHANGED hasty /\ \A i \in 1..Len(probes) : last'[i].second = last[i].second
    BY <1>3, EmitAllFacts
  <2> QED BY <1>1, <2>1
<1>4. CASE Message
  <2>1. \/ UNCHANGED <<last, hasty>>
        \/ /\ hasty' = IF second <= last[turn].second THEN hasty \cup {turn} ELSE hasty
           /\ \A i \in 1..Len(probes) :
                last'[i].second = IF i = turn THEN second ELSE last[i].second
    BY <1>4, MessageFacts
  <2>2. turn \in 1..Len(probes)
    BY <1>4, MessageFacts
  <2> QED BY <1>1, <1>2, <2>1, <2>2
<1> QED BY <1>2, <1>3, <1>4, CyclesOnly

(* A value stays what it was stored as.                                     *)
LEMMA StoredKept ==
  ASSUME TypeOK, Progress, [Next]_vars, ~GetProbe, ~GetOutput, NEW v, Stored(v)
  PROVE  Stored(v)'
<1> DEFINE i == v.series[1]
           j == v.series[2]
<1>1. /\ v.series = <<i, j, v.series[3]>>
      /\ i \in 1..Len(emitters) /\ j \in 1..Len(emitters[i]) /\ HostOf(i, v.series[3])
      /\ v.output = emitters[i][j] /\ objects[v.output].type \in TimeSeries
      /\ v.database = Database(objects[v.output])
      /\ v.file = FileOf(objects[v.output], config.probes[i].name, v.series[3])
      /\ v.second \in Nat /\ (i \notin hasty => v.second <= last[i].second)
  BY DEF Stored
<1>2. UNCHANGED <<config, emitters, sender>>
  BY ConnectOnly
<1>3. objects'[v.output] = objects[v.output]
  BY <1>1, TypeFacts, Growth
<1>4. i \notin hasty' => v.second <= last'[i].second
  <2>1. i \in 1..Len(probes)
    BY <1>1, TypeFacts
  <2>2. /\ last[i].second \in Nat /\ last'[i].second \in Nat /\ hasty \subseteq hasty'
        /\ i \notin hasty' => last'[i].second >= last[i].second
    BY <2>1, LastGrows
  <2> QED BY <1>1, <2>2
<1>5. \E h \in 1..Len(config'.probes[i].hosts) : config'.probes[i].hosts[h] = v.series[3]
  BY <1>1, <1>2 DEF HostOf
<1>6. v.database = IF objects'[v.output].type = "graphite" THEN sender' ELSE 0
  BY <1>1, <1>2, <1>3 DEF Database
<1>7. /\ i \in 1..Len(emitters') /\ j \in 1..Len(emitters'[i])
      /\ v.output = emitters'[i][j] /\ objects'[v.output].type \in TimeSeries
      /\ v.file = FileOf(objects'[v.output], config'.probes[i].name, v.series[3])
  BY <1>1, <1>2, <1>3
<1> QED BY <1>1, <1>4, <1>5, <1>6, <1>7 DEF Stored, HostOf, Database

-----------------------------------------------------------------------------
(* The file and the value of the row whose turn it is.                      *)
File == FileOf(objects[todo[1].output], config.probes[todo[1].probe].name, todo[1].rows[1].host)

Value == [database |-> Database(objects[todo[1].output]), file |-> File,
          second |-> last[todo[1].probe].second, output |-> todo[1].output,
          series |-> <<todo[1].probe, todo[1].pos, todo[1].rows[1].host>>]

LEMMA RowFacts ==
  ASSUME TypeOK, Begun, Rows, todo # <<>>, objects[todo[1].output].type \in TimeSeries
  PROVE  /\ todo[1].probe \in 1..Len(emitters)
         /\ todo[1].pos \in 1..Len(emitters[todo[1].probe])
         /\ todo[1].output = emitters[todo[1].probe][todo[1].pos]
         /\ HostOf(todo[1].probe, todo[1].rows[1].host)
         /\ Stored(Value) /\ last[todo[1].probe].second \in Nat
<1> DEFINE i == todo[1].probe
           j == todo[1].pos
           host == todo[1].rows[1].host
           o == todo[1].output
<1>1. 1 \in 1..Len(todo) /\ todo[1] \in Call
  BY TailFacts
<1>2. i \in 1..Len(emitters) /\ j \in 1..Len(emitters[i]) /\ o = emitters[i][j]
  BY <1>1 DEF Begun
<1>3. Len(todo[1].rows) \in Nat /\ Len(todo[1].rows) >= 1
  BY <1>1 DEF Call, Rows
<1>4. HostOf(i, host)
  <2>1. 1 \in 1..Len(todo[1].rows)
    BY <1>3
  <2> QED BY <1>1, <2>1 DEF Rows, HostsOnce
<1>5. last[i].second \in Nat
  BY <1>2, TypeFacts, LastFacts
<1>6. /\ Value.series = <<i, j, host>> /\ Value.series[1] = i /\ Value.series[2] = j
      /\ Value.series[3] = host /\ Value.output = o /\ Value.second = last[i].second
      /\ Value.database = Database(objects[o])
      /\ Value.file = FileOf(objects[o], config.probes[i].name, host)
  BY DEF Value, File
<1> HIDE DEF i, j, host, o
<1>7. Stored(Value)
  BY <1>2, <1>4, <1>5, <1>6 DEF Stored, o
<1> QED BY <1>2, <1>4, <1>5, <1>7 DEF i, j, host, o

(* What the call of a time series output can do with a row.                 *)
LEMMA EmitRowCases ==
  ASSUME EmitRow
  PROVE  /\ todo # <<>> /\ objects[todo[1].output].type \in TimeSeries
         /\ UNCHANGED <<config, objects, emitters, sender, last, hasty>>
         /\ \/ NextRow /\ UNCHANGED <<error, values>>
            \/ NextRow /\ UNCHANGED error /\ values' = values \cup {Value}
            \/ todo' = <<>> /\ error' = "unready" /\ UNCHANGED values
            \/ /\ todo' = <<>> /\ error' = "refused" /\ UNCHANGED values
               /\ objects[todo[1].output].type = "rrd"
               /\ \E w \in values :
                    w.database = 0 /\ w.file = File /\ w.second >= last[todo[1].probe].second
<1> DEFINE i == todo[1].probe
           o == todo[1].output
           row == todo[1].rows[1]
           series == <<i, todo[1].pos, row.host>>
<1>1. /\ todo # <<>> /\ objects[o].type \in TimeSeries
      /\ UNCHANGED <<config, objects, emitters, sender, last, hasty>>
  BY DEF EmitRow, configVars, connectVars, cycleVars
<1>2. \/ NextRow /\ UNCHANGED <<error, values>>
      \/ Fails("unready") /\ UNCHANGED values
      \/ Store(objects[o], File, series)
  BY DEF EmitRow, File, storeVars
<1>3. CASE Store(objects[o], File, series)
  <2>1. CASE /\ objects[o].type = "rrd"
             /\ \E w \in values : /\ w.database = Database(objects[o]) /\ w.file = File
                                  /\ w.second >= last[i].second
             /\ Fails("refused") /\ UNCHANGED values
    <3>1. Database(objects[o]) = 0
      BY <2>1 DEF Database
    <3> QED BY <1>1, <2>1, <3>1 DEF Fails, Raise
  <2>2. CASE NextRow /\ values' = values \cup {Value} /\ UNCHANGED error
    BY <1>1, <2>2
  <2>3. \/ /\ objects[o].type = "rrd"
           /\ \E w \in values : /\ w.database = Database(objects[o]) /\ w.file = File
                                /\ w.second >= last[i].second
           /\ Fails("refused") /\ UNCHANGED values
        \/ NextRow /\ values' = values \cup {Value} /\ UNCHANGED error
    BY <1>3 DEF Store, Value
  <2> QED BY <2>1, <2>2, <2>3
<1> QED BY <1>1, <1>2, <1>3 DEF Fails, Raise

(* Only a row that is stored adds a value.                                  *)
LEMMA ValuesOnly ==
  ASSUME TypeOK, Progress, [Next]_vars, ~EmitRow
  PROVE  UNCHANGED values
<1> USE DEF configVars, connectVars, socketVars, vodkaVars, cycleVars, messageVars, storeVars
<1>1. CASE GetOutput
  BY <1>1, OutputCases
<1>2. CASE GetProbe
  BY <1>2, GetProbeFacts
<1>3. CASE StartProbe
  BY <1>3, StartProbeFacts
<1>4. CASE EmitVodka
  BY <1>4, VodkaCases
<1>5. CASE EmitAll \/ Message
  BY <1>5 DEF EmitAll, Message
<1>6. CASE \/ Instantiate \/ CheckNames \/ Connected \/ OnStart \/ Tick \/ EmitZeroMQ
           \/ EmitPrometheus \/ Interrupt \/ Terminate \/ OnStop \/ UNCHANGED vars
  BY <1>6 DEF Instantiate, CheckNames, Connected, OnStart, Tick, EmitZeroMQ, EmitPrometheus,
              Interrupt, Terminate, OnStop, vars
<1> QED BY <1>1, <1>2, <1>3, <1>4, <1>5, <1>6 DEF Next, Connect, Emit

LEMMA StoredStep ==
  ASSUME TypeOK, Progress, Begun, Rows, \A v \in values : Stored(v), [Next]_vars
  PROVE  (\A v \in values : Stored(v))'
<1>1. CASE GetProbe \/ GetOutput
  <2>1. stage = "connect"
    BY <1>1 DEF GetProbe, GetOutput
  <2>2. values = {} /\ todo = <<>>
    BY <2>1 DEF Progress
  <2>3. UNCHANGED values
    BY <2>2, ValuesOnly DEF EmitRow
  <2> QED BY <2>2, <2>3
<1>2. CASE ~GetProbe /\ ~GetOutput
  <2> SUFFICES ASSUME NEW v \in values' PROVE Stored(v)'
    OBVIOUS
  <2>1. v \in values \/ (v = Value /\ EmitRow)
    BY ValuesOnly, EmitRowCases
  <2>2. Stored(v)
    <3>1. CASE v = Value /\ EmitRow
      BY <3>1, EmitRowCases, RowFacts
    <3> QED BY <2>1, <3>1
  <2> QED BY <1>2, <2>2, StoredKept
<1> QED BY <1>1, <1>2

(* A message has a row for every host of its probe.                         *)
LEMMA WaitingStep ==
  TypeOK /\ Progress /\ Waiting /\ [Next]_vars => Waiting'
<1> SUFFICES ASSUME TypeOK, Progress, Waiting, [Next]_vars PROVE Waiting'
  OBVIOUS
<1>1. config' = config
  BY Growth
<1>2. /\ \A i \in 1..Len(probes) : HostsOnce(i, last[i].rows)
      /\ turn # 0 => turn \in 1..Len(probes) /\ last[turn].rows = <<>>
      /\ Len(last) = Len(probes) /\ last \in Seq(Sent) /\ Len(probes) \in Nat
  <2>1. last \in Seq(Sent)
    BY DEF TypeOK
  <2>2. Len(last) = Len(probes) /\ turn \in 0..Len(probes) /\ Len(probes) \in Nat
    BY TypeFacts
  <2> QED BY <2>1, <2>2 DEF Waiting
<1>3. ASSUME \A i \in 1..Len(last') : HostsOnce(i, last'[i].rows),
             turn' # 0 => last'[turn'].rows = <<>>
      PROVE  Waiting'
  BY <1>1, <1>3, ZenonT(40) DEF Waiting, HostsOnce, HostOf
<1>4. \A i : HostsOnce(i, <<>>)
  BY DEF HostsOnce
<1>5. CASE UNCHANGED <<last, turn>>
  <2> HIDE DEF HostsOnce
  <2> QED BY <1>2, <1>3, <1>5
<1>6. CASE EmitAll
  <2>1. PICK p \in 1..Len(probes) :
          /\ turn' = p /\ last'[p].rows = <<>> /\ Len(last') = Len(last)
          /\ \A k \in 1..Len(probes) : k # p => last'[k] = last[k]
    BY <1>6, EmitAllFacts
  <2>2. \A i \in 1..Len(last') : HostsOnce(i, last'[i].rows)
    BY <1>2, <1>4, <2>1
  <2> QED BY <1>3, <2>1, <2>2
<1>7. CASE Message
  <2>1. /\ turn \in 1..Len(probes) /\ turn' = 0 /\ turn \in 1..Len(config.probes)
        /\ \/ UNCHANGED last
           \/ /\ Len(last') = Len(last)
              /\ Len(last'[turn].rows) = Len(config.probes[turn].hosts)
              /\ \A k \in 1..Len(last'[turn].rows) :
                   last'[turn].rows[k].host = config.probes[turn].hosts[k]
              /\ \A k \in 1..Len(probes) : k # turn => last'[k] = last[k]
    BY <1>7, MessageFacts
  <2>2. CASE UNCHANGED last
    BY <1>2, <1>3, <2>1, <2>2
  <2>3. CASE /\ Len(last') = Len(last)
             /\ Len(last'[turn].rows) = Len(config.probes[turn].hosts)
             /\ \A k \in 1..Len(last'[turn].rows) :
                  last'[turn].rows[k].host = config.probes[turn].hosts[k]
             /\ \A k \in 1..Len(probes) : k # turn => last'[k] = last[k]
    <3> DEFINE rows == last'[turn].rows
               hosts == config.probes[turn].hosts
    <3>1. \A r, q \in 1..Len(hosts) : hosts[r] = hosts[q] => r = q
      BY <2>1, HostFacts
    <3>2. Len(rows) = Len(hosts) /\ \A r \in 1..Len(rows) : rows[r].host = hosts[r]
      BY <2>3
    <3> HIDE DEF rows
    <3>3. ASSUME NEW r \in 1..Len(rows) PROVE HostOf(turn, rows[r].host)
      <4>1. r \in 1..Len(hosts) /\ rows[r].host = hosts[r]
        BY <3>2
      <4> QED BY <4>1 DEF HostOf
    <3> HIDE DEF hosts
    <3>4. \A r, q \in 1..Len(rows) : rows[r].host = rows[q].host => r = q
      BY <3>1, <3>2
    <3>5. HostsOnce(turn, last'[turn].rows)
      BY <3>3, <3>4 DEF HostsOnce, rows
    <3>6. \A i \in 1..Len(last') : HostsOnce(i, last'[i].rows)
      BY <1>2, <2>3, <3>5
    <3> QED BY <1>3, <2>1, <3>6
  <2> QED BY <2>1, <2>2, <2>3
<1>8. CASE GetProbe
  <2>1. UNCHANGED turn /\ last' = Append(last, [second |-> 0, rows |-> <<>>])
    BY <1>8, GetProbeFacts
  <2> DEFINE new == [second |-> 0, rows |-> <<>>]
  <2>2. new.rows = <<>>
    OBVIOUS
  <2> HIDE DEF new
  <2>3. /\ Len(last') = Len(last) + 1 /\ last'[Len(last) + 1] = new
        /\ \A k \in 1..Len(last) : last'[k] = last[k]
    BY <1>2, <2>1 DEF new
  <2>4. \A i \in 1..Len(last') : i \in 1..Len(last) \/ i = Len(last) + 1
    BY <1>2, <2>3
  <2>5. \A i \in 1..Len(last') : HostsOnce(i, last'[i].rows)
    BY <1>2, <1>4, <2>2, <2>3, <2>4
  <2>6. turn' # 0 => last'[turn'].rows = <<>>
    BY <1>2, <2>1, <2>3
  <2> QED BY <1>3, <2>5, <2>6
<1> QED BY <1>5, <1>6, <1>7, <1>8, CyclesOnly

(* The rows of a message are of distinct hosts, and its calls of distinct   *)
(* outputs; handling a row takes the first away.                            *)
LEMMA RowsStep ==
  TypeOK /\ Progress /\ Waiting /\ Rows /\ [Next]_vars => Rows'
<1> SUFFICES ASSUME TypeOK, Progress, Waiting, Rows, [Next]_vars PROVE Rows'
  OBVIOUS
<1> USE DEF configVars, connectVars, socketVars, vodkaVars, cycleVars, messageVars, storeVars
<1>1. config' = config
  BY Growth
<1> DEFINE RowsOf(call) == Len(call.rows) >= 1 /\ HostsOnce(call.probe, call.rows)
<1>2. /\ \A k \in 1..Len(todo) : RowsOf(todo[k])
      /\ \A k, l \in 1..Len(todo) : todo[k].pos = todo[l].pos => k = l
  BY DEF Rows
<1>3. ASSUME \A k \in 1..Len(todo') : RowsOf(todo'[k]),
             \A k, l \in 1..Len(todo') : todo'[k].pos = todo'[l].pos => k = l
      PROVE  Rows'
  BY <1>1, <1>3 DEF Rows, HostsOnce, HostOf
<1>4. CASE UNCHANGED todo
  <2> HIDE DEF RowsOf
  <2> QED BY <1>2, <1>3, <1>4
<1>5. CASE todo' = <<>>
  BY <1>3, <1>5
<1>6. CASE todo # <<>> /\ todo' = Tail(todo)
  <2>1. /\ Len(todo) \in Nat /\ Len(todo') = Len(todo) - 1
        /\ \A k \in 1..Len(todo) - 1 : todo'[k] = todo[k + 1]
    BY <1>6, TailFacts
  <2>2. \A k \in 1..Len(todo') : k + 1 \in 1..Len(todo) /\ todo'[k] = todo[k + 1]
    BY <2>1
  <2> HIDE DEF RowsOf
  <2>3. \A k \in 1..Len(todo') : RowsOf(todo'[k])
    BY <1>2, <2>2
  <2>4. ASSUME NEW k \in 1..Len(todo'), NEW l \in 1..Len(todo'), todo'[k].pos = todo'[l].pos
        PROVE  k = l
    <3>1. k + 1 = l + 1
      BY <1>2, <2>2, <2>4
    <3> QED BY <3>1
  <2> QED BY <1>3, <2>3, <2>4
<1>7. CASE todo # <<>> /\ NextRow
  <2>1. CASE /\ Len(todo') = Len(todo) /\ Len(todo[1].rows) > 1
             /\ \A k \in 1..Len(todo) : k # 1 => todo'[k] = todo[k]
             /\ todo'[1].output = todo[1].output /\ todo'[1].probe = todo[1].probe
             /\ todo'[1].pos = todo[1].pos /\ todo'[1].rows = Tail(todo[1].rows)
    <3> DEFINE rows == todo[1].rows
    <3>1. 1 \in 1..Len(todo) /\ todo[1] \in Call
      BY <1>7, TailFacts
    <3>2. rows \in Seq(Row)
      BY <3>1 DEF Call
    <3> HIDE DEF rows
    <3>3. /\ Len(rows) \in Nat /\ Len(rows) > 1 /\ Len(Tail(rows)) = Len(rows) - 1
          /\ \A r \in 1..Len(rows) - 1 : Tail(rows)[r] = rows[r + 1]
      BY <2>1, <3>2 DEF rows
    <3>4. \A r \in 1..Len(Tail(rows)) : r + 1 \in 1..Len(rows) /\ Tail(rows)[r] = rows[r + 1]
      BY <3>3
    <3>5. /\ \A r \in 1..Len(rows) : HostOf(todo[1].probe, rows[r].host)
          /\ \A r, q \in 1..Len(rows) : rows[r].host = rows[q].host => r = q
      BY <1>2, <3>1 DEF rows, HostsOnce
    <3>6. Len(Tail(rows)) >= 1
      BY <3>3
    <3>7. \A r \in 1..Len(Tail(rows)) : HostOf(todo[1].probe, Tail(rows)[r].host)
      BY <3>4, <3>5
    <3>8. ASSUME NEW r \in 1..Len(Tail(rows)), NEW q \in 1..Len(Tail(rows)),
                 Tail(rows)[r].host = Tail(rows)[q].host
          PROVE  r = q
      <4>1. r + 1 = q + 1
        BY <3>4, <3>5, <3>8
      <4> QED BY <4>1
    <3>9. RowsOf(todo'[1])
      BY <2>1, <3>6, <3>7, <3>8 DEF rows, HostsOnce
    <3> HIDE DEF RowsOf
    <3>10. \A k \in 1..Len(todo') : RowsOf(todo'[k])
      BY <1>2, <2>1, <3>9
    <3>11. \A k \in 1..Len(todo) : todo'[k].pos = todo[k].pos
      BY <2>1
    <3>12. \A k, l \in 1..Len(todo') : todo'[k].pos = todo'[l].pos => k = l
      BY <1>2, <2>1, <3>11
    <3> QED BY <1>3, <3>10, <3>12
  <2> QED BY <1>6, <1>7, <2>1, NextRowFacts
<1>8. CASE EmitAll
  <2> HIDE DEF RowsOf
  <2>1. PICK i \in 1..Len(probes) :
          /\ todo' # <<>> => last[i].rows # <<>> /\ Len(todo') = Len(emitters[i])
          /\ \A j \in 1..Len(todo') :
               /\ todo'[j].probe = i /\ todo'[j].pos = j /\ todo'[j].rows = last[i].rows
    BY <1>8, EmitAllFacts
  <2>2. CASE todo' # <<>>
    <3>1. Len(last[i].rows) >= 1 /\ HostsOnce(i, last[i].rows)
      BY <2>1, <2>2, LastFacts, TypeFacts DEF Waiting
    <3>2. \A k \in 1..Len(todo') : RowsOf(todo'[k])
      BY <2>1, <3>1 DEF RowsOf
    <3> QED BY <1>3, <2>1, <3>2
  <2> QED BY <1>5, <2>2
<1>9. CASE EmitVodka
  <2>1. todo # <<>> /\ (todo' = Tail(todo) \/ todo' = <<>>)
    BY <1>9, VodkaCases
  <2> QED BY <1>5, <1>6, <2>1
<1>10. CASE EmitZeroMQ \/ EmitPrometheus \/ EmitRow
  <2>1. todo # <<>> /\ (todo' = Tail(todo) \/ NextRow \/ todo' = <<>>)
    BY <1>10, OtherEmits
  <2> QED BY <1>5, <1>6, <1>7, <2>1
<1>11. CASE GetOutput
  BY <1>4, <1>11, OutputCases
<1>12. CASE GetProbe \/ StartProbe
  BY <1>4, <1>12, GetProbeFacts, StartProbeFacts
<1>13. CASE \/ Instantiate \/ CheckNames \/ Connected \/ OnStart \/ Tick \/ Message \/ OnStop
            \/ UNCHANGED vars
  <2>1. UNCHANGED todo
    BY <1>13 DEF Instantiate, CheckNames, Connected, OnStart, Tick, Message, OnStop, vars
  <2> QED BY <1>4, <2>1
<1>14. CASE Interrupt \/ Terminate
  BY <1>5, <1>14, SignalFacts
<1> QED
  BY <1>8, <1>9, <1>10, <1>11, <1>12, <1>13, <1>14 DEF Next, Connect, Emit

(* What is left of an emission has been there before, but the row handled.  *)
LEMMA RowsLeft ==
  ASSUME TypeOK, Rows, todo # <<>>, NextRow,
         NEW k \in 1..Len(todo'), NEW r \in 1..Len(todo'[k].rows)
  PROVE  /\ \E l \in 1..Len(todo) : \E q \in 1..Len(todo[l].rows) :
              /\ todo'[k].probe = todo[l].probe /\ todo'[k].pos = todo[l].pos
              /\ todo'[k].rows[r].host = todo[l].rows[q].host
         /\ ~(todo'[k].pos = todo[1].pos /\ todo'[k].rows[r].host = todo[1].rows[1].host)
<1>1. /\ 1 \in 1..Len(todo) /\ todo[1] \in Call /\ Len(todo) \in Nat
      /\ Len(Tail(todo)) = Len(todo) - 1
      /\ \A m \in 1..Len(todo) - 1 : Tail(todo)[m] = todo[m + 1]
  BY TailFacts
<1>2. /\ \A l, m \in 1..Len(todo) : todo[l].pos = todo[m].pos => l = m
      /\ \A q, s \in 1..Len(todo[1].rows) :
           todo[1].rows[q].host = todo[1].rows[s].host => q = s
  BY <1>1 DEF Rows, HostsOnce
<1>3. CASE todo' = Tail(todo)
  <2>1. k + 1 \in 1..Len(todo) /\ todo'[k] = todo[k + 1] /\ k + 1 # 1
    BY <1>1, <1>3
  <2> QED BY <1>1, <1>2, <2>1
<1>4. CASE k # 1 /\ k \in 1..Len(todo) /\ todo'[k] = todo[k]
  BY <1>1, <1>2, <1>4
<1>5. CASE /\ k = 1 /\ Len(todo[1].rows) > 1
           /\ todo'[1].probe = todo[1].probe
           /\ todo'[1].pos = todo[1].pos /\ todo'[1].rows = Tail(todo[1].rows)
  <2> DEFINE rows == todo[1].rows
  <2>1. rows \in Seq(Row)
    BY <1>1 DEF Call
  <2> HIDE DEF rows
  <2>2. /\ Len(rows) \in Nat /\ Len(rows) > 1 /\ Len(Tail(rows)) = Len(rows) - 1
        /\ \A q \in 1..Len(rows) - 1 : Tail(rows)[q] = rows[q + 1]
    BY <1>5, <2>1 DEF rows
  <2>3. r \in 1..Len(rows) - 1 /\ todo'[k].rows[r] = Tail(rows)[r]
    BY <1>5, <2>2 DEF rows
  <2>4. r + 1 \in 1..Len(rows) /\ 1 \in 1..Len(rows) /\ r + 1 # 1
        /\ todo'[k].rows[r] = rows[r + 1]
    BY <2>2, <2>3
  <2>5. rows[r + 1].host # rows[1].host
    BY <1>2, <2>4 DEF rows
  <2> QED BY <1>1, <1>5, <2>4, <2>5 DEF rows
<1> QED BY <1>3, <1>4, <1>5, NextRowFacts

(* No value has the second of a row that is still to store.                 *)
LEMMA FreshStep ==
  /\ TypeOK /\ Progress /\ Begun /\ (\A v \in values : Stored(v)) /\ Waiting /\ Rows /\ Fresh
  /\ [Next]_vars
  => Fresh'
<1> SUFFICES ASSUME TypeOK, Progress, Begun, \A v \in values : Stored(v), Waiting, Rows, Fresh,
                    [Next]_vars
             PROVE  Fresh'
  OBVIOUS
<1> USE DEF configVars, connectVars, socketVars, vodkaVars, cycleVars, messageVars, storeVars
<1> DEFINE Later(v) == /\ v.series[1] \notin hasty' /\ last'[v.series[1]].rows # <<>> =>
                            v.second < last'[v.series[1]].second
           Ahead(v, call, row) ==
             /\ v.series = <<call.probe, call.pos, row.host>> /\ call.probe \notin hasty'
             => v.second < last'[call.probe].second
<1>1. ASSUME \A v \in values' : Later(v),
             \A v \in values' : \A k \in 1..Len(todo') : \A r \in 1..Len(todo'[k].rows) :
               Ahead(v, todo'[k], todo'[k].rows[r])
      PROVE  Fresh'
  BY <1>1 DEF Fresh
<1>2. CASE UNCHANGED <<values, last, hasty>> /\ todo' = <<>>
  BY <1>1, <1>2 DEF Fresh
<1>3. CASE UNCHANGED <<todo, values, last, hasty>>
  BY <1>3 DEF Fresh
<1>4. ASSUME todo # <<>>, NextRow \/ todo' = Tail(todo), UNCHANGED <<last, hasty, values>>
      PROVE  Fresh'
  <2>1. CASE NextRow
    <3>1. ASSUME NEW v \in values, NEW k \in 1..Len(todo'), NEW r \in 1..Len(todo'[k].rows)
          PROVE  Ahead(v, todo'[k], todo'[k].rows[r])
      <4>1. \E l \in 1..Len(todo) : \E q \in 1..Len(todo[l].rows) :
              /\ todo'[k].probe = todo[l].probe /\ todo'[k].pos = todo[l].pos
              /\ todo'[k].rows[r].host = todo[l].rows[q].host
        BY <1>4, <2>1, RowsLeft
      <4> QED BY <1>4, <4>1 DEF Fresh
    <3>2. \A v \in values' : Later(v)
      BY <1>4 DEF Fresh
    <3> HIDE DEF Ahead, Later
    <3> QED BY <1>1, <1>4, <3>1, <3>2
  <2>2. CASE todo' = Tail(todo)
    <3>1. /\ Len(todo) \in Nat /\ Len(todo') = Len(todo) - 1
          /\ \A k \in 1..Len(todo) - 1 : todo'[k] = todo[k + 1]
      BY <1>4, <2>2, TailFacts
    <3>2. \A k \in 1..Len(todo') : k + 1 \in 1..Len(todo) /\ todo'[k] = todo[k + 1]
      BY <3>1
    <3>3. ASSUME NEW v \in values, NEW k \in 1..Len(todo'), NEW r \in 1..Len(todo'[k].rows)
          PROVE  Ahead(v, todo'[k], todo'[k].rows[r])
      <4>1. k + 1 \in 1..Len(todo) /\ todo'[k] = todo[k + 1]
        BY <3>2
      <4> QED BY <1>4, <4>1 DEF Fresh
    <3>4. \A v \in values' : Later(v)
      BY <1>4 DEF Fresh
    <3> HIDE DEF Ahead, Later
    <3> QED BY <1>1, <1>4, <3>3, <3>4
  <2> QED BY <1>4, <2>1, <2>2
<1>5. CASE EmitRow
  <2>1. /\ todo # <<>> /\ UNCHANGED <<last, hasty>>
        /\ objects[todo[1].output].type \in TimeSeries
        /\ \/ NextRow /\ UNCHANGED values
           \/ NextRow /\ values' = values \cup {Value}
           \/ todo' = <<>> /\ UNCHANGED values
    BY <1>5, EmitRowCases
  <2>2. CASE NextRow /\ values' = values \cup {Value}
    <3>1. /\ Value.series = <<todo[1].probe, todo[1].pos, todo[1].rows[1].host>>
          /\ Value.series[1] = todo[1].probe
      BY DEF Value
    <3>2. last[todo[1].probe].rows = <<>>
      <4>1. 1 \in 1..Len(todo)
        BY <2>1, TailFacts
      <4> QED BY <2>1, <4>1 DEF Begun, Progress, Waiting
    <3>3. \A v \in values' : Later(v)
      BY <2>1, <2>2, <3>1, <3>2 DEF Fresh
    <3>4. ASSUME NEW v \in values', NEW k \in 1..Len(todo'), NEW r \in 1..Len(todo'[k].rows)
          PROVE  Ahead(v, todo'[k], todo'[k].rows[r])
      <4>1. /\ \E l \in 1..Len(todo) : \E q \in 1..Len(todo[l].rows) :
                 /\ todo'[k].probe = todo[l].probe /\ todo'[k].pos = todo[l].pos
                 /\ todo'[k].rows[r].host = todo[l].rows[q].host
            /\ ~(todo'[k].pos = todo[1].pos /\ todo'[k].rows[r].host = todo[1].rows[1].host)
        BY <2>1, <2>2, RowsLeft
      <4>2. CASE v \in values
        BY <2>1, <4>1, <4>2 DEF Fresh
      <4>3. CASE v = Value
        BY <3>1, <4>1, <4>3
      <4> QED BY <2>2, <4>2, <4>3
    <3> HIDE DEF Ahead, Later
    <3> QED BY <1>1, <3>3, <3>4
  <2> QED BY <1>2, <1>4, <2>1, <2>2
<1>6. CASE EmitAll
  <2>1. PICK i \in 1..Len(probes) :
          /\ last'[i].rows = <<>> /\ last'[i].second = last[i].second
          /\ \A k \in 1..Len(probes) : k # i => last'[k] = last[k]
          /\ todo' # <<>> => last[i].rows # <<>>
          /\ \A j \in 1..Len(todo') : todo'[j].probe = i
          /\ UNCHANGED <<hasty, values>>
    BY <1>6, EmitAllFacts, ZenonT(40)
  <2>2. ASSUME NEW v \in values PROVE Later(v)
    <3>1. v.series[1] \in 1..Len(probes)
      BY TypeFacts DEF Stored
    <3> QED BY <2>1, <3>1 DEF Fresh
  <2>3. ASSUME NEW v \in values, NEW k \in 1..Len(todo'), NEW r \in 1..Len(todo'[k].rows)
        PROVE  Ahead(v, todo'[k], todo'[k].rows[r])
    <3> SUFFICES ASSUME v.series = <<todo'[k].probe, todo'[k].pos, todo'[k].rows[r].host>>,
                        todo'[k].probe \notin hasty'
                 PROVE  v.second < last'[todo'[k].probe].second
      OBVIOUS
    <3>1. todo'[k].probe = i /\ v.series[1] = i
      BY <2>1
    <3>2. todo' # <<>>
      OBVIOUS
    <3>3. last[i].rows # <<>>
      BY <2>1, <3>2
    <3> QED BY <2>1, <3>1, <3>3 DEF Fresh
  <2> HIDE DEF Ahead, Later
  <2> QED BY <1>1, <2>1, <2>2, <2>3
<1>7. CASE Message
  <2>1. CASE UNCHANGED <<last, hasty>>
    BY <1>3, <1>7, <2>1, MessageFacts
  <2>2. CASE /\ last'[turn].second = second
             /\ \A k \in 1..Len(probes) : k # turn => last'[k] = last[k]
             /\ hasty' = IF second <= last[turn].second THEN hasty \cup {turn} ELSE hasty
    <3>1. UNCHANGED <<todo, values>> /\ todo = <<>> /\ turn \in 1..Len(probes)
      BY <1>7, MessageFacts
    <3>2. ASSUME NEW v \in values PROVE Later(v)
      <4>1. /\ v.series[1] \in 1..Len(probes) /\ v.second \in Nat
            /\ v.series[1] \notin hasty => v.second <= last[v.series[1]].second
        BY TypeFacts DEF Stored
      <4>2. CASE v.series[1] = turn
        <5>1. second \in Nat /\ last[turn].second \in Nat
          BY <3>1, LastFacts
        <5> QED BY <2>2, <4>1, <4>2, <5>1
      <4>3. CASE v.series[1] # turn
        BY <2>2, <4>1, <4>3 DEF Fresh
      <4> QED BY <4>2, <4>3
    <3> HIDE DEF Ahead, Later
    <3> QED BY <1>1, <3>1, <3>2
  <2> QED BY <1>7, <2>1, <2>2, MessageFacts
<1>8. CASE GetProbe
  <2>1. UNCHANGED values /\ values = {}
    BY <1>8, GetProbeFacts DEF Progress
  <2> QED BY <2>1 DEF Fresh
<1>9. CASE EmitVodka
  BY <1>2, <1>4, <1>9, VodkaCases
<1>10. CASE EmitZeroMQ \/ EmitPrometheus
  <2>1. UNCHANGED values
    BY <1>10, ValuesOnly DEF EmitZeroMQ, EmitPrometheus
  <2>2. todo # <<>> /\ UNCHANGED <<last, hasty>>
        /\ (todo' = Tail(todo) \/ NextRow \/ todo' = <<>>)
    BY <1>10, OtherEmits
  <2> QED BY <1>2, <1>4, <2>1, <2>2
<1>11. CASE GetOutput \/ StartProbe
  BY <1>3, <1>11, OutputCases, StartProbeFacts
<1>12. CASE Interrupt \/ Terminate
  BY <1>2, <1>12, SignalFacts
<1>13. CASE \/ Instantiate \/ CheckNames \/ Connected \/ OnStart \/ Tick \/ OnStop
            \/ UNCHANGED vars
  <2>1. UNCHANGED <<todo, values, last, hasty>>
    BY <1>13 DEF Instantiate, CheckNames, Connected, OnStart, Tick, OnStop, vars
  <2> QED BY <1>3, <2>1
<1> QED
  BY <1>5, <1>6, <1>7, <1>8, <1>9, <1>10, <1>11, <1>12, <1>13 DEF Next, Connect, Emit

LEMMA StorageInit == Init => Storage
<1> SUFFICES ASSUME Init PROVE Storage
  OBVIOUS
<1>1. /\ emitters = <<>> /\ sender = 0 /\ values = {} /\ todo = <<>>
      /\ last = <<>> /\ turn = 0
  BY DEF Init
<1> QED BY <1>1 DEF Storage, Sender, Waiting, Rows, Fresh

(* What holds of the databases, in every state.                             *)
THEOREM StorageHolds == Spec => []Storage
<1>1. TypeOK /\ TypeOK' /\ Wiring /\ Storage /\ [Next]_vars => Storage'
  <2> SUFFICES ASSUME TypeOK, TypeOK', Wiring, Storage, [Next]_vars
               PROVE  Storage'
    OBVIOUS
  <2>1. Progress /\ Registry /\ Begun
    BY DEF Wiring
  <2>2. Sender /\ (\A v \in values : Stored(v)) /\ Waiting /\ Rows /\ Fresh
    BY DEF Storage
  <2>3. Sender'
    BY <2>1, <2>2, SenderStep
  <2>4. (\A v \in values : Stored(v))'
    BY <2>1, <2>2, StoredStep
  <2>5. Waiting' /\ Rows'
    BY <2>1, <2>2, WaitingStep, RowsStep
  <2>6. Fresh'
    BY <2>1, <2>2, FreshStep
  <2> QED BY <2>3, <2>4, <2>5, <2>6 DEF Storage
<1> QED BY <1>1, StorageInit, WiringHolds, PTL DEF Spec

(* Once values are stored, every place of the config has its output.        *)
LEMMA AllPlaces ==
  ASSUME TypeOK, Progress, values # {}, NEW p \in Places
  PROVE  p = <<p[1], p[2]>> /\ p[1] \in 1..Len(emitters) /\ p[2] \in 1..Len(emitters[p[1]])
<1>1. PICK i \in 1..Len(config.probes) : p \in {<<i, j>> : j \in 1..Len(config.probes[i].outputs)}
  BY DEF Places
<1>2. PICK j \in 1..Len(config.probes[i].outputs) : p = <<i, j>>
  BY <1>1
<1>3. at[1] = Len(config.probes) + 1 /\ Len(config.probes) \in Nat /\ at[2] \in Nat
  BY ConfigFacts, TypeFacts DEF Progress
<1>4. at[2] = 0
  BY <1>3 DEF Progress
<1>5. Len(emitters) = Len(config.probes)
  BY <1>3, <1>4, TypeFacts DEF Progress
<1>6. i < at[1] /\ i \in 1..Len(probes)
  BY <1>3, <1>5, TypeFacts
<1>7. Len(emitters[i]) = Len(config.probes[i].outputs)
  BY <1>6 DEF Progress
<1> QED BY <1>2, <1>5, <1>7

LEMMA ReachStep ==
  TypeOK /\ Wiring /\ Storage => ValuesReachDatabase
<1> SUFFICES ASSUME TypeOK, Wiring, Storage, NEW v \in values
             PROVE  LET name == config.probes[v.series[1]].outputs[v.series[2]] IN
                    /\ objects[v.output].name = name
                    /\ IF objects[v.output].type = "graphite"
                       THEN /\ objects[v.database].type = "graphite"
                            /\ \A p \in Places :
                                 objects[emitters[p[1]][p[2]]].type = "graphite" =>
                                   \E q \in Named(objects[v.database].name) :
                                     (q[1] > p[1]) \/ (q[1] = p[1] /\ q[2] >= p[2])
                       ELSE v.database = 0
  BY DEF ValuesReachDatabase
<1> DEFINE i == v.series[1]
           j == v.series[2]
<1>1. Progress /\ Registry /\ Emitters /\ Sender
  BY DEF Wiring, Storage
<1>2. /\ i \in 1..Len(emitters) /\ j \in 1..Len(emitters[i])
      /\ v.output = emitters[i][j] /\ objects[v.output].type \in TimeSeries
      /\ v.database = Database(objects[v.output])
  BY DEF Storage, Stored
<1>3. objects[v.output].name = config.probes[i].outputs[j]
  <2>1. objects[emitters[i][j]].type \in NeedsConfig
    BY <1>2 DEF NeedsConfig
  <2> HIDE DEF i, j
  <2>2. /\ IsThe(emitters[i][j], config.probes[i].outputs[j])
        /\ objects[emitters[i][j]] = config.plugins[emitters[i][j]]
    BY <1>1, <1>2, <2>1, NamedPlugin
  <2> QED BY <1>2, <2>2 DEF IsThe
<1>4. CASE objects[v.output].type # "graphite"
  BY <1>2, <1>3, <1>4 DEF Database
<1>5. CASE objects[v.output].type = "graphite"
  <2>1. v.database = sender
    BY <1>2, <1>5 DEF Database
  <2>2. sender # 0
    BY <1>1, <1>2, <1>5 DEF Sender
  <2>3. objects[sender].type = "graphite"
    BY <1>1, <2>2 DEF Sender
  <2>4. PICK k \in 1..Len(emitters) : \E l \in 1..Len(emitters[k]) :
          /\ emitters[k][l] = sender
          /\ \A a \in 1..Len(emitters) : \A b \in 1..Len(emitters[a]) :
               objects[emitters[a][b]].type = "graphite" => a < k \/ (a = k /\ b <= l)
    BY <1>1, <2>2 DEF Sender
  <2>5. PICK l \in 1..Len(emitters[k]) :
          /\ emitters[k][l] = sender
          /\ \A a \in 1..Len(emitters) : \A b \in 1..Len(emitters[a]) :
               objects[emitters[a][b]].type = "graphite" => a < k \/ (a = k /\ b <= l)
    BY <2>4
  <2>6. <<k, l>> \in Named(objects[sender].name)
    <3>1. objects[emitters[k][l]].type \in NeedsConfig
      BY <2>3, <2>5 DEF NeedsConfig, TimeSeries
    <3>2. /\ IsThe(emitters[k][l], config.probes[k].outputs[l])
          /\ objects[emitters[k][l]] = config.plugins[emitters[k][l]]
      BY <1>1, <3>1, NamedPlugin
    <3>3. objects[sender].name = config.probes[k].outputs[l]
      BY <2>5, <3>2 DEF IsThe
    <3>4. <<k, l>> \in Places
      BY <1>1, PlaceIn
    <3> QED BY <3>3, <3>4 DEF Named
  <2>7. ASSUME NEW p \in Places, objects[emitters[p[1]][p[2]]].type = "graphite"
        PROVE  \E q \in Named(objects[sender].name) :
                 (q[1] > p[1]) \/ (q[1] = p[1] /\ q[2] >= p[2])
    <3>1. p[1] \in 1..Len(emitters) /\ p[2] \in 1..Len(emitters[p[1]])
      BY <1>1, AllPlaces
    <3>2. p[1] < k \/ (p[1] = k /\ p[2] <= l)
      BY <2>5, <2>7, <3>1
    <3>3. <<k, l>>[1] = k /\ <<k, l>>[2] = l
      OBVIOUS
    <3>4. k > p[1] \/ (k = p[1] /\ l >= p[2])
      BY <3>1, <3>2
    <3> QED BY <2>6, <3>3, <3>4
  <2> QED BY <1>3, <1>5, <2>1, <2>3, <2>7
<1> QED BY <1>4, <1>5

(* A value is in the database of its own output, but for graphite: there    *)
(* it is in that of the output that was started last.                       *)
THEOREM ValuesAreStored == Spec => []ValuesReachDatabase
  BY ReachStep, WiringHolds, StorageHolds, PTL

LEMMA PluginIs ==
  ASSUME TypeOK, NEW o, NEW name, IsThe(o, name)
  PROVE  Plugin(name) = config.plugins[o]
<1> DEFINE named == {k \in 1..Len(config.plugins) : config.plugins[k].name = name}
<1>1. o \in named /\ \A k \in named : k <= o
  BY DEF IsThe
<1>2. named \subseteq Nat
  BY ConfigFacts
<1>3. ASSUME NEW k \in named, \A l \in named : l <= k PROVE k = o
  <2>1. o <= k /\ k <= o /\ o \in Nat /\ k \in Nat
    BY <1>1, <1>2, <1>3
  <2> QED BY <2>1
<1> DEFINE c == CHOOSE k \in named : \A l \in named : l <= k
<1>4. Plugin(name) = config.plugins[c]
  BY DEF Plugin
<1> HIDE DEF named
<1>5. c \in named /\ \A l \in named : l <= c
  BY <1>1
<1> HIDE DEF c
<1>6. c = o
  BY <1>3, <1>5
<1> QED BY <1>4, <1>6

(* The series of a host in a time series output.                            *)
LEMMA SeriesOf ==
  ASSUME TypeOK, Progress, Registry, Emitters,
         NEW i \in 1..Len(emitters), NEW j \in 1..Len(emitters[i]), NEW host,
         objects[emitters[i][j]].type \in TimeSeries, HostOf(i, host)
  PROVE  /\ <<i, j, host>> \in Series
         /\ Plugin(config.probes[i].outputs[j]) = objects[emitters[i][j]]
<1> DEFINE o == emitters[i][j]
           name == config.probes[i].outputs[j]
<1>1. o \in 1..Len(config.plugins) /\ IsThe(o, name) /\ objects[o] = config.plugins[o]
  <2>1. objects[o].type \in NeedsConfig
    BY DEF NeedsConfig
  <2> QED BY <2>1, NamedPlugin
<1>2. <<i, j>> \in Places /\ i \in 1..Len(config.probes)
  BY PlaceIn
<1>3. host \in ToSet(config.probes[i].hosts)
  BY <1>2, HostFacts
<1>4. config.plugins[o] \in ToSet(config.plugins)
  <2>1. config.plugins \in Seq(Object)
    BY ConfigFacts
  <2> QED BY <1>1, <2>1 DEF ToSet
<1>5. config.plugins[o].type \in TimeSeries /\ config.plugins[o].name = name
  BY <1>1 DEF IsThe
<1>6. <<i, j, host>> \in UNION {{<<p[1], p[2], h>> : h \in ToSet(config.probes[p[1]].hosts)} :
                                  p \in Places}
  <2> DEFINE Of(p) == {<<p[1], p[2], h>> : h \in ToSet(config.probes[p[1]].hosts)}
  <2>1. <<i, j, host>> \in Of(<<i, j>>)
    BY <1>3
  <2> HIDE DEF Of
  <2>2. <<i, j, host>> \in UNION {Of(p) : p \in Places}
    BY <1>2, <2>1
  <2> QED BY <2>2 DEF Of
<1>7. <<i, j, host>> \in Series
  <2>1. \E p \in ToSet(config.plugins) :
          p.type \in TimeSeries /\ p.name = config.probes[<<i, j, host>>[1]].outputs[<<i, j, host>>[2]]
    BY <1>4, <1>5
  <2> HIDE DEF o, name
  <2> QED BY <1>6, <2>1 DEF Series
<1>8. Plugin(name) = config.plugins[o]
  <2> HIDE DEF o, name
  <2> QED BY <1>1, PluginIs
<1> QED BY <1>1, <1>7, <1>8

(* Two series with one file are alike.                                      *)
LEMMA AlikeIf ==
  ASSUME TypeOK, Progress, Registry, Emitters,
         NEW i \in 1..Len(emitters), NEW j \in 1..Len(emitters[i]), NEW g,
         NEW k \in 1..Len(emitters), NEW l \in 1..Len(emitters[k]), NEW h,
         objects[emitters[i][j]].type \in TimeSeries, HostOf(i, g),
         objects[emitters[k][l]].type \in TimeSeries, HostOf(k, h),
         (objects[emitters[i][j]].type = "graphite") = (objects[emitters[k][l]].type = "graphite"),
         FileOf(objects[emitters[i][j]], config.probes[i].name, g)
           = FileOf(objects[emitters[k][l]], config.probes[k].name, h)
  PROVE  Alike(<<i, j, g>>, <<k, l, h>>)
<1> DEFINE a == objects[emitters[i][j]]
           b == objects[emitters[k][l]]
           m == config.probes[i].name
           n == config.probes[k].name
<1>1. /\ Plugin(config.probes[i].outputs[j]) = a
      /\ Plugin(config.probes[k].outputs[l]) = b
  BY SeriesOf
<1>2. i \in 1..Len(config.probes) /\ k \in 1..Len(config.probes)
  BY PlaceIn
<1>3. m # None /\ n # None
  BY <1>2, ConfigFacts
<1>4. g # None /\ Metric[g] # None /\ h # None /\ Metric[h] # None
  BY <1>2, HostFacts
<1>5. FileOf(a, m, g) = FileOf(b, n, h) /\ (a.type = "graphite") = (b.type = "graphite")
  OBVIOUS
<1>6. <<i, j, g>>[1] = i /\ <<i, j, g>>[2] = j /\ <<i, j, g>>[3] = g
      /\ <<k, l, h>>[1] = k /\ <<k, l, h>>[2] = l /\ <<k, l, h>>[3] = h
  OBVIOUS
<1> HIDE DEF a, b, m, n
<1>7. /\ a.text = b.text
      /\ (IF "source" \in a.fields THEN m ELSE None) = (IF "source" \in b.fields THEN n ELSE None)
      /\ (IF "host" \notin a.fields THEN None
          ELSE IF a.type = "graphite" THEN Metric[g] ELSE g)
         = (IF "host" \notin b.fields THEN None
            ELSE IF b.type = "graphite" THEN Metric[h] ELSE h)
  BY <1>5 DEF FileOf
<1>8. "source" \in a.fields => m = n
  BY <1>3, <1>7
<1>9. "host" \in a.fields => g = h \/ (a.type = "graphite" /\ Metric[g] = Metric[h])
  BY <1>4, <1>5, <1>7
<1> QED BY <1>1, <1>6, <1>7, <1>8, <1>9 DEF Alike, m, n

(* Only graphite's values are in a database of their own.                   *)
LEMMA StoredAs ==
  ASSUME TypeOK, Wiring, Storage, NEW v, Stored(v)
  PROVE  (objects[v.output].type = "graphite") = (v.database # 0)
<1>1. /\ v.series[1] \in 1..Len(emitters) /\ v.series[2] \in 1..Len(emitters[v.series[1]])
      /\ v.output = emitters[v.series[1]][v.series[2]] /\ v.database = Database(objects[v.output])
  BY DEF Stored
<1>2. objects[v.output].type = "graphite" => sender # 0
  BY <1>1 DEF Storage, Sender
<1> QED BY <1>1, <1>2 DEF Database

LEMMA AlikeStored ==
  ASSUME TypeOK, Wiring, Storage, NEW v, Stored(v), NEW w, Stored(w),
         v.database = w.database, v.file = w.file
  PROVE  Alike(v.series, w.series) /\ v.series \in Series /\ w.series \in Series
<1> DEFINE i == v.series[1]
           j == v.series[2]
           g == v.series[3]
           k == w.series[1]
           l == w.series[2]
           h == w.series[3]
<1>1. /\ v.series = <<i, j, g>> /\ i \in 1..Len(emitters) /\ j \in 1..Len(emitters[i])
      /\ HostOf(i, g) /\ v.output = emitters[i][j] /\ objects[emitters[i][j]].type \in TimeSeries
      /\ v.file = FileOf(objects[emitters[i][j]], config.probes[i].name, g)
  BY DEF Stored
<1>2. /\ w.series = <<k, l, h>> /\ k \in 1..Len(emitters) /\ l \in 1..Len(emitters[k])
      /\ HostOf(k, h) /\ w.output = emitters[k][l] /\ objects[emitters[k][l]].type \in TimeSeries
      /\ w.file = FileOf(objects[emitters[k][l]], config.probes[k].name, h)
  BY DEF Stored
<1>3. (objects[v.output].type = "graphite") = (objects[w.output].type = "graphite")
  <2>1. (objects[v.output].type = "graphite") = (v.database # 0)
    BY StoredAs
  <2>2. (objects[w.output].type = "graphite") = (w.database # 0)
    BY StoredAs
  <2> QED BY <2>1, <2>2
<1>4. Progress /\ Registry /\ Emitters
  BY DEF Wiring
<1> HIDE DEF i, j, g, k, l, h
<1>5. (objects[emitters[i][j]].type = "graphite") = (objects[emitters[k][l]].type = "graphite")
  BY <1>1, <1>2, <1>3
<1>6. FileOf(objects[emitters[i][j]], config.probes[i].name, g)
        = FileOf(objects[emitters[k][l]], config.probes[k].name, h)
  BY <1>1, <1>2
<1>7. Alike(<<i, j, g>>, <<k, l, h>>)
  BY <1>1, <1>2, <1>4, <1>5, <1>6, AlikeIf
<1>8. <<i, j, g>> \in Series /\ <<k, l, h>> \in Series
  BY <1>1, <1>2, <1>4, SeriesOf
<1> QED BY <1>1, <1>2, <1>7, <1>8

SomeAlike == \E s, t \in Series : s # t /\ Alike(s, t)

SomeHasty == \E s \in Series : s[1] \in hasty

(* A refusal comes from a value in the same file with the row's second or a *)
(* later one: of another series, or of a probe that was hasty.              *)
LEMMA RefusedAlike ==
  ASSUME TypeOK, Wiring, Storage, todo # <<>>, objects[todo[1].output].type = "rrd",
         NEW w \in values, w.database = 0, w.file = File,
         w.second >= last[todo[1].probe].second
  PROVE  SomeAlike \/ SomeHasty
<1>1. Progress /\ Registry /\ Emitters /\ Begun /\ Rows /\ Fresh /\ Stored(w)
  BY DEF Wiring, Storage
<1>2. objects[todo[1].output].type \in TimeSeries
  BY DEF TimeSeries
<1>3. Stored(Value) /\ last[todo[1].probe].second \in Nat
  BY <1>1, <1>2, RowFacts
<1>4. /\ Value.database = 0 /\ Value.file = File
      /\ Value.series = <<todo[1].probe, todo[1].pos, todo[1].rows[1].host>>
      /\ Value.series[1] = todo[1].probe
  BY DEF Value, Database
<1>5. Alike(Value.series, w.series) /\ Value.series \in Series /\ w.series \in Series
  BY <1>1, <1>3, <1>4, AlikeStored
<1>6. CASE todo[1].probe \in hasty
  BY <1>4, <1>5, <1>6 DEF SomeHasty
<1>7. CASE todo[1].probe \notin hasty
  <2>1. 1 \in 1..Len(todo) /\ 1 \in 1..Len(todo[1].rows)
    <3>1. 1 \in 1..Len(todo) /\ todo[1] \in Call
      BY TailFacts
    <3>2. Len(todo[1].rows) \in Nat /\ Len(todo[1].rows) >= 1
      BY <1>1, <3>1 DEF Call, Rows
    <3> QED BY <3>1, <3>2
  <2>2. w.series = Value.series => w.second < last[todo[1].probe].second
    BY <1>1, <1>4, <1>7, <2>1 DEF Fresh
  <2>3. w.second \in Nat
    BY <1>1 DEF Stored
  <2>4. w.series # Value.series
    BY <1>3, <2>2, <2>3
  <2> QED BY <1>5, <2>4 DEF SomeAlike
<1> QED BY <1>6, <1>7

LEMMA RefusedStep ==
  /\ TypeOK /\ Wiring /\ Storage /\ (error = "refused" => SomeAlike \/ SomeHasty)
  /\ [Next]_vars
  => (error = "refused" => SomeAlike \/ SomeHasty)'
<1> SUFFICES ASSUME TypeOK, Wiring, Storage, error = "refused" => SomeAlike \/ SomeHasty,
                    [Next]_vars, error' = "refused"
             PROVE  SomeAlike' \/ SomeHasty'
  OBVIOUS
<1>1. Progress /\ Registry
  BY DEF Wiring
<1>2. SomeAlike \/ SomeHasty => SomeAlike' \/ SomeHasty'
  <2>1. config' = config
    BY <1>1, Growth
  <2>2. Series' = Series
    BY <2>1 DEF Series, Places
  <2>3. ASSUME NEW s, NEW t, Alike(s, t) PROVE Alike(s, t)'
    <3> DEFINE a == config.probes[s[1]].outputs[s[2]]
               b == config.probes[t[1]].outputs[t[2]]
    <3>1. Plugin(a)' = Plugin(a) /\ Plugin(b)' = Plugin(b)
      BY <2>1 DEF Plugin
    <3> QED BY <2>1, <2>3, <3>1 DEF Alike
  <2>4. hasty \subseteq hasty'
    BY <1>1, LastGrows, GetProbeFacts
  <2> QED BY <2>2, <2>3, <2>4 DEF SomeAlike, SomeHasty
<1>3. CASE error' = error
  BY <1>2, <1>3
<1>4. CASE EmitRow
  <2>1. \/ error' = error
        \/ /\ todo # <<>> /\ objects[todo[1].output].type = "rrd"
           /\ \E w \in values :
                w.database = 0 /\ w.file = File /\ w.second >= last[todo[1].probe].second
        \/ error' = "unready"
    BY <1>4, EmitRowCases
  <2> QED BY <1>2, <1>3, <2>1, RefusedAlike
<1>5. CASE EmitVodka
  BY <1>3, <1>5, VodkaCases
<1>6. CASE GetOutput
  <2>1. error' \in {error, "mismatch", "config", "port"}
    BY <1>6 DEF GetOutput, Raise, Join
  <2> QED BY <1>3, <2>1
<1>7. CASE Instantiate \/ CheckNames \/ GetProbe \/ StartProbe \/ Connected
  <2>1. error' \in {error, "config", "port"}
    BY <1>7 DEF Instantiate, CheckNames, GetProbe, StartProbe, Connected, Raise, Refuse
  <2> QED BY <1>3, <2>1
<1>8. CASE OnStart \/ Tick \/ EmitZeroMQ \/ EmitPrometheus
  <2>1. error' \in {error, "taken", "unready", "bare"}
    BY <1>8 DEF OnStart, OpenSocket, Tick, EmitZeroMQ, EmitPrometheus, Done, Fails, Raise
  <2> QED BY <1>3, <2>1
<1>9. CASE EmitAll \/ Message
  BY <1>3, <1>9 DEF EmitAll, Message
<1>10. CASE Interrupt \/ Terminate \/ OnStop
  <2>1. error' \in {error, None, "killed", "cut"}
    BY <1>10, SignalFacts, OnStopFacts
  <2> QED BY <1>3, <2>1 DEF None
<1>11. CASE UNCHANGED vars
  BY <1>3, <1>11 DEF vars
<1> QED BY <1>4, <1>5, <1>6, <1>7, <1>8, <1>9, <1>10, <1>11 DEF Next, Connect, Emit

(* Two series share a file of a database only if their template does not    *)
(* tell them apart; and rrdtool refuses a value only in such a file, or if  *)
(* its probe stamped a message no later than the one before.                *)
THEOREM ValuesStayApart == Spec => []ValuesKeptApart
<1>1. Init => (error = "refused" => SomeAlike \/ SomeHasty)
  BY DEF Init, None
<1>2. /\ TypeOK /\ Wiring /\ Storage /\ (error = "refused" => SomeAlike \/ SomeHasty)
      => ValuesKeptApart
  <2> SUFFICES ASSUME TypeOK, Wiring, Storage, error = "refused" => SomeAlike \/ SomeHasty
               PROVE  ValuesKeptApart
    OBVIOUS
  <2>1. ASSUME NEW v \in values, NEW w \in values, v.database = w.database, v.file = w.file
        PROVE  Alike(v.series, w.series)
    <3>1. Stored(v) /\ Stored(w)
      BY DEF Storage
    <3> QED BY <2>1, <3>1, AlikeStored
  <2> QED BY <2>1 DEF ValuesKeptApart, SomeAlike, SomeHasty
<1> QED BY <1>1, <1>2, RefusedStep, WiringHolds, StorageHolds, PTL DEF Spec
=============================================================================
