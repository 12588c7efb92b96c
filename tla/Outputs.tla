------------------------------- MODULE Outputs ------------------------------
(***************************************************************************)
(* The outputs: how the daemon finds or makes them for the names in the    *)
(* config, starts and joins them, what each kind does with the messages of *)
(* the probes, and what it gives back when the daemon stops.               *)
(*                                                                         *)
(* Faults of the loop itself are in Daemon: here the first exception goes  *)
(* straight to the end, over the on_stop() calls if there are any.         *)
(***************************************************************************)
EXTENDS Naturals, Sequences, SequencesExt, FiniteSets

CONSTANTS
  Configs,     \* configurations to try, and under what they run
  Metric,      \* munge_filename, as far as it acts on the name of a host
  MaxSecond,   \* bound: seconds to take stamps from
  MaxMessages  \* bound: messages that all probes make

None == "none"  \* the empty string, or no exception

Type == {"zeromq", "vodka", "prometheus", "rrd", "whisper", "graphite"}
TimeSeries == {"rrd", "whisper", "graphite"}
LazyStart == {"vodka"}

(* The types whose constructor raises on an empty config.                   *)
NeedsConfig == TimeSeries \cup {"zeromq"}

(* What a plugin object takes from its config; a probe's is not modelled.   *)
(* `bind` is zeromq's address, and prometheus' port, None for the default.  *)
Object == [name : STRING, type : Type \cup {"probe"}, text : STRING,
           fields : SUBSET {"source", "host"}, bind : STRING]

(* A row of a message: None, one without cnt, loss and the field that is    *)
(* stored, one without the field only, or one with all.                     *)
Content == {"none", "bare", "empty", "value"}
Row == [host : STRING, has : Content]

(* A probe, and what its rows can be.                                       *)
ProbeConfig == [name : STRING, hosts : Seq(STRING), outputs : Seq(STRING),
                rows : SUBSET Content]

(* The config schema wants names; a probe has one row per host, and what    *)
(* munge_filename makes of a host's name is as long as the name.  That None *)
(* is a string no prover knows.                                             *)
ASSUME OutputsAssumption ==
  /\ MaxSecond \in Nat \ {0} /\ MaxMessages \in Nat /\ None \in STRING
  /\ Configs \subseteq [plugins : Seq(Object), probes : Seq(ProbeConfig),
                        graphsrv : BOOLEAN, foreground : BOOLEAN]
  /\ \A c \in Configs :
       /\ \A k \in 1..Len(c.plugins) :
            c.plugins[k].name # None /\ c.plugins[k].type \in Type
       /\ \A i \in 1..Len(c.probes) :
            /\ c.probes[i].name # None /\ c.probes[i].hosts # <<>>
            /\ \A host \in ToSet(c.probes[i].hosts) : host # None /\ Metric[host] # None
            /\ \A k, l \in 1..Len(c.probes[i].hosts) :
                 c.probes[i].hosts[k] = c.probes[i].hosts[l] => k = l

VARIABLES
  config,    \* the plugins and probes of the configuration, whether graphsrv
             \* is installed, and whether it is run() and not start() that runs
  stage,     \* of the daemon
  error,     \* the exception that ended it, None if there is none
  objects,   \* plugin objects, numbered as they are made
  instance,  \* the registry: the object of a name, 0 if there is none
  at,        \* the connect loop: the probe, and which of its outputs
  joins,     \* Vaping.joins
  probes,    \* the probe objects of the connect loop
  emitters,  \* the _emit list of each of them
  ready,     \* objects whose own start() has run
  sender,    \* the object that graphyte.init() was last called for, or 0
  begun,     \* how many of joins have begun to run
  sock,      \* self.sock of each object: the number of a socket, or 0
  sockets,   \* the sockets opened so far: address to bind, and whether open
  lazy,      \* vodka objects with _is_started set
  runs,      \* the objects that called vodka.run(), in order
  groups,    \* names of the probes whose groups graphsrv has
  second,    \* the time that stamps are taken from
  last,      \* each probe's last message, without its rows once it is emitted
  turn,      \* the probe that is in its cycle, 0 if none
  hasty,     \* probes that stamped a message no later than the one before it
  made,      \* messages so far, counted
  todo,      \* calls still to make in the emission under way
  created,   \* database files
  values     \* what is in databases

configVars  == <<config, objects, instance>>
connectVars == <<at, joins, probes, emitters, ready, sender>>
socketVars  == <<sock, sockets>>
vodkaVars   == <<lazy, runs, groups>>
cycleVars   == <<last, turn, hasty, made>>
messageVars == <<second, last, turn, hasty, made, todo>>
storeVars   == <<created, values>>
vars == <<stage, error, configVars, connectVars, begun, socketVars, vodkaVars,
          messageVars, storeVars>>

Names == UNION {{c.plugins[k].name : k \in 1..Len(c.plugins)}
                \cup {c.probes[i].name : i \in 1..Len(c.probes)}
                \cup UNION {ToSet(c.probes[i].outputs) : i \in 1..Len(c.probes)} :
                  c \in Configs}

Call == [output : Nat, probe : Nat, pos : Nat, rows : Seq(Row)]
Sent == [second : 0..MaxSecond, rows : Seq(Row)]

Error == {None, "config", "port", "mismatch", "unready", "taken", "refused",
          "vodka", "bare", "cut", "killed"}

TypeOK ==
  /\ config \in Configs
  /\ stage \in {"plugins", "connect", "running", "stopping", "ended"}
  /\ error \in Error
  /\ objects \in Seq(Object)
  /\ instance \in [Names -> 0..Len(objects)]
  /\ at \in (Nat \ {0}) \X Nat
  /\ joins \in Seq(1..Len(objects)) /\ probes \in Seq(1..Len(objects))
  /\ emitters \in Seq(Seq(1..Len(objects))) /\ Len(emitters) = Len(probes)
  /\ begun \in 0..Len(joins)
  /\ ready \cup lazy \subseteq 1..Len(objects) /\ sender \in 0..Len(objects)
  /\ sock \in Seq(0..Len(sockets)) /\ Len(sock) = Len(objects)
  /\ sockets \in Seq([address : STRING, open : BOOLEAN])
  /\ runs \in Seq(1..Len(objects))
  /\ second \in 1..MaxSecond
  /\ last \in Seq(Sent) /\ Len(last) = Len(probes)
  /\ turn \in 0..Len(probes) /\ hasty \subseteq 1..Len(probes) /\ made \in 0..MaxMessages
  /\ todo \in Seq(Call)

Init ==
  /\ config \in Configs /\ stage = "plugins" /\ error = None
  /\ objects = <<>> /\ instance = [n \in Names |-> 0]
  /\ at = <<1, 0>> /\ joins = <<>> /\ probes = <<>> /\ emitters = <<>>
  /\ ready = {} /\ sender = 0 /\ begun = 0
  /\ sock = <<>> /\ sockets = <<>>
  /\ lazy = {} /\ runs = <<>> /\ groups = {}
  /\ second = 1 /\ last = <<>> /\ turn = 0 /\ hasty = {} /\ made = 0 /\ todo = <<>>
  /\ created = {} /\ values = {}

(* An exception: run() goes on to its finally clause, _exec() has none.     *)
Raise(what) ==
  /\ stage' = IF config.foreground THEN "stopping" ELSE "ended"
  /\ error' = what

(* An exception out of Vaping.__init__: neither has been called yet.        *)
Refuse(what) == stage' = "ended" /\ error' = what

-----------------------------------------------------------------------------
(* Vaping.__init__: the plugins of the config, then the check of names.     *)

NoPlugin == [name |-> None, type |-> "probe", text |-> None, fields |-> {}, bind |-> None]

(* Mutant: the number of the object after this one.                         *)
NewPlugin_OffByOne(plugin, name) ==
  /\ objects' = Append(objects, plugin)
  /\ sock' = Append(sock, 0)
  /\ instance' = IF name = None THEN instance
                 ELSE [instance EXCEPT ![name] = Len(objects) + 2]

(* new_plugin(): a new object, which takes over the name, if it has one.    *)
NewPlugin(plugin, name) ==
  /\ objects' = Append(objects, plugin)
  /\ sock' = Append(sock, 0)
  /\ instance' = IF name = None THEN instance
                 ELSE [instance EXCEPT ![name] = Len(objects) + 1]

(* prometheus' init() starts a server on its port.  A daemon that detaches  *)
(* has lost the servers of before.                                          *)
PortTaken(plugin) ==
  /\ plugin.type = "prometheus"
  /\ \E o \in 1..Len(objects) :
       /\ objects[o].type = "prometheus" /\ objects[o].bind = plugin.bind
       /\ stage = "plugins" \/ config.foreground \/ o > Len(config.plugins)

Instantiate ==
  /\ stage = "plugins" /\ Len(objects) < Len(config.plugins)
  /\ LET plugin == config.plugins[Len(objects) + 1]
     IN IF PortTaken(plugin)
        THEN Refuse("port") /\ UNCHANGED <<objects, instance, sock>>
        ELSE NewPlugin(plugin, plugin.name) /\ UNCHANGED <<stage, error>>
  /\ UNCHANGED <<config, connectVars, begun, sockets, vodkaVars, messageVars, storeVars>>

Clash == \E i \in 1..Len(config.probes) : instance[config.probes[i].name] # 0

(* Mutant: no check of names.                                               *)
CheckNames_Not ==
  /\ stage = "plugins" /\ Len(objects) = Len(config.plugins)
  /\ stage' = "connect" /\ UNCHANGED error
  /\ UNCHANGED <<configVars, connectVars, begun, socketVars, vodkaVars,
                 messageVars, storeVars>>

CheckNames ==
  /\ stage = "plugins" /\ Len(objects) = Len(config.plugins)
  /\ IF config.plugins = <<>> \/ Clash THEN Refuse("config")
                                      ELSE stage' = "connect" /\ UNCHANGED error
  /\ UNCHANGED <<configVars, connectVars, begun, socketVars, vodkaVars,
                 messageVars, storeVars>>

-----------------------------------------------------------------------------
(* The loops of _main.                                                      *)

(* get_probe() on a probe's config: a new object every time.                *)
GetProbe ==
  LET i == at[1] IN
  /\ stage = "connect" /\ i <= Len(config.probes) /\ at[2] = 0
  /\ NewPlugin(NoPlugin, config.probes[i].name)
  /\ probes' = Append(probes, Len(objects) + 1)
  /\ emitters' = Append(emitters, <<>>)
  /\ last' = Append(last, [second |-> 0, rows |-> <<>>])
  /\ at' = <<i, 1>>
  /\ UNCHANGED <<stage, error, config, joins, ready, sender, begun, sockets,
                 vodkaVars, second, turn, hasty, made, todo, storeVars>>

(* Mutant: whisper's start() sets `started` of the class.                   *)
StartOutput_OncePerType(o, type) ==
  IF type \in LazyStart \/ (type = "whisper" /\ \E p \in ready : objects[p].type = type)
  THEN UNCHANGED <<ready, sender>>
  ELSE /\ ready' = ready \cup {o}
       /\ sender' = IF type = "graphite" THEN o ELSE sender

(* Mutant: graphyte.init() only the first time.                             *)
StartOutput_KeepsFirst(o, type) ==
  IF type \in LazyStart THEN UNCHANGED <<ready, sender>>
  ELSE /\ ready' = ready \cup {o}
       /\ sender' = IF type = "graphite" /\ sender = 0 THEN o ELSE sender

(* start() of an output that is not started: Thread.start sets `started`,   *)
(* whisper and graphite override it and do not.                             *)
StartOutput(o, type) ==
  IF type \in LazyStart THEN UNCHANGED <<ready, sender>>
  ELSE /\ ready' = ready \cup {o}
       /\ sender' = IF type = "graphite" THEN o ELSE sender

(* Joins object o as the next output of the probe.                          *)
Join(o, type) ==
  LET i == at[1] IN
  /\ StartOutput(o, type)
  /\ joins' = Append(joins, o)
  /\ emitters' = [emitters EXCEPT ![i] = Append(@, o)]
  /\ at' = <<i, at[2] + 1>>
  /\ UNCHANGED <<stage, error>>

(* get_output() on a name: the object that has the name; failing that, a    *)
(* new nameless one of the type of that name, with an empty config.         *)
GetOutput ==
  LET i == at[1] j == at[2] IN
  /\ stage = "connect" /\ i <= Len(config.probes)
  /\ j \in 1..Len(config.probes[i].outputs)
  /\ LET ref == config.probes[i].outputs[j]
         found == instance[ref]
     IN IF found # 0
        THEN /\ UNCHANGED <<objects, instance, sock>>
             /\ IF objects[found].type = "probe"
                THEN Raise("mismatch") /\ UNCHANGED connectVars
                ELSE Join(found, objects[found].type) /\ UNCHANGED probes
        ELSE IF ref \notin Type \ NeedsConfig
        THEN Raise("config") /\ UNCHANGED <<objects, instance, sock, connectVars>>
        ELSE IF PortTaken([NoPlugin EXCEPT !.type = ref])
        THEN Raise("port") /\ UNCHANGED <<objects, instance, sock, connectVars>>
        ELSE /\ NewPlugin([NoPlugin EXCEPT !.type = ref], None)
             /\ Join(Len(objects) + 1, ref) /\ UNCHANGED probes
  /\ UNCHANGED <<config, begun, sockets, vodkaVars, messageVars, storeVars>>

StartProbe ==
  LET i == at[1] IN
  /\ stage = "connect" /\ i <= Len(config.probes)
  /\ at[2] = Len(config.probes[i].outputs) + 1
  /\ joins' = Append(joins, probes[i])
  /\ at' = <<i + 1, 0>>
  /\ UNCHANGED <<stage, error, configVars, probes, emitters, ready, sender,
                 begun, socketVars, vodkaVars, messageVars, storeVars>>

(* The loops are through: join_plugins().                                   *)
Connected ==
  /\ stage = "connect" /\ at[1] > Len(config.probes)
  /\ IF config.probes = <<>> THEN Raise("config")
                             ELSE stage' = "running" /\ UNCHANGED error
  /\ UNCHANGED <<configVars, connectVars, begun, socketVars, vodkaVars,
                 messageVars, storeVars>>

-----------------------------------------------------------------------------
(* The tasks of joins begin in order: on_start().                           *)

(* zeromq's on_start(): a new socket; whether one that the object had is    *)
(* still open depends on when its last reference goes.                      *)
OpenSocket(o) ==
  \E drops \in {FALSE, sock[o] # 0} :
    LET kept == IF drops THEN [sockets EXCEPT ![sock[o]].open = FALSE] ELSE sockets
        address == objects[o].bind
        inUse == address # None /\ \E s \in 1..Len(kept) :
                                   kept[s].open /\ kept[s].address = address
    IN /\ sockets' = Append(kept, [address |-> IF inUse THEN None ELSE address,
                                   open |-> TRUE])
       /\ sock' = [sock EXCEPT ![o] = Len(kept) + 1]
       /\ IF inUse THEN Raise("taken") ELSE UNCHANGED <<stage, error>>

OnStart ==
  /\ stage = "running" /\ turn = 0 /\ begun < Len(joins)
  /\ begun' = begun + 1
  /\ LET o == joins[begun + 1]
     IN IF objects[o].type = "zeromq" THEN OpenSocket(o)
                                      ELSE UNCHANGED <<stage, error, socketVars>>
  /\ UNCHANGED <<configVars, connectVars, vodkaVars, messageVars, storeVars>>

(* Time goes by, or is set to another.                                      *)
Tick ==
  /\ stage = "running" /\ todo = <<>> /\ second' \in 1..MaxSecond
  /\ UNCHANGED <<stage, error, configVars, connectVars, begun, socketVars,
                 vodkaVars, cycleVars, todo, storeVars>>

(* A timed probe that has begun has its cycle.  First comes the message of  *)
(* the cycle before: emit() of one output after the other.                  *)
EmitAll ==
  \E i \in 1..Len(probes) :
    /\ stage = "running" /\ turn = 0
    /\ probes[i] \in {joins[k] : k \in 1..begun}
    /\ turn' = i
    /\ todo' = IF last[i].rows = <<>> THEN <<>>
               ELSE [j \in 1..Len(emitters[i]) |->
                      [output |-> emitters[i][j], probe |-> i, pos |-> j, rows |-> last[i].rows]]
    /\ last' = [last EXCEPT ![i].rows = <<>>]
    /\ UNCHANGED <<stage, error, configVars, connectVars, begun, socketVars,
                   vodkaVars, second, hasty, made, storeVars>>

(* Then probe() makes the next one, or none, and the others have their turn.*)
Message ==
  /\ stage = "running" /\ turn # 0 /\ todo = <<>>
  /\ turn' = 0
  /\ \/ UNCHANGED <<last, hasty, made>>
     \/ /\ made < MaxMessages /\ made' = made + 1
        /\ hasty' = IF second <= last[turn].second THEN hasty \cup {turn} ELSE hasty
        /\ LET probe == config.probes[turn] IN
           \E has \in [1..Len(probe.hosts) -> probe.rows] :
             last' = [last EXCEPT ![turn] =
               [second |-> second,
                rows |-> [k \in 1..Len(probe.hosts) |->
                           [host |-> probe.hosts[k], has |-> has[k]]]]]
  /\ UNCHANGED <<stage, error, configVars, connectVars, begun, socketVars,
                 vodkaVars, second, todo, storeVars>>

Done == todo' = Tail(todo) /\ UNCHANGED <<stage, error>>
Fails(what) == todo' = <<>> /\ Raise(what)

EmitZeroMQ ==
  LET o == todo[1].output IN
  /\ todo # <<>> /\ objects[o].type = "zeromq"
  /\ IF sock[o] = 0 THEN Fails("unready") ELSE Done
  /\ UNCHANGED <<configVars, connectVars, begun, socketVars, vodkaVars, second,
                 cycleVars, storeVars>>

(* It adds up `cnt` and multiplies `loss` of every row that is not None.    *)
EmitPrometheus ==
  /\ todo # <<>> /\ objects[todo[1].output].type = "prometheus"
  /\ IF \E row \in ToSet(todo[1].rows) : row.has = "bare" THEN Fails("bare") ELSE Done
  /\ UNCHANGED <<configVars, connectVars, begun, socketVars, vodkaVars, second,
                 cycleVars, storeVars>>

(* Mutant: _is_started is never set.                                        *)
VodkaStart_NoFlag(o) == runs' = Append(runs, o) /\ UNCHANGED lazy

VodkaStart(o) == runs' = Append(runs, o) /\ lazy' = lazy \cup {o}

(* The first emit() runs vodka, and then, if graphsrv is installed, looks up*)
(* every probe of the config again to add its groups to it: these are new   *)
(* objects.                                                                 *)
EmitVodka ==
  LET o == todo[1].output
      n == Len(config.probes)
      twins == [k \in 1..n |-> NoPlugin]
      Twin(name) == {k \in 1..n : config.probes[k].name = name}
  IN
  /\ todo # <<>> /\ objects[o].type = "vodka"
  /\ IF o \in lazy THEN Done /\ UNCHANGED <<configVars, sock, vodkaVars>>
     ELSE /\ VodkaStart(o) /\ UNCHANGED config
          /\ \/ /\ Fails("vodka") /\ UNCHANGED <<objects, instance, sock, groups>>
             \/ ~config.graphsrv /\ Done /\ UNCHANGED <<objects, instance, sock, groups>>
             \/ /\ config.graphsrv /\ Done
                /\ objects' = objects \o twins
                /\ sock' = sock \o [k \in 1..n |-> 0]
                /\ instance' = [name \in Names |->
                     IF Twin(name) = {} THEN instance[name]
                     ELSE Len(objects) + CHOOSE k \in Twin(name) :
                                           \A l \in Twin(name) : l <= k]
                /\ groups' = groups \cup {config.probes[k].name : k \in 1..n}
  /\ UNCHANGED <<connectVars, begun, sockets, second, cycleVars, storeVars>>

-----------------------------------------------------------------------------
(* TimeSeriesDB.emit, row after row.                                        *)

(* Mutant: a file name without the source.                                  *)
FileOf_NoSource(plugin, source, host) ==
  [text |-> plugin.text, source |-> None,
   host |-> IF "host" \notin plugin.fields THEN None
            ELSE IF plugin.type = "graphite" THEN Metric[host] ELSE host]

(* The template filled in; for graphite, what becomes of it when it is sent.*)
FileOf(plugin, source, host) ==
  [text |-> plugin.text,
   source |-> IF "source" \in plugin.fields THEN source ELSE None,
   host |-> IF "host" \notin plugin.fields THEN None
            ELSE IF plugin.type = "graphite" THEN Metric[host] ELSE host]

(* graphyte.send() is one function for all graphite outputs.                *)
Database(plugin) == IF plugin.type = "graphite" THEN sender ELSE 0

NextRow ==
  todo' = IF Len(todo[1].rows) <= 1 THEN Tail(todo) ELSE [todo EXCEPT ![1].rows = Tail(@)]

Store(plugin, file, series) ==
  LET database == Database(plugin)
      there == {v \in values : v.database = database /\ v.file = file}
      value == [database |-> database, file |-> file, second |-> last[series[1]].second,
                output |-> todo[1].output, series |-> series]
  IN IF plugin.type = "rrd" /\ \E v \in there : v.second >= value.second
     THEN Fails("refused") /\ UNCHANGED values
     ELSE NextRow /\ values' = values \cup {value} /\ UNCHANGED <<stage, error>>

EmitRow ==
  LET o == todo[1].output
      plugin == objects[o]
      row == todo[1].rows[1]
      file == FileOf(plugin, config.probes[todo[1].probe].name, row.host)
      onDisk == plugin.type # "graphite"
      needsStart == \/ plugin.type = "whisper" /\ file \notin created
                    \/ plugin.type = "graphite" /\ row.has = "value" /\ sender = 0
  IN
  /\ todo # <<>> /\ plugin.type \in TimeSeries
  /\ IF row.has = "none"
     THEN NextRow /\ UNCHANGED <<stage, error, storeVars>>
     ELSE IF needsStart /\ o \notin ready
     THEN Fails("unready") /\ UNCHANGED storeVars
     ELSE /\ created' = IF onDisk THEN created \cup {file} ELSE created
          /\ IF row.has = "value"
             THEN Store(plugin, file, <<todo[1].probe, todo[1].pos, row.host>>)
             ELSE NextRow /\ UNCHANGED <<stage, error, values>>
  /\ UNCHANGED <<configVars, connectVars, begun, socketVars, vodkaVars, second,
                 cycleVars>>

-----------------------------------------------------------------------------
(* The end.                                                                 *)

(* SIGINT: KeyboardInterrupt, wherever the daemon is.                       *)
Interrupt ==
  /\ stage \in {"connect", "running"} /\ Fails(None)
  /\ UNCHANGED <<configVars, connectVars, begun, socketVars, vodkaVars, second,
                 cycleVars, storeVars>>

(* SIGTERM: the process ends without run()'s finally clause.                *)
Terminate ==
  /\ stage \in {"plugins", "connect", "running"} /\ todo' = <<>> /\ Refuse("killed")
  /\ UNCHANGED <<configVars, connectVars, begun, socketVars, vodkaVars, second,
                 cycleVars, storeVars>>

(* The sockets when the first n of joins have had their on_stop(): zeromq   *)
(* closes the one that it refers to.                                        *)
Closed(n) ==
  LET closed == {sock[joins[k]] : k \in 1..n}
  IN [s \in 1..Len(sockets) |->
       IF s \in closed THEN [sockets[s] EXCEPT !.open = FALSE] ELSE sockets[s]]

(* Mutant: on_stop() only after a stop that was asked for.                  *)
OnStop_UnlessFailed ==
  /\ stage = "stopping" /\ stage' = "ended"
  /\ \E n \in 0..Len(joins) :
       /\ error' = IF n = Len(joins) THEN error ELSE "cut"
       /\ sockets' = IF error # None THEN sockets ELSE Closed(n)
  /\ UNCHANGED <<configVars, connectVars, begun, sock, vodkaVars, messageVars, storeVars>>

(* on_stop() of everything in joins, or up to one that raises, or up to a   *)
(* second signal.                                                           *)
OnStop ==
  /\ stage = "stopping" /\ stage' = "ended"
  /\ \E n \in 0..Len(joins) :
       /\ error' = IF n = Len(joins) THEN error ELSE "cut"
       /\ sockets' = Closed(n)
  /\ UNCHANGED <<configVars, connectVars, begun, sock, vodkaVars, messageVars, storeVars>>

Connect == GetProbe \/ GetOutput \/ StartProbe \/ Connected
Emit == EmitZeroMQ \/ EmitPrometheus \/ EmitVodka \/ EmitRow

Next == \/ Instantiate \/ CheckNames \/ Connect
        \/ OnStart \/ Tick \/ EmitAll \/ Message \/ Emit
        \/ Interrupt \/ Terminate \/ OnStop

Spec == Init /\ [][Next]_vars

-----------------------------------------------------------------------------
(* No output is used before what its use needs: a socket from on_start(),   *)
(* the archives or the connection from start().  The loop starts every      *)
(* object, nameless and shared ones too, ahead of the first message.        *)
NeverUnready == error # "unready"

(* The places in the config from which an output is named.                  *)
Places == UNION {{<<i, j>> : j \in 1..Len(config.probes[i].outputs)} :
                   i \in 1..Len(config.probes)}
Named(name) == {p \in Places : config.probes[p[1]].outputs[p[2]] = name}

(* The last plugin of that name.                                            *)
Plugin(name) ==
  LET named == {k \in 1..Len(config.plugins) : config.plugins[k].name = name}
  IN config.plugins[CHOOSE k \in named : \A l \in named : l <= k]

(* What a probe says of a host in one output.                               *)
Series == {s \in UNION {{<<p[1], p[2], h>> : h \in ToSet(config.probes[p[1]].hosts)} :
                          p \in Places} :
             \E p \in ToSet(config.plugins) :
               p.type \in TimeSeries /\ p.name = config.probes[s[1]].outputs[s[2]]}

(* The template of their output does not tell two series apart.             *)
Alike(s, t) ==
  LET a == Plugin(config.probes[s[1]].outputs[s[2]])
      b == Plugin(config.probes[t[1]].outputs[t[2]])
  IN /\ a.text = b.text
     /\ "source" \in a.fields => config.probes[s[1]].name = config.probes[t[1]].name
     /\ "host" \in a.fields => \/ s[3] = t[3]
                               \/ a.type = "graphite" /\ Metric[s[3]] = Metric[t[3]]

(* Values of two series get into one file only by a template that does not  *)
(* tell the two apart, or, for graphite, whose difference munge_filename    *)
(* takes away; and rrd refuses a value, which ends the daemon, only in such *)
(* a file, or if a probe stamped a message no later than the one before: an *)
(* interval of less than a second, one that overran, a clock set back.      *)
ValuesKeptApart ==
  /\ error = "refused" =>
       \/ \E s, t \in Series : s # t /\ Alike(s, t)
       \/ \E s \in Series : s[1] \in hasty
  /\ \A v, w \in values :
       v.series # w.series /\ v.database = w.database /\ v.file = w.file =>
         Alike(v.series, w.series)

(* A value is in the database of its own output, but for graphite: there    *)
(* the output that was started last gets the values of all.                 *)
ValuesReachDatabase ==
  \A v \in values :
    LET name == config.probes[v.series[1]].outputs[v.series[2]] IN
    /\ objects[v.output].name = name
    /\ IF objects[v.output].type = "graphite"
       THEN /\ objects[v.database].type = "graphite"
            /\ \A p \in Places : objects[emitters[p[1]][p[2]]].type = "graphite" =>
                 \E q \in Named(objects[v.database].name) :
                   (q[1] > p[1]) \/ (q[1] = p[1] /\ q[2] >= p[2])
       ELSE v.database = 0

(* A daemon in the foreground that comes to its end gives back every socket *)
(* it opened, whatever ended it, if it is not killed, no on_stop() is cut   *)
(* short and no zeromq output is named twice; and one fails on an address   *)
(* that is in use only if an output is named twice or two have the address. *)
SocketsGivenBack ==
  LET twice == \E p \in ToSet(config.plugins) :
                 p.type = "zeromq" /\ Cardinality(Named(p.name)) > 1
      address(k) == IF config.plugins[k].type = "zeromq" THEN config.plugins[k].bind ELSE None
  IN /\ stage = "ended" /\ config.foreground /\ error \notin {"killed", "cut"} /\ ~twice =>
          \A s \in 1..Len(sockets) : ~sockets[s].open
     /\ error = "taken" =>
          \/ twice
          \/ \E k, l \in 1..Len(config.plugins) :
               k # l /\ address(k) # None /\ address(k) = address(l)

(* vodka runs once, however many probes emit to it, and where graphsrv is   *)
(* installed every probe's groups are there from the first message on.      *)
VodkaStartsOnce ==
  /\ \A k, l \in 1..Len(runs) : k # l => runs[k] # runs[l]
  /\ stage = "running" /\ runs # <<>> /\ config.graphsrv =>
       groups = {config.probes[i].name : i \in 1..Len(config.probes)}

(* Every name of a plugin stands for the one object that was made for it,   *)
(* in the registry and in the _emit lists, whatever is looked up later; and *)
(* each of the other names for an object of its own.                        *)
OneObjectPerName ==
  stage \in {"connect", "running"} =>
    /\ \A k \in 1..Len(config.plugins) :
         LET o == instance[config.plugins[k].name]
         IN o <= Len(config.plugins) /\ objects[o].name = config.plugins[k].name
    /\ \A p, q \in Places :
         LET of(r) == emitters[r[1]][r[2]]
             has(r) == r[1] <= Len(emitters) /\ r[2] <= Len(emitters[r[1]])
             name(r) == config.probes[r[1]].outputs[r[2]]
         IN has(p) /\ has(q) =>
              (of(p) = of(q)) =
              (p = q \/ (name(p) = name(q) /\ of(p) <= Len(config.plugins)))
=============================================================================
