------------------------------ MODULE MCDaemon ------------------------------
(* Configurations of Daemon small enough for TLC.  Two outputs: o1 inherits *)
(* Thread.start like zeromq, o2 has a start() of its own, like whisper, or  *)
(* like vodka where it is lazy.                                             *)
EXTENDS Daemon

CONSTANTS o1, o2

TwoOutputs == {o1, o2}

\* A probe with both outputs next to one that shares the first of them.
Shared == <<<<o1, o2>>, <<o1>>>>
\* The same, and a probe that has no output.
SharedAndNone == <<<<o1, o2>>, <<o1>>, <<>>>>
\* One probe, one output.
OneEach == <<<<o1>>>>

File1 == <<"file">>
TimedTimed == <<"timed", "timed">>
TimedPlainFile == <<"timed", "plain", "file">>

AllFaults == {"startup", "on_start", "probe", "emit", "on_stop", "sigint",
              "late_sigint", "sigterm"}
FaultsBeforeStop == {"startup", "on_start", "probe", "emit", "sigint"}
=============================================================================
