---------------------------- MODULE MCLifecycle -----------------------------
(* Four commands over one home directory: a detached and a foreground       *)
(* daemon, a stop and a restart.                                            *)
EXTENDS Lifecycle, TLC

CONSTANTS c1, c2, c3, c4

FourCommands == {c1, c2, c3, c4}
FourKinds == c1 :> "start" @@ c2 :> "run" @@ c3 :> "stop" @@ c4 :> "restart"

TwoCommands == {c1, c2}
StartRestart == c1 :> "start" @@ c2 :> "restart"
=============================================================================
