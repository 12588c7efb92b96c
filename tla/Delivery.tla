------------------------------ MODULE Delivery ------------------------------
(***************************************************************************)
(* What a timed probe and its emission queue promise to the outputs of the *)
(* probe, without tasks, loops or queues: one message at a time, handed to *)
(* the outputs in the order of `_emit`, a new one only when every output   *)
(* has had the one before, until the daemon goes down.                     *)
(***************************************************************************)
EXTENDS Naturals

CONSTANTS Probe,    \* the timed probes
          Targets   \* Targets[p]: how many outputs p has

VARIABLES sent,  \* sent[p]: messages p has produced
          got,   \* got[<<p, j>>]: messages the j-th output of p has been handed
          up     \* whether the daemon is up

deliveryVars == <<sent, got, up>>

Link == UNION {{<<p, j>> : j \in 1..Targets[p]} : p \in Probe}

Init ==
  /\ sent = [p \in Probe |-> 0]
  /\ got = [l \in Link |-> 0]
  /\ up = TRUE

(* probe() returned a message; every output has had the one before.         *)
Send(p) ==
  /\ up
  /\ \A j \in 1..Targets[p] : got[<<p, j>>] = sent[p]
  /\ sent' = [sent EXCEPT ![p] = @ + 1]
  /\ UNCHANGED <<got, up>>

(* The j-th output gets the current message, after the outputs before it.   *)
Deliver(p, j) ==
  /\ up
  /\ got[<<p, j>>] + 1 = sent[p]
  /\ \A i \in 1..j - 1 : got[<<p, i>>] = sent[p]
  /\ got' = [got EXCEPT ![<<p, j>>] = sent[p]]
  /\ UNCHANGED <<sent, up>>

Halt == up /\ up' = FALSE /\ UNCHANGED <<sent, got>>

Next == Halt \/ \E p \in Probe : Send(p) \/ \E j \in 1..Targets[p] : Deliver(p, j)

Spec == Init /\ [][Next]_deliveryVars

FairSpec == Spec /\ \A p \in Probe : \A j \in 1..Targets[p] : WF_deliveryVars(Deliver(p, j))
=============================================================================
