------------------------------- MODULE MCPing -------------------------------
(* Two hosts, both of them in two groups; the first group is set again.     *)
EXTENDS Ping

CONSTANTS h1, h2

TwoHosts == {h1, h2}
TwoGroups == <<[name |-> "a", hosts |-> <<h1>>], [name |-> "b", hosts |-> <<h2, h1>>],
               [name |-> "a", hosts |-> <<h1, h2>>]>>
=============================================================================
