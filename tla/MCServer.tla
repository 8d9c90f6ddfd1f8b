------------------------------ MODULE MCServer ------------------------------
(* Instances of Server for TLC. *)
EXTENDS Server, TLC

CONSTANTS a, b, t1, t2

TwoIps == {a, b}
TwoTasks == {t1, t2}

Limit(connections, failures, concurrent, bytes) ==
    [connectionRate |-> connections, authFailureRate |-> failures, concurrent |-> concurrent,
     byteRate |-> bytes]
Rdp == [egress |-> "rdp", external |-> "any", trusted |-> {}, limits |-> Limit(0, 0, 1, 1)]

\* Other limits and a trusted upstream; an egress and an address that do not go with the first.
Files ==
    {[Rdp EXCEPT !.limits = Limit(0, 1, 1, 2), !.trusted = {b}],
     [Rdp EXCEPT !.egress = "direct", !.external = "addr"]}

FewHeaders ==
    {[format |-> "v1", command |-> "TCP4", family |-> "inet", sound |-> TRUE, stream |-> TRUE,
      source |-> a],
     [format |-> "v2", command |-> "LOCAL", family |-> "unspec", sound |-> TRUE, stream |-> FALSE,
      source |-> a]}
=============================================================================
