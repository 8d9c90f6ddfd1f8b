---------------------------- MODULE MCConnection ----------------------------
(***************************************************************************)
(* Two connections, a reload from a user list with plugins to a command    *)
(* with the RDP egress, limiters of one, a cache of one entry.             *)
(***************************************************************************)
EXTENDS Connection

CONSTANTS c1, c2

TwoConns == {c1, c2}

Cred(u, p) == [user |-> u, password |-> p]
MCCreds == {Cred("u", "p"), Cred("u", "q"), Cred("v", "cr")}
MCFraming == {Cred("v", "cr")}

V4(n) == [v6 |-> FALSE, value |-> n]
MCClient == [addr |-> V4(0), port |-> 1]
MCProxy == [addr |-> V4(1), port |-> 1]
Literal == [addr |-> V4(0), port |-> 1, host |-> None]
Named == [addr |-> V4(1), port |-> 1, host |-> <<"org", "example">>]
MCDests == {Literal, Named}
\* One address, the same twice, and one that comes back after another.
MCAddresses == {<<Named>>, <<Literal, Literal>>, <<Named, Literal, Named>>}

Zero(v6) == [v6 |-> v6, bits |-> 0, prefix |-> 0]
Any == [cidrs |-> {Zero(FALSE), Zero(TRUE)}, hosts |-> {}, ports |-> None]
Net(n) == [cidrs |-> {[v6 |-> FALSE, bits |-> n, prefix |-> 1]}, hosts |-> {}, ports |-> None]
Below(labels) == [cidrs |-> {}, hosts |-> {[labels |-> labels, suffix |-> TRUE]},
                  ports |-> [min |-> 1, max |-> 2]]

Rule(scope, pass, to, protocols, methods) ==
    [scope |-> scope, pass |-> pass, from |-> Any, to |-> to, commands |-> {},
     protocols |-> protocols, methods |-> methods]

MCConfigs ==
    <<[rules |-> <<Rule("client", TRUE, Any, {}, {}),
                   Rule("socks", FALSE, Net(0), {}, {}),
                   Rule("socks", TRUE, Any, {}, {"UserPass"})>>,
       methods |-> <<"UserPass", "None">>, command |-> FALSE, users |-> {Cred("u", "p"), Cred("v", "cr")},
       ttl |-> TRUE, tryAll |-> TRUE, egress |-> "direct", plugins |-> 2],
      [rules |-> <<Rule("client", TRUE, Any, {}, {}),
                   Rule("socks", FALSE, Any, {"udp"}, {}),
                   Rule("socks", TRUE, Below(<<"org">>), {}, {})>>,
       methods |-> <<"UserPass", "None">>, command |-> TRUE, users |-> {Cred("u", "q")},
       ttl |-> TRUE, tryAll |-> FALSE, egress |-> "rdp", plugins |-> 0]>>
=============================================================================
