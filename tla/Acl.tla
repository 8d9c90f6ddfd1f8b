-------------------------------- MODULE Acl --------------------------------
(***************************************************************************)
(* Access rules (acl.rs) and the selectors they are made of (net.rs).      *)
(*                                                                         *)
(* An address is [v6, value] with values of Width bits; the two families   *)
(* never match each other.  A name is the sequence of its labels from the  *)
(* root down, so that a domain and what lies below it share a prefix.      *)
(* A rule set is a sequence of rules: the first that matches decides, and  *)
(* what no rule matches is blocked.                                        *)
(***************************************************************************)
EXTENDS Integers, Sequences

CONSTANTS
    Width,      \* bits of an address (32 and 128 in the code)
    None

ASSUME AclAssumption == Width \in Nat

\* Cidr::contains: the network part, the bits left of the prefix, agrees.
Contains(cidr, addr) ==
    /\ cidr.v6 = addr.v6
    /\ \/ cidr.prefix = 0
       \/ addr.value \div 2^(Width - cidr.prefix) = cidr.bits \div 2^(Width - cidr.prefix)

PortMatches(spec, port) == spec.ports = None \/ (spec.ports.min <= port /\ port <= spec.ports.max)

\* HostPattern::matches: the exact name, or a domain and everything below it.
HostMatches(pattern, host) ==
    \/ host = pattern.labels
    \/ /\ pattern.suffix
       /\ Len(host) > Len(pattern.labels)
       /\ SubSeq(host, 1, Len(pattern.labels)) = pattern.labels

\* AddrSpec::matches, the IP-only form of from: and of client rules.
Matches(spec, addr, port) ==
    (\E cidr \in spec.cidrs : Contains(cidr, addr)) /\ PortMatches(spec, port)

MatchesDest(spec, dest) ==
    /\ PortMatches(spec, dest.port)
    /\ \/ \E cidr \in spec.cidrs : Contains(cidr, dest.addr)
       \/ dest.host # None /\ \E pattern \in spec.hosts : HostMatches(pattern, dest.host)

\* AddrSpec::matches_all: any port, and a /0 in each family.
MatchesAll(spec) ==
    /\ spec.ports = None
    /\ \E cidr \in spec.cidrs : cidr.prefix = 0 /\ ~cidr.v6
    /\ \E cidr \in spec.cidrs : cidr.prefix = 0 /\ cidr.v6

matches_client(rule, client, proxy) ==
    /\ rule.scope = "client"
    /\ Matches(rule.from, client.addr, client.port)
    /\ Matches(rule.to, proxy.addr, proxy.port)

\* The part of a socks rule that does not look at the destination.
\* An empty set of commands, protocols or methods restricts nothing.
Applies(rule, client, command, protocol, method) ==
    /\ rule.scope = "socks"
    /\ Matches(rule.from, client.addr, client.port)
    /\ rule.commands = {} \/ command \in rule.commands
    /\ rule.protocols = {} \/ protocol \in rule.protocols
    /\ rule.methods = {} \/ method \in rule.methods

matches_socks(rule, client, dest, command, protocol, method) ==
    Applies(rule, client, command, protocol, method) /\ MatchesDest(rule.to, dest)

\* evaluate_client_detail and evaluate_socks_detail: the first match decides.
evaluate_client(rules, client, proxy) ==
    \E i \in DOMAIN rules :
        /\ matches_client(rules[i], client, proxy)
        /\ rules[i].pass
        /\ \A j \in 1 .. i - 1 : ~matches_client(rules[j], client, proxy)

evaluate_socks(rules, client, dest, command, protocol, method) ==
    \E i \in DOMAIN rules :
        /\ matches_socks(rules[i], client, dest, command, protocol, method)
        /\ rules[i].pass
        /\ \A j \in 1 .. i - 1 : ~matches_socks(rules[j], client, dest, command, protocol, method)

\* Faulty: any rule that blocks ends the search.
udp_associate_reachable_AnyBlock(rules, client, method) ==
    \E i \in DOMAIN rules :
        /\ Applies(rules[i], client, "udp", "udp", method)
        /\ rules[i].pass
        /\ \A j \in 1 .. i - 1 : ~Applies(rules[j], client, "udp", "udp", method)

\* Whether some rule could let a datagram of this client pass: the first that
\* applies and passes, unless one before it blocks every destination.
udp_associate_reachable(rules, client, method) ==
    \E i \in DOMAIN rules :
        /\ Applies(rules[i], client, "udp", "udp", method)
        /\ rules[i].pass
        /\ \A j \in 1 .. i - 1 :
               Applies(rules[j], client, "udp", "udp", method) /\ ~rules[j].pass
                   => ~MatchesAll(rules[j].to)

-----------------------------------------------------------------------------

\* What a rule set lets a datagram do.
MayPass(rules, client, dest, method) == evaluate_socks(rules, client, dest, "udp", "udp", method)
=============================================================================
