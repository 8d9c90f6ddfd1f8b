---------------------------- MODULE Association ----------------------------
(***************************************************************************)
(* What a UDP association promises, whoever relays its datagrams: the      *)
(* client is one endpoint, once it is known; a datagram leaves only for a  *)
(* destination the policy allows; and one reaches the client only from a   *)
(* peer that the client has written to.                                    *)
(***************************************************************************)
CONSTANTS
    Endpoints,      \* where the client may send from
    Allowed,        \* destinations that the policy and the rules allow
    Remotes,        \* what may answer
    None

VARIABLES
    strict,     \* a peer is a host and its port, not the host alone
    open,       \* the association exists
    endpoint,   \* of the client, or None
    peers,      \* peers the client has written to
    out         \* the last datagram that left: its remote, and the client if it was for him

vars == <<strict, open, endpoint, peers, out>>

PeerOf(addr) == IF strict THEN addr ELSE [addr EXCEPT !.port = 0]

Init ==
    /\ strict \in BOOLEAN
    /\ open = TRUE
    /\ endpoint \in Endpoints \cup {None}
    /\ peers = {}
    /\ out = None

\* One datagram of the client: it may be the one that tells who he is, and it
\* may be lost on the way or refused.
FromClient ==
    /\ open
    /\ endpoint' \in IF endpoint = None THEN Endpoints ELSE {endpoint}
    /\ \/ \E dest \in Allowed :
              /\ peers' = peers \cup {PeerOf(dest)}
              /\ out' \in {out, [client |-> None, addr |-> dest]}
       \/ UNCHANGED <<peers, out>>
    /\ open' \in BOOLEAN
    /\ UNCHANGED strict

ToClient ==
    /\ open
    /\ endpoint # None
    /\ \E remote \in Remotes :
           PeerOf(remote) \in peers /\ out' = [client |-> endpoint, addr |-> remote]
    /\ open' \in BOOLEAN
    /\ UNCHANGED <<strict, endpoint, peers>>

Close ==
    /\ open
    /\ open' = FALSE
    /\ UNCHANGED <<strict, endpoint, peers, out>>

Next == FromClient \/ ToClient \/ Close

Spec == Init /\ [][Next]_vars
=============================================================================
