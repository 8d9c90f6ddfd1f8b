------------------------------- MODULE MCUdp -------------------------------
(***************************************************************************)
(* Two ports of the client, three destinations on two hosts of which one   *)
(* is not allowed, room for two contacted remotes.                         *)
(***************************************************************************)
EXTENDS Udp

Dest(h, p) == [host |-> h, port |-> p]
MCDests == {Dest("a", 1), Dest("a", 2), Dest("b", 1), Dest("c", 1)}
MCAllowed == MCDests \ {Dest("c", 1)}
=============================================================================
