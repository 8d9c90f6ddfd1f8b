------------------------------- MODULE MCDns -------------------------------
(* Instances of Dns for TLC. *)
EXTENDS Dns, TLC

CONSTANTS c1, c2, c3, k1, k2

ThreeCallers == {c1, c2, c3}
TwoKeys == {k1, k2}

\* Two requests for one name and one for another, which the single slots fight over.
Names == c1 :> k1 @@ c2 :> k1 @@ c3 :> k2
WithTtl == {c1, c3}
=============================================================================
