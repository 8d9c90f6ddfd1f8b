------------------------------ MODULE MCBridge ------------------------------
(***************************************************************************)
(* Two machines for TLC, of which one runs: "path", the bytes of one       *)
(* generation (BridgePath), and "life", its making and losing (Bridge).    *)
(* The path is loaded until every queue is full, or loses a part.          *)
(***************************************************************************)
EXTENDS Bridge, BridgePath, TLC

CONSTANTS c1, c2

MCChannels == {c1, c2}

MCBudgets ==
    {[client |-> 4, agent |-> 2, fault |-> 0], [client |-> 1, agent |-> 1, fault |-> 1]}

\* The machine that does not run has come to its end.
MCInit ==
    \/ PathInit /\ Stopped
    \/ Ended /\ LifeInit

MCNext ==
    \/ PathNext /\ UNCHANGED lifeVars
    \/ LifeNext /\ UNCHANGED pathVars

MCSpec == MCInit /\ [][MCNext]_<<pathVars, lifeVars>> /\ PathFairness /\ LifeFairness

\* ActorDrains and TearsDown of BridgePath: whatever is full, the thread of the
\* channel comes back to it, and a lost part takes the others down.
PathMoves == ActorDrains /\ TearsDown

\* Reconnects and DropReleases of Bridge: the transport comes back when nothing
\* more is lost, and a dropped connector leaves nothing behind.
LifeGoesOn == Reconnects /\ DropReleases
=============================================================================
