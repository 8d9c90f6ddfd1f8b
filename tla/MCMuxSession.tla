---------------------------- MODULE MCMuxSession ----------------------------
(***************************************************************************)
(* Three scenarios of MuxSession for TLC.                                  *)
(* "scarce": one stream slot, so that two callers, relays that outlive     *)
(* their streams and repeated opens compete for it, and the session may be *)
(* lost; the third caller waits for a slot until its deadline passes       *)
(* (mux.rs times out that wait too) or the session ends.                   *)
(* "racing": a slot for each of two callers, so that their admissions,     *)
(* whose IDs must reach the agent in order, race.                          *)
(* "spent": three callers, and IDs for two of them.                        *)
(***************************************************************************)
EXTENDS MuxSession, TLC

CONSTANTS r1, i1, i2

MCResolvers == {r1}
MCIpCallers == {i1, i2}

VARIABLE scenario

Racing == INSTANCE MuxSession WITH MaxStreams <- 2, MaxOpens <- 1, Losable <- FALSE
Spent == INSTANCE MuxSession WITH MaxOpens <- 0, Losable <- FALSE

MCInit ==
    \/ scenario \in {"scarce", "spent"} /\ Init
    \/ scenario = "racing" /\ Racing!Init

MCNext ==
    /\ \/ scenario = "scarce" /\ Next /\ pc'[i2] \in {"new", "done"}
       \/ scenario = "racing" /\ Racing!Next /\ pc'[i2] = "new"
       \/ scenario = "spent" /\ Spent!Next
    /\ UNCHANGED scenario

\* The conditions bind the scarce session.  A third caller that waited for ever beside
\* a free slot would be unfair, so its deadline passes sooner or later; the other two
\* need not ever give up.  The other scenarios are checked for safety.
MCSpec == MCInit /\ [][MCNext]_<<vars, scenario>> /\ Fairness

\* In each scenario no permit is lost or duplicated from the caller through the
\* command, the entry, the tombstone and the reply, and max_streams bounds both
\* maps and the work that outlives its stream.
SlotsAccounted ==
    IF scenario = "racing"
    THEN Racing!TypeOK /\ Racing!PermitsAccounted /\ Racing!StreamLimit
    ELSE TypeOK /\ PermitsAccounted /\ StreamLimit

\* The scarce session: all slots come back and both maps empty once its callers are
\* done, by whatever timeouts, cancellations and closes, or the session is given up;
\* and no request outlives the session.
NothingLeft == scenario = "scarce" => NothingLeaks /\ RequestsEnd
=============================================================================
