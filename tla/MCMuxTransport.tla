--------------------------- MODULE MCMuxTransport ---------------------------
(***************************************************************************)
(* Two scenarios of MuxTransport for TLC.  "workers": the workers of one   *)
(* stream at both ends, under the keepalive of the client.  "drivers": no  *)
(* stream moves before its session ends, and the client's requests and the *)
(* agent's keepalive fill every queue between the two drivers, until the   *)
(* timeouts end the session.  A scenario bars only steps that no fairness  *)
(* condition promises: requests, keepalive ticks, and the start of a       *)
(* worker's turn.                                                          *)
(***************************************************************************)
EXTENDS MuxTransport, TLC

CONSTANTS
    s1,
    ClientPings, AgentPings

OneStream == {s1}

MCMaxPings == [e \in Ends |-> IF e = "client" THEN ClientPings ELSE AgentPings]

VARIABLE scenario

MCInit == Init /\ scenario \in {"workers", "drivers"}

MCNext ==
    /\ Next
    /\ scenario = "workers" =>
          requests' = 0 /\ pings'["agent"] = 0 /\ \A s \in Streams : outbound'["agent"][s] # "data"
    /\ scenario = "drivers" => (workerVars' = workerVars \/ session' # session)
                             /\ pings'["client"] = 0
    /\ UNCHANGED scenario

MCSpec == MCInit /\ [][MCNext]_<<vars, scenario>> /\ Fairness
=============================================================================
