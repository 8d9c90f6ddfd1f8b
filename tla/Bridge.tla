------------------------------- MODULE Bridge -------------------------------
(***************************************************************************)
(* Generations of the RDP transport: the connector of the proxy            *)
(* (rdp/windows/client.rs), the COM transport that mstsc loads             *)
(* (transport.rs), the named pipe between them (pipe.rs), the Dynamic      *)
(* Virtual Channel, and the agent of the remote session (wts.rs).  What a  *)
(* generation carries is BridgePath; here it is made, lost and made again. *)
(*                                                                         *)
(* A channel slot stands for one channel, its SessionBridge with two       *)
(* threads, its pipe and the agent's WTS actor; it is used again when      *)
(* nothing refers to it.  A loss without a cause spends the budget.        *)
(***************************************************************************)
EXTENDS Naturals, FiniteSets

CONSTANTS
    Channels,   \* channel slots
    MaxLosses   \* bound: losses, failures and stops without a cause in the model

None == "none"

ASSUME LifeAssumption == None \notin Channels /\ MaxLosses \in Nat

VARIABLES
    owner,      \* the RdpConnector: "held" or "dropped"
    loop,       \* reconnect_loop
    driver,     \* the client's session task: "none", "up" or "ended"
    link,       \* the channel whose pipe the client has open, or None
    current,    \* the published handle: its channel, or None
    active,     \* BridgeHub.active
    bridge,     \* the SessionBridge of a channel: "none", "open" or "closed"
    pipeThread, \* "none", "start", "listen", "joined" or "done"
    dvcWriter,  \* "none", "run" or "done"
    dvc,        \* the channel: "none", "up" or "gone"
    wtsActor,   \* "none", "run", "stuck" in a native call, or "done"
    hello,      \* channels whose bridge has received the agent's HELLO
    agent,      \* run_agent: "open", "hello", "serve", "sleep", or "done"
    serving,    \* the channel of the agent's session, or None
    losses

clientVars == <<owner, loop, driver, link, current>>
transportVars == <<active, bridge, pipeThread, dvcWriter, hello>>
agentVars == <<agent, serving, wtsActor>>
lifeVars == <<clientVars, transportVars, dvc, agentVars, losses>>

\* Something is lost for a cause the model knows, or by itself.
Loss(cause) == IF cause THEN UNCHANGED losses
                        ELSE losses < MaxLosses /\ losses' = losses + 1

-----------------------------------------------------------------------------
(* The connector's reconnect_loop (client.rs) over connect_client (pipe.rs).*)

\* The one instance of the pipe exists while either end of it is open.
PipeHeld == link # None \/ \E c \in Channels : pipeThread[c] \in {"listen", "joined"}

\* The loop's select looks at the shutdown first.
Looping(pc) == loop = pc /\ owner = "held"

Connect(c) ==
    /\ Looping("connect") /\ pipeThread[c] = "listen"
    /\ pipeThread' = [pipeThread EXCEPT ![c] = "joined"]
    /\ link' = c /\ loop' = "handshake"
    /\ UNCHANGED <<owner, driver, current, active, bridge, dvcWriter, hello, dvc, agentVars, losses>>

\* No pipe, or one that is still busy after the retries.
ConnectFails ==
    /\ Looping("connect") /\ \A c \in Channels : pipeThread[c] # "listen"
    /\ loop' = "sleep"
    /\ UNCHANGED <<owner, driver, link, current, transportVars, dvc, agentVars, losses>>

\* The agent's HELLO was waiting in the bridge; the driver starts.
ClientHello ==
    /\ Looping("handshake") /\ link \in hello /\ pipeThread[link] = "joined"
    /\ loop' = "publish" /\ driver' = "up"
    /\ UNCHANGED <<owner, link, current, transportVars, dvc, agentVars, losses>>

\* The agent's HELLO can still come.
HelloComing(c) ==
    /\ pipeThread[c] = "joined" /\ bridge[c] = "open" /\ dvc[c] = "up"
    /\ c \in hello \/ (serving = c /\ wtsActor[c] = "run")

\* The pipe is closed, the peer's HELLO is wrong, or HANDSHAKE_TIMEOUT.
HandshakeFails ==
    /\ Looping("handshake")
    /\ Loss(~HelloComing(link))
    /\ loop' = "sleep" /\ link' = None
    /\ UNCHANGED <<owner, driver, current, transportVars, dvc, agentVars>>

\* The owner was dropped meanwhile: the driver is aborted.
Publish ==
    /\ loop = "publish"
    /\ IF owner = "held"
       THEN loop' = "serve" /\ current' = link /\ UNCHANGED <<driver, link>>
       ELSE loop' = "done" /\ driver' = "none" /\ link' = None /\ UNCHANGED current
    /\ UNCHANGED <<owner, transportVars, dvc, agentVars, losses>>

\* The pipe is closed under the session, its pings go unanswered, or it fails.
DriverEnds ==
    /\ driver = "up"
    /\ Loss(pipeThread[link] = "done" \/ serving # link \/ wtsActor[link] = "stuck")
    /\ driver' = "ended" /\ link' = None
    /\ UNCHANGED <<owner, loop, current, transportVars, dvc, agentVars>>

\* Faulty: the handle is left in place for the next generation to replace.
Withdraw_Kept ==
    /\ Looping("serve") /\ driver = "ended"
    /\ loop' = "sleep" /\ driver' = "none"
    /\ UNCHANGED <<owner, link, current, transportVars, dvc, agentVars, losses>>

Withdraw ==
    /\ Looping("serve") /\ driver = "ended"
    /\ current' = None /\ loop' = "sleep" /\ driver' = "none"
    /\ UNCHANGED <<owner, link, transportVars, dvc, agentVars, losses>>

Wake ==
    /\ Looping("sleep") /\ loop' = "connect"
    /\ UNCHANGED <<owner, driver, link, current, transportVars, dvc, agentVars, losses>>

\* RdpConnector::drop takes the handle with it.
DropConnector ==
    /\ owner = "held" /\ owner' = "dropped"
    /\ current' = None /\ Loss(FALSE)
    /\ UNCHANGED <<loop, driver, link, transportVars, dvc, agentVars>>

\* Faulty: the driver task is left to itself.
Shutdown_Detached ==
    /\ owner = "dropped" /\ loop \notin {"publish", "done"}
    /\ loop' = "done"
    /\ link' = IF driver = "up" THEN link ELSE None
    /\ UNCHANGED <<owner, driver, current, transportVars, dvc, agentVars, losses>>

\* Every await of the loop ends on the shutdown, and takes the pipe with it.
Shutdown ==
    /\ owner = "dropped" /\ loop \notin {"publish", "done"}
    /\ loop' = "done" /\ driver' = "none" /\ link' = None
    /\ UNCHANGED <<owner, current, transportVars, dvc, agentVars, losses>>

-----------------------------------------------------------------------------
(* The COM transport: BridgeHub, SessionBridge and its two threads.        *)

\* A session that is still open has the only slot of BridgeHub.
Occupied == active # None /\ bridge[active] = "open"

\* The agent opens a channel, and OnNewChannelConnection accepts it.
OpenChannel(c) ==
    /\ agent = "open" /\ dvc[c] = "none" /\ ~Occupied
    /\ bridge' = [bridge EXCEPT ![c] = "open"] /\ active' = c
    /\ pipeThread' = [pipeThread EXCEPT ![c] = "start"]
    /\ dvcWriter' = [dvcWriter EXCEPT ![c] = "run"]
    /\ dvc' = [dvc EXCEPT ![c] = "up"] /\ wtsActor' = [wtsActor EXCEPT ![c] = "run"]
    /\ agent' = "hello" /\ serving' = c
    /\ UNCHANGED <<clientVars, hello, losses>>

\* The pipe thread cannot be started: the session is closed, its writer is left
\* to close the channel, and the channel is rejected.
OpenHalfStarted(c) ==
    /\ agent = "open" /\ dvc[c] = "none" /\ ~Occupied
    /\ Loss(FALSE)
    /\ bridge' = [bridge EXCEPT ![c] = "closed"]
    /\ pipeThread' = [pipeThread EXCEPT ![c] = "done"]
    /\ dvcWriter' = [dvcWriter EXCEPT ![c] = "run"]
    /\ dvc' = [dvc EXCEPT ![c] = "up"] /\ wtsActor' = [wtsActor EXCEPT ![c] = "done"]
    /\ agent' = "sleep"
    /\ UNCHANGED <<clientVars, active, hello, serving>>

\* The channel is rejected, or there is none.
OpenFails ==
    /\ agent = "open"
    /\ Occupied \/ \A c \in Channels : dvc[c] # "none"
    /\ agent' = "sleep"
    /\ UNCHANGED <<clientVars, transportVars, dvc, serving, wtsActor, losses>>

\* run_pipe_bridge: first_pipe_instance fails while an older instance exists.
CreatePipe(c) ==
    /\ pipeThread[c] = "start"
    /\ IF PipeHeld
       THEN /\ pipeThread' = [pipeThread EXCEPT ![c] = "done"]
            /\ bridge' = [bridge EXCEPT ![c] = "closed"]
       ELSE /\ pipeThread' = [pipeThread EXCEPT ![c] = "listen"]
            /\ UNCHANGED bridge
    /\ UNCHANGED <<clientVars, active, dvcWriter, hello, dvc, agentVars, losses>>

\* The stop signal, or the client's end of the pipe is closed.
PipeEnds(c) ==
    /\ \/ pipeThread[c] \in {"listen", "joined"} /\ bridge[c] = "closed"
       \/ pipeThread[c] = "joined" /\ link # c
    /\ pipeThread' = [pipeThread EXCEPT ![c] = "done"]
    /\ bridge' = [bridge EXCEPT ![c] = "closed"]
    /\ UNCHANGED <<clientVars, active, dvcWriter, hello, dvc, agentVars, losses>>

\* The queue is closed, or a Write of the client's bytes fails: the channel is closed, then the session.
WriterEnds(c) ==
    /\ dvcWriter[c] = "run"
    /\ Loss(pipeThread[c] = "done" \/ (dvc[c] = "gone" /\ link = c))
    /\ dvcWriter' = [dvcWriter EXCEPT ![c] = "done"]
    /\ dvc' = [dvc EXCEPT ![c] = "gone"]
    /\ bridge' = [bridge EXCEPT ![c] = "closed"]
    /\ UNCHANGED <<clientVars, active, pipeThread, hello, agentVars>>

\* OnClose or the drop of the callback, since the channel is gone; Disconnected,
\* Terminated, an overflow or the console's shutdown.
CloseSession(c) ==
    /\ bridge[c] = "open"
    /\ Loss(dvc[c] = "gone")
    /\ bridge' = [bridge EXCEPT ![c] = "closed"]
    /\ UNCHANGED <<clientVars, active, pipeThread, dvcWriter, hello, dvc, agentVars>>

\* The RDP connection is lost.
ChannelLost(c) ==
    /\ dvc[c] = "up" /\ Loss(FALSE)
    /\ dvc' = [dvc EXCEPT ![c] = "gone"]
    /\ UNCHANGED <<clientVars, transportVars, agentVars>>

\* The transport's process dies with its sessions, threads and pipe.
TransportDies ==
    /\ \E c \in Channels : bridge[c] # "none"
    /\ Loss(FALSE)
    /\ bridge' = [c \in Channels |-> IF bridge[c] = "none" THEN "none" ELSE "closed"]
    /\ pipeThread' = [c \in Channels |-> IF pipeThread[c] = "none" THEN "none" ELSE "done"]
    /\ dvcWriter' = [c \in Channels |-> IF dvcWriter[c] = "none" THEN "none" ELSE "done"]
    /\ dvc' = [c \in Channels |-> IF dvc[c] = "none" THEN "none" ELSE "gone"]
    /\ active' = None
    /\ UNCHANGED <<clientVars, hello, agentVars>>

-----------------------------------------------------------------------------
(* The agent (wts.rs): open_bridge, AgentBridge::run and the actor.        *)

Carried(c) == dvc[c] = "up" /\ wtsActor[c] = "run" /\ bridge[c] = "open"

\* The HELLO that the agent's session starts with reaches the bridge.
HelloArrives(c) ==
    /\ serving = c /\ c \notin hello /\ Carried(c)
    /\ hello' = hello \cup {c}
    /\ UNCHANGED <<clientVars, active, bridge, pipeThread, dvcWriter, dvc, agentVars, losses>>

\* The client's HELLO, written as soon as it has the pipe, reaches the agent.
AgentHello ==
    /\ agent = "hello" /\ Carried(serving) /\ pipeThread[serving] = "joined"
    /\ agent' = "serve"
    /\ UNCHANGED <<clientVars, transportVars, dvc, serving, wtsActor, losses>>

\* A client may still join the agent's channel within HANDSHAKE_TIMEOUT, which is
\* twice the longest back-off of the connector; or it answers pings.
ClientComing ==
    /\ Carried(serving)
    /\ IF agent = "hello"
       THEN owner = "held" /\ pipeThread[serving] # "done"
       ELSE link = serving

\* The session ends, the pump is stopped and reaped.
AgentEnds ==
    /\ agent \in {"hello", "serve"}
    /\ Loss(~ClientComing)
    /\ agent' = "sleep" /\ serving' = None
    /\ UNCHANGED <<clientVars, transportVars, dvc, wtsActor>>

AgentWakes ==
    /\ agent = "sleep" /\ agent' = "open"
    /\ UNCHANGED <<clientVars, transportVars, dvc, serving, wtsActor, losses>>

\* Ctrl+C, which run_agent looks for but in the pause after a generation.
AgentQuits ==
    /\ agent \in {"hello", "serve", "open"} /\ Loss(FALSE)
    /\ agent' = "done" /\ serving' = None
    /\ UNCHANGED <<clientVars, transportVars, dvc, wtsActor>>

\* Its queue is closed or the channel is: the actor closes the channel.
ActorEnds(c) ==
    /\ \/ wtsActor[c] = "run" /\ (serving # c \/ dvc[c] = "gone")
       \/ wtsActor[c] = "stuck" /\ dvc[c] = "gone"
    /\ wtsActor' = [wtsActor EXCEPT ![c] = "done"]
    /\ dvc' = [dvc EXCEPT ![c] = "gone"]
    /\ UNCHANGED <<clientVars, transportVars, agent, serving, losses>>

\* A native call does not return while the channel is open.
ActorSticks(c) ==
    /\ wtsActor[c] = "run" /\ Loss(FALSE)
    /\ wtsActor' = [wtsActor EXCEPT ![c] = "stuck"]
    /\ UNCHANGED <<clientVars, transportVars, dvc, agent, serving>>

\* Nothing refers to the channel any more; its slot stands for the next one.
Recycle(c) ==
    /\ bridge[c] = "closed" /\ dvc[c] = "gone"
    /\ pipeThread[c] = "done" /\ dvcWriter[c] = "done" /\ wtsActor[c] = "done"
    /\ c \notin {link, serving}
    /\ bridge' = [bridge EXCEPT ![c] = "none"] /\ dvc' = [dvc EXCEPT ![c] = "none"]
    /\ pipeThread' = [pipeThread EXCEPT ![c] = "none"]
    /\ dvcWriter' = [dvcWriter EXCEPT ![c] = "none"]
    /\ wtsActor' = [wtsActor EXCEPT ![c] = "none"]
    /\ hello' = hello \ {c} /\ active' = IF active = c THEN None ELSE active
    /\ UNCHANGED <<clientVars, agent, serving, losses>>

-----------------------------------------------------------------------------
LifeInit ==
    /\ owner = "held" /\ loop = "connect" /\ driver = "none"
    /\ link = None /\ current = None /\ active = None
    /\ bridge = [c \in Channels |-> "none"] /\ pipeThread = [c \in Channels |-> "none"]
    /\ dvcWriter = [c \in Channels |-> "none"] /\ dvc = [c \in Channels |-> "none"]
    /\ wtsActor = [c \in Channels |-> "none"] /\ hello = {}
    /\ agent = "open" /\ serving = None /\ losses = 0

\* The proxy and the agent have both been stopped.
Stopped ==
    /\ owner = "dropped" /\ loop = "done" /\ driver = "none"
    /\ link = None /\ current = None /\ active = None
    /\ bridge = [c \in Channels |-> "none"] /\ pipeThread = [c \in Channels |-> "none"]
    /\ dvcWriter = [c \in Channels |-> "none"] /\ dvc = [c \in Channels |-> "none"]
    /\ wtsActor = [c \in Channels |-> "none"] /\ hello = {}
    /\ agent = "done" /\ serving = None /\ losses = MaxLosses

LifeNext ==
    \/ \E c \in Channels : Connect(c) \/ OpenChannel(c) \/ OpenHalfStarted(c) \/ CreatePipe(c)
          \/ PipeEnds(c) \/ WriterEnds(c) \/ CloseSession(c) \/ ChannelLost(c)
          \/ HelloArrives(c) \/ ActorEnds(c) \/ ActorSticks(c) \/ Recycle(c)
    \/ ConnectFails \/ ClientHello \/ HandshakeFails \/ Publish \/ DriverEnds \/ Withdraw
    \/ Wake \/ DropConnector \/ Shutdown
    \/ OpenFails \/ TransportDies \/ AgentHello \/ AgentEnds \/ AgentWakes
    \/ AgentQuits

LifeSpec == LifeInit /\ [][LifeNext]_lifeVars

(***************************************************************************)
(* Tasks and threads that can run do, and timeouts fire.  The loss of an   *)
(* end is fair where it has a cause.                                       *)
(***************************************************************************)
Caused(A) == A /\ losses' = losses

LifeFairness ==
    /\ WF_lifeVars(\E c \in Channels : Connect(c)) /\ WF_lifeVars(ConnectFails) /\ WF_lifeVars(ClientHello)
    /\ WF_lifeVars(Caused(HandshakeFails)) /\ WF_lifeVars(Publish) /\ WF_lifeVars(Caused(DriverEnds))
    /\ WF_lifeVars(Withdraw) /\ WF_lifeVars(Wake) /\ WF_lifeVars(Shutdown)
    /\ WF_lifeVars(\E c \in Channels : OpenChannel(c)) /\ WF_lifeVars(OpenFails)
    /\ WF_lifeVars(AgentHello) /\ WF_lifeVars(Caused(AgentEnds)) /\ WF_lifeVars(AgentWakes)
    /\ \A c \in Channels :
          /\ WF_lifeVars(CreatePipe(c)) /\ WF_lifeVars(PipeEnds(c))
          /\ WF_lifeVars(Caused(WriterEnds(c))) /\ WF_lifeVars(Caused(CloseSession(c)))
          /\ WF_lifeVars(HelloArrives(c)) /\ WF_lifeVars(ActorEnds(c)) /\ WF_lifeVars(Recycle(c))

LifeFairSpec == LifeSpec /\ LifeFairness

-----------------------------------------------------------------------------
(***************************************************************************)
(* Type correctness.                                                       *)
(***************************************************************************)
LifeTypeOK ==
    /\ owner \in {"held", "dropped"} /\ driver \in {"none", "up", "ended"}
    /\ loop \in {"connect", "handshake", "publish", "serve", "sleep", "done"}
    /\ {link, current, active, serving} \subseteq Channels \cup {None}
    /\ bridge \in [Channels -> {"none", "open", "closed"}]
    /\ pipeThread \in [Channels -> {"none", "start", "listen", "joined", "done"}]
    /\ dvcWriter \in [Channels -> {"none", "run", "done"}]
    /\ dvc \in [Channels -> {"none", "up", "gone"}]
    /\ wtsActor \in [Channels -> {"none", "run", "stuck", "done"}]
    /\ agent \in {"open", "hello", "serve", "sleep", "done"} /\ losses \in 0 .. MaxLosses

(***************************************************************************)
(* One bridge: whatever is lost and reopened in whichever order, at most   *)
(* one session is open and one pipe instance exists, the client's pipe     *)
(* leads to that bridge or to nowhere, and its handle is published only    *)
(* while the generation it belongs to has not been replaced.               *)
(***************************************************************************)
OneBridge ==
    /\ LifeTypeOK
    /\ Cardinality({c \in Channels : bridge[c] = "open"}) <= 1
    /\ Cardinality({c \in Channels : pipeThread[c] \in {"listen", "joined"}}) <= 1
    /\ \A c \in Channels : pipeThread[c] \in {"listen", "joined"} => link \in {c, None}
    /\ current # None =>
          loop = "serve" /\ owner = "held" /\ (link = current \/ driver = "ended")

(***************************************************************************)
(* The transport comes back: once nothing more is lost, the handle that is *)
(* published is and stays that of a session with the agent, unless the     *)
(* connector is dropped or the agent quits.                                *)
(***************************************************************************)
Ready == link # None /\ current = link /\ serving = link /\ agent = "serve" /\ driver = "up"

Reconnects == <>[](owner = "held" /\ agent # "done" => Ready)

(***************************************************************************)
(* A dropped connector leaves nothing behind: its loop and driver end and  *)
(* the pipe is released for another process.                               *)
(***************************************************************************)
DropReleases ==
    owner = "dropped" ~> (loop = "done" /\ driver # "up" /\ link = None
                          /\ \A c \in Channels : pipeThread[c] # "joined")
=============================================================================
