----------------------------- MODULE MuxSession -----------------------------
(***************************************************************************)
(* The life of the logical streams of one RDP session (rdp/mux.rs): the    *)
(* callers of ClientHandle, the client driver, the agent driver and the    *)
(* operations and relays that the agent spawns.                            *)
(*                                                                         *)
(* A driver handles one command, frame, operation result or worker event   *)
(* at a time, so a handler is one action.  Callers run beside it: between  *)
(* any two of their awaits a request may time out or be dropped.  Frames   *)
(* travel in FIFO order; toAgent and toClient hold the ones queued and not *)
(* yet handled.  What an open stream carries is in MuxStream: here an open *)
(* stream can only be closed, by either side or by both.                   *)
(*                                                                         *)
(* A definition named after another, with an underscore and a word, is a   *)
(* faulty variant of it: a bug the properties are known to catch.          *)
(***************************************************************************)
EXTENDS Naturals, Sequences, FiniteSets

CONSTANTS
    Resolvers,       \* callers of ClientHandle::resolve, then ResolvedTarget::open
    IpCallers,       \* callers of ClientHandle::open_ip
    MaxStreams,      \* NegotiatedLimits.max_streams
    CommandCapacity, \* CONTROL_QUEUE_CAPACITY of the command channel
    IdLimit,         \* u32::MAX
    MaxOpens,        \* bound: how often one caller opens a resolved target
    Losable          \* bound: whether the transport may be lost

Callers == Resolvers \cup IpCallers
Ends == {"client", "agent"}
Ids == {n \in 1 .. IdLimit : n % 2 = 1}

ASSUME LimitsAssumption ==
    /\ MaxStreams \in Nat \ {0} /\ CommandCapacity \in Nat \ {0}
    /\ IdLimit \in Nat \ {0} /\ MaxOpens \in Nat /\ Losable \in BOOLEAN
ASSUME CallersAssumption ==
    IsFiniteSet(Callers) /\ Resolvers \cap IpCallers = {}

VARIABLES
    \* ClientHandle and the callers
    pc,         \* what the caller awaits or holds
    id,         \* the stream ID it was given
    holdsSlot,  \* the caller itself holds a permit of the slots semaphore
    reply,      \* the value in its oneshot channel
    opens,
    slots,      \* permits available in ClientInner.slots
    nextStreamId, shutdown, commands,
    \* the two drivers
    session, streams,
    candidates, \* the entry has the candidate set of a RESOLVE
    permit,     \* the client's entry holds a permit
    highestStreamId, operations, relays,
    \* StreamShared of open streams, per end
    dropped, remoteClosed, closeQueued, events,
    toAgent, toClient

callerVars == <<pc, id, holdsSlot, reply, opens>>
handleVars == <<nextStreamId, shutdown>>
agentVars == <<highestStreamId, operations, relays>>
sharedVars == <<dropped, remoteClosed, closeQueued>>
vars == <<callerVars, slots, handleVars, commands, session, streams, candidates, permit,
          agentVars, sharedVars, events, toAgent, toClient>>

NoReply == [kind |-> "none", permit |-> FALSE]
Owner(i) == CHOOSE c \in Callers : id[c] = i

Count(flag) == IF flag THEN 1 ELSE 0
Entries(e) == {i \in Ids : streams[e][i] # "none"}

-----------------------------------------------------------------------------
(* Callers.                                                                *)

\* Faulty: try_send's error is ignored, and CLOSE lost, when the queue is full.
CloseBestEffort_Lossy(i) ==
    /\ commands' = IF session["client"] = "up" /\ Len(commands) < CommandCapacity
                   THEN Append(commands, [type |-> "Close", id |-> i, permit |-> FALSE])
                   ELSE commands
    /\ UNCHANGED shutdown

\* ClientHandle::close_best_effort: a full queue ends the generation.
CloseBestEffort(i) ==
    IF session["client"] # "up"
    THEN UNCHANGED <<commands, shutdown>>
    ELSE IF Len(commands) < CommandCapacity
         THEN /\ commands' = Append(commands, [type |-> "Close", id |-> i, permit |-> FALSE])
              /\ UNCHANGED shutdown
         ELSE shutdown' = TRUE /\ UNCHANGED commands

AcquireSlot(c) ==
    /\ pc[c] = "new"
    /\ session["client"] = "up"
    /\ slots > 0
    /\ slots' = slots - 1
    /\ holdsSlot' = [holdsSlot EXCEPT ![c] = TRUE]
    /\ pc' = [pc EXCEPT ![c] = "admitting"]
    /\ UNCHANGED <<id, reply, opens, handleVars, commands, session, streams, candidates,
                   permit, agentVars, sharedVars, events, toAgent, toClient>>

\* Faulty: IDs are handed out to callers that race each other to the command queue.
AdmissionFree_Always == Callers # {}

\* The admission mutex is held until the command is queued.
AdmissionFree == \A c \in Callers : pc[c] # "sending"

\* checked_add(2): the last odd u32 is never handed out.
CanAllocate == nextStreamId + 2 <= IdLimit

AllocateStreamId(c) ==
    /\ pc[c] = "admitting"
    /\ AdmissionFree
    /\ IF CanAllocate
       THEN /\ id' = [id EXCEPT ![c] = nextStreamId]
            /\ nextStreamId' = nextStreamId + 2
            /\ pc' = [pc EXCEPT ![c] = "sending"]
            /\ UNCHANGED <<holdsSlot, slots, shutdown>>
       ELSE /\ shutdown' = TRUE
            /\ pc' = [pc EXCEPT ![c] = "done"]
            /\ holdsSlot' = [holdsSlot EXCEPT ![c] = FALSE]
            /\ slots' = slots + 1
            /\ UNCHANGED <<id, nextStreamId>>
    /\ UNCHANGED <<reply, opens, commands, session, streams, candidates, permit,
                   agentVars, sharedVars, events, toAgent, toClient>>

\* The command is queued and PendingClose armed; open_ip's permit goes with it.
SendCommand(c) ==
    /\ pc[c] = "sending"
    /\ session["client"] = "up" /\ Len(commands) < CommandCapacity
    /\ LET type == IF c \in Resolvers THEN "Resolve" ELSE "OpenIp"
       IN  commands' = Append(commands,
               [type |-> type, id |-> id[c], permit |-> type = "OpenIp"])
    /\ pc' = [pc EXCEPT ![c] = IF c \in Resolvers THEN "resolving" ELSE "opening"]
    /\ holdsSlot' = [holdsSlot EXCEPT ![c] = c \in Resolvers]
    /\ UNCHANGED <<id, reply, opens, slots, handleVars, session, streams, candidates,
                   permit, agentVars, sharedVars, events, toAgent, toClient>>

\* ResolvedTarget::open, up to the wait for the command queue.
OpenTarget(c) ==
    /\ pc[c] = "resolved"
    /\ opens[c] < MaxOpens
    /\ opens' = [opens EXCEPT ![c] = @ + 1]
    /\ pc' = [pc EXCEPT ![c] = "sendingOpen"]
    /\ UNCHANGED <<id, holdsSlot, reply, slots, handleVars, commands, session, streams,
                   candidates, permit, agentVars, sharedVars, events, toAgent, toClient>>

SendOpen(c) ==
    /\ pc[c] = "sendingOpen"
    /\ session["client"] = "up" /\ Len(commands) < CommandCapacity
    /\ commands' = Append(commands, [type |-> "Open", id |-> id[c], permit |-> holdsSlot[c]])
    /\ holdsSlot' = [holdsSlot EXCEPT ![c] = FALSE]
    /\ pc' = [pc EXCEPT ![c] = "opening"]
    /\ UNCHANGED <<id, reply, opens, slots, handleVars, session, streams, candidates,
                   permit, agentVars, sharedVars, events, toAgent, toClient>>

Listening(c) == pc[c] \in {"resolving", "opening"} /\ reply[c].kind = "none"

\* Everything the caller holds is dropped with its future: its permit, and a
\* reply it has not read with the stream or the permit inside.
Forget(c) ==
    /\ pc' = [pc EXCEPT ![c] = "done"]
    /\ holdsSlot' = [holdsSlot EXCEPT ![c] = FALSE]
    /\ reply' = [reply EXCEPT ![c] = NoReply]
    /\ slots' = slots + Count(holdsSlot[c]) + Count(reply[c].permit)
    /\ dropped' = IF reply[c].kind = "ok" /\ pc[c] = "opening"
                  THEN [dropped EXCEPT !["client"][id[c]] = TRUE] ELSE dropped

\* The answer arrives before the deadline.  Only success and, for a resolved
\* target, an explicit OPEN_ERROR disarm PendingClose.
TakeReply(c) ==
    /\ reply[c].kind # "none"
    /\ IF \/ reply[c].kind = "ok"
          \/ reply[c].kind = "remote" /\ pc[c] = "opening" /\ c \in Resolvers
       THEN /\ pc' = [pc EXCEPT ![c] =
                         IF pc[c] = "opening" /\ reply[c].kind = "ok" THEN "stream"
                                                                      ELSE "resolved"]
            /\ holdsSlot' = [holdsSlot EXCEPT ![c] = @ \/ reply[c].permit]
            /\ reply' = [reply EXCEPT ![c] = NoReply]
            /\ UNCHANGED <<slots, dropped, commands, shutdown>>
       ELSE Forget(c) /\ CloseBestEffort(id[c])
    /\ UNCHANGED <<id, opens, nextStreamId, session, streams, candidates, permit,
                   agentVars, remoteClosed, closeQueued, events, toAgent, toClient>>

\* A deadline passes or the caller's future is dropped, at any await.
GiveUp(c) ==
    /\ pc[c] \notin {"stream", "done"}
    /\ Forget(c)
    /\ IF pc[c] \in {"new", "admitting", "sending"}
       THEN UNCHANGED <<commands, shutdown>>
       ELSE CloseBestEffort(id[c])
    /\ UNCHANGED <<id, opens, nextStreamId, session, streams, candidates, permit,
                   agentVars, remoteClosed, closeQueued, events, toAgent, toClient>>

\* Drop of the RdpStream.
DropStream(c) ==
    /\ pc[c] = "stream"
    /\ pc' = [pc EXCEPT ![c] = "done"]
    /\ dropped' = [dropped EXCEPT !["client"][id[c]] = TRUE]
    /\ UNCHANGED <<id, holdsSlot, reply, opens, slots, handleVars, commands, session,
                   streams, candidates, permit, agentVars, remoteClosed, closeQueued,
                   events, toAgent, toClient>>

\* Faulty: sessionTasks is dropped without closing the semaphore.
Unavailable_SlotsLeftOpen(c) ==
    /\ session["client"] = "ended"
    /\ pc[c] \in {"admitting", "sending", "sendingOpen"}
    /\ Forget(c)
    /\ UNCHANGED <<id, opens, handleVars, commands, session, streams, candidates, permit,
                   agentVars, remoteClosed, closeQueued, events, toAgent, toClient>>

\* The semaphore and the channels of an ended session wake their waiters.
Unavailable(c) ==
    /\ session["client"] = "ended"
    /\ pc[c] \in {"new", "admitting", "sending", "sendingOpen"}
    /\ Forget(c)
    /\ UNCHANGED <<id, opens, handleVars, commands, session, streams, candidates, permit,
                   agentVars, remoteClosed, closeQueued, events, toAgent, toClient>>

-----------------------------------------------------------------------------
(* Both drivers.                                                           *)

ToAgent(type, i) == toAgent' = Append(toAgent, [type |-> type, id |-> i])
ToClient(type, i) == toClient' = Append(toClient, [type |-> type, id |-> i])

Become(e, i, state) == streams' = [streams EXCEPT ![e][i] = state]

\* A handler returns Err: the driver's loop breaks and ClientEnds or AgentEnds
\* follows.
ProtocolError(e) == session' = [session EXCEPT ![e] = "protocolError"]

\* The outbound worker of a record that is still in the map: it stops after
\* CLOSE from the peer and queues CLOSE, once, after a local drop.
Worker(e, i) ==
    /\ session[e] = "up" /\ streams[e][i] = "Open"
    /\ events[e][i] = "none"
    /\ \/ /\ remoteClosed[e][i] \/ (dropped[e][i] /\ closeQueued[e][i])
          /\ events' = [events EXCEPT ![e][i] = "Stopped"]
          /\ UNCHANGED <<closeQueued, toAgent, toClient>>
       \/ /\ dropped[e][i] /\ ~remoteClosed[e][i] /\ ~closeQueued[e][i]
          /\ events' = [events EXCEPT ![e][i] = "LocalCloseQueued"]
          /\ closeQueued' = [closeQueued EXCEPT ![e][i] = TRUE]
          /\ IF e = "client" THEN ToAgent("CLOSE", i) /\ UNCHANGED toClient
                             ELSE ToClient("CLOSE", i) /\ UNCHANGED toAgent
    /\ UNCHANGED <<callerVars, slots, handleVars, commands, session, streams, candidates,
                   permit, agentVars, dropped, remoteClosed>>

\* An event handled after the entry has changed finds no open record.
HandleWorkerEvent(e, i) ==
    /\ session[e] = "up"
    /\ events[e][i] # "none"
    /\ events' = [events EXCEPT ![e][i] = "none"]
    /\ LET stopped == streams[e][i] = "Open" /\ events[e][i] = "Stopped"
       IN  /\ streams' = [streams EXCEPT ![e][i] =
                  CASE stopped -> "none"
                    [] streams[e][i] = "Open" /\ ~stopped -> "Closing"
                    [] OTHER -> @]
           /\ slots' = slots + Count(stopped /\ permit[i] /\ e = "client")
           /\ permit' = [permit EXCEPT ![i] = @ /\ ~(stopped /\ e = "client")]
    /\ UNCHANGED <<callerVars, handleVars, commands, session, candidates, agentVars,
                   sharedVars, toAgent, toClient>>

-----------------------------------------------------------------------------
(* drive_client: commands.                                                 *)

\* What a client handler sends to the waiting caller, if it still waits; a permit
\* in an undelivered answer is dropped with it.
Answer(i, kind, withPermit) ==
    reply' = IF Listening(Owner(i))
             THEN [reply EXCEPT ![Owner(i)] = [kind |-> kind, permit |-> withPermit]]
             ELSE reply
Undelivered(i, withPermit) == Count(withPermit /\ ~Listening(Owner(i)))

Command(type) ==
    /\ session["client"] = "up"
    /\ commands # <<>> /\ Head(commands).type = type
    /\ commands' = Tail(commands)
    /\ UNCHANGED <<pc, id, holdsSlot, opens, handleVars, agentVars, dropped, events, toClient>>

CommandResolve ==
    /\ Command("Resolve")
    /\ LET i == Head(commands).id
       IN  \/ /\ Cardinality(Entries("client")) >= MaxStreams
              /\ Answer(i, "error", FALSE)
              /\ UNCHANGED <<session, streams, toAgent>>
           \/ /\ Cardinality(Entries("client")) < MaxStreams
              /\ IF i \in Entries("client")
                 THEN ProtocolError("client") /\ UNCHANGED <<streams, toAgent>>
                 ELSE /\ Become("client", i, "Resolving")
                      /\ ToAgent("RESOLVE", i)
                      /\ UNCHANGED session
              /\ UNCHANGED reply
    /\ UNCHANGED <<slots, candidates, permit, remoteClosed, closeQueued>>

CommandOpen ==
    /\ Command("Open")
    /\ LET i == Head(commands).id
           carried == Head(commands).permit
       IN  \/ /\ streams["client"][i] # "Resolved"
              /\ Answer(i, "error", carried)
              /\ slots' = slots + Undelivered(i, carried)
              /\ UNCHANGED <<streams, permit, toAgent>>
           \/ /\ streams["client"][i] = "Resolved"
              /\ Become("client", i, "Opening")
              /\ permit' = [permit EXCEPT ![i] = carried]
              /\ ToAgent("OPEN", i)
              /\ UNCHANGED <<slots, reply>>
    /\ UNCHANGED <<session, candidates, remoteClosed, closeQueued>>

CommandOpenIp ==
    /\ Command("OpenIp")
    /\ LET i == Head(commands).id
       IN  \/ /\ Cardinality(Entries("client")) >= MaxStreams
              /\ Answer(i, "error", FALSE)
              /\ slots' = slots + 1
              /\ UNCHANGED <<session, streams, candidates, permit, toAgent>>
           \/ /\ Cardinality(Entries("client")) < MaxStreams
              /\ IF i \in Entries("client")
                 THEN /\ ProtocolError("client")
                      /\ UNCHANGED <<streams, candidates, permit, toAgent>>
                 ELSE /\ Become("client", i, "Opening")
                      /\ candidates' = [candidates EXCEPT !["client"][i] = FALSE]
                      /\ permit' = [permit EXCEPT ![i] = TRUE]
                      /\ ToAgent("OPEN", i)
                      /\ UNCHANGED session
              /\ UNCHANGED <<slots, reply>>
    /\ UNCHANGED <<remoteClosed, closeQueued>>

\* The entry becomes a tombstone that keeps its permit until the agent's CLOSE.
CommandClose ==
    /\ Command("Close")
    /\ LET i == Head(commands).id
           state == streams["client"][i]
       IN  \/ /\ state \in {"none", "Closing"}
              /\ UNCHANGED <<reply, streams, remoteClosed, closeQueued, toAgent>>
           \/ /\ state = "Open"
              /\ Become("client", i, "Closing")
              /\ remoteClosed' = [remoteClosed EXCEPT !["client"][i] = TRUE]
              /\ closeQueued' = [closeQueued EXCEPT !["client"][i] = TRUE]
              /\ IF closeQueued["client"][i] THEN UNCHANGED toAgent ELSE ToAgent("CLOSE", i)
              /\ UNCHANGED reply
           \/ /\ state \in {"Resolving", "Resolved", "Opening"}
              /\ Become("client", i, "Closing")
              /\ IF state = "Resolved" THEN UNCHANGED reply ELSE Answer(i, "error", FALSE)
              /\ ToAgent("CLOSE", i)
              /\ UNCHANGED <<remoteClosed, closeQueued>>
    /\ UNCHANGED <<slots, session, candidates, permit>>

-----------------------------------------------------------------------------
(* drive_client: frames.                                                   *)

ClientReceives(type) ==
    /\ session["client"] = "up"
    /\ toClient # <<>> /\ Head(toClient).type = type
    /\ toClient' = Tail(toClient)
    /\ UNCHANGED <<pc, id, holdsSlot, opens, handleVars, commands, agentVars, events>>

ClientState == streams["client"][Head(toClient).id]

RecvResolveOk ==
    /\ ClientReceives("RESOLVE_OK")
    /\ LET i == Head(toClient).id
       IN  \/ /\ ClientState = "Resolving"
              /\ Answer(i, "ok", FALSE)
              /\ candidates' = [candidates EXCEPT !["client"][i] = TRUE]
              /\ IF Listening(Owner(i))
                 THEN Become("client", i, "Resolved") /\ UNCHANGED toAgent
                 ELSE Become("client", i, "Closing") /\ ToAgent("CLOSE", i)
              /\ UNCHANGED session
           \/ /\ ClientState # "Resolving"
              /\ IF ClientState = "Closing" THEN UNCHANGED session ELSE ProtocolError("client")
              /\ UNCHANGED <<reply, streams, candidates, toAgent>>
    /\ UNCHANGED <<slots, permit, sharedVars>>

\* The caller may be gone: the stream it does not take is dropped at once.
RecvOpenOk ==
    /\ ClientReceives("OPEN_OK")
    /\ LET i == Head(toClient).id
       IN  \/ /\ ClientState = "Opening"
              /\ Become("client", i, "Open")
              /\ Answer(i, "ok", FALSE)
              /\ dropped' = [dropped EXCEPT !["client"][i] = ~Listening(Owner(i))]
              /\ UNCHANGED session
           \/ /\ ClientState # "Opening"
              /\ IF ClientState = "Closing" THEN UNCHANGED session ELSE ProtocolError("client")
              /\ UNCHANGED <<reply, streams, dropped>>
    /\ UNCHANGED <<slots, candidates, permit, remoteClosed, closeQueued, toAgent>>

\* Faulty: the permit of a failed attempt is released, not handed back for the next one.
RecvOpenError_PermitDropped ==
    /\ ClientReceives("OPEN_ERROR")
    /\ LET i == Head(toClient).id
           retry == ClientState = "Opening" /\ candidates["client"][i]
       IN  /\ Answer(i, "remote", FALSE)
           /\ streams' = [streams EXCEPT !["client"][i] =
                             CASE retry -> "Resolved" [] @ = "Closing" -> @ [] OTHER -> "none"]
           /\ permit' = [permit EXCEPT ![i] = @ /\ ClientState = "Closing"]
           /\ slots' = slots + Count(permit[i] /\ ClientState # "Closing")
    /\ UNCHANGED <<session, candidates, sharedVars, toAgent>>

RecvOpenError ==
    /\ ClientReceives("OPEN_ERROR")
    /\ LET i == Head(toClient).id
           retry == candidates["client"][i]
       IN  \/ /\ ClientState = "Resolving"
              /\ Become("client", i, "none")
              /\ Answer(i, "remote", FALSE)
              /\ UNCHANGED <<slots, session, permit>>
           \/ /\ ClientState = "Opening"
              /\ Become("client", i, IF retry THEN "Resolved" ELSE "none")
              /\ Answer(i, "remote", retry /\ permit[i])
              /\ permit' = [permit EXCEPT ![i] = FALSE]
              /\ slots' = slots + (IF retry THEN Undelivered(i, permit[i]) ELSE Count(permit[i]))
              /\ UNCHANGED session
           \/ /\ ClientState \notin {"Resolving", "Opening"}
              /\ IF ClientState = "Closing" THEN UNCHANGED session ELSE ProtocolError("client")
              /\ UNCHANGED <<reply, slots, streams, permit>>
    /\ UNCHANGED <<candidates, sharedVars, toAgent>>

ClientRecvClose ==
    /\ ClientReceives("CLOSE")
    /\ LET i == Head(toClient).id
       IN  \/ /\ ClientState = "none"
              /\ ProtocolError("client")
              /\ UNCHANGED <<reply, slots, remoteClosed, closeQueued, toAgent>>
           \/ /\ ClientState = "Closing"
              /\ slots' = slots + Count(permit[i])
              /\ UNCHANGED <<reply, session, remoteClosed, closeQueued, toAgent>>
           \/ /\ ClientState = "Open"
              /\ remoteClosed' = [remoteClosed EXCEPT !["client"][i] = TRUE]
              /\ closeQueued' = [closeQueued EXCEPT !["client"][i] = TRUE]
              /\ IF closeQueued["client"][i] THEN UNCHANGED toAgent ELSE ToAgent("CLOSE", i)
              /\ slots' = slots + Count(permit[i])
              /\ UNCHANGED <<reply, session>>
           \/ /\ ClientState \in {"Resolving", "Resolved", "Opening"}
              /\ LET back == permit[i] /\ candidates["client"][i]
                 IN  /\ IF ClientState = "Resolved" THEN UNCHANGED reply
                                                    ELSE Answer(i, "error", back)
                     /\ slots' = slots + (IF back THEN Undelivered(i, TRUE) ELSE Count(permit[i]))
              /\ ToAgent("CLOSE", i)
              /\ UNCHANGED <<session, remoteClosed, closeQueued>>
    /\ streams' = [streams EXCEPT !["client"][Head(toClient).id] = "none"]
    /\ permit' = [permit EXCEPT ![Head(toClient).id] = FALSE]
    /\ UNCHANGED <<candidates, dropped>>

-----------------------------------------------------------------------------
(* drive_agent.                                                            *)

AgentReceives(type) ==
    /\ session["agent"] = "up"
    /\ toAgent # <<>> /\ Head(toAgent).type = type
    /\ toAgent' = Tail(toAgent)
    /\ UNCHANGED <<callerVars, slots, handleVars, commands, permit, dropped, events, relays>>

AgentState == streams["agent"][Head(toAgent).id]

Operations == {i \in Ids : operations[i] # "none"}

WorkersFull == Cardinality(relays) + Cardinality(Operations) >= MaxStreams

\* register_peer_stream_id
Fresh(i) == i > highestStreamId

RecvResolve ==
    /\ AgentReceives("RESOLVE")
    /\ LET i == Head(toAgent).id
           full == Cardinality(Entries("agent")) >= MaxStreams \/ WorkersFull
       IN  \/ /\ AgentState # "none" \/ ~Fresh(i)
              /\ ProtocolError("agent")
              /\ UNCHANGED <<streams, highestStreamId, operations, toClient>>
           \/ /\ AgentState = "none" /\ Fresh(i)
              /\ highestStreamId' = i
              /\ IF full
                 THEN ToClient("OPEN_ERROR", i) /\ UNCHANGED <<streams, operations>>
                 ELSE /\ Become("agent", i, "Resolving")
                      /\ operations' = [operations EXCEPT ![i] = "resolve"]
                      /\ UNCHANGED toClient
              /\ UNCHANGED session
    /\ UNCHANGED <<candidates, remoteClosed, closeQueued>>

\* The agent's policy can deny an IP literal; candidates were filtered by it.
RecvOpen ==
    /\ AgentReceives("OPEN")
    /\ \E denied \in BOOLEAN :
         LET i == Head(toAgent).id
             literal == AgentState = "none"
             refused == \/ literal /\ Cardinality(Entries("agent")) >= MaxStreams
                        \/ WorkersFull
                        \/ denied
         IN  /\ denied => literal
             /\ \/ /\ AgentState \notin {"none", "Resolved"} \/ (literal /\ ~Fresh(i))
                   /\ ProtocolError("agent")
                   /\ UNCHANGED <<streams, candidates, highestStreamId, operations, toClient>>
                \/ /\ AgentState = "Resolved" \/ (literal /\ Fresh(i))
                   /\ highestStreamId' = IF literal THEN i ELSE highestStreamId
                   /\ IF refused
                      THEN /\ ToClient("OPEN_ERROR", i)
                           /\ UNCHANGED <<streams, candidates, operations>>
                      ELSE /\ Become("agent", i, "Opening")
                           /\ candidates' = [candidates EXCEPT !["agent"][i] = ~literal]
                           /\ operations' = [operations EXCEPT ![i] = "open"]
                           /\ UNCHANGED toClient
                   /\ UNCHANGED session
    /\ UNCHANGED <<remoteClosed, closeQueued>>

\* Faulty: A CLOSE for a stream the agent has already retired is not answered.
AgentRecvClose_StaleIgnored ==
    /\ AgentReceives("CLOSE")
    /\ LET i == Head(toAgent).id
       IN  /\ streams' = [streams EXCEPT ![ "agent"][i] =
                             IF @ \in {"Resolving", "Opening"} THEN "Cancelled" ELSE "none"]
           /\ closeQueued' = [closeQueued EXCEPT !["agent"][i] = @ \/ AgentState = "Open"]
           /\ IF AgentState \in {"none", "Closing"} \/ closeQueued["agent"][i]
              THEN UNCHANGED toClient ELSE ToClient("CLOSE", i)
    /\ UNCHANGED <<session, candidates, highestStreamId, operations, remoteClosed>>

\* A pending operation keeps its entry, and its worker slot, until it completes.
AgentRecvClose ==
    /\ AgentReceives("CLOSE")
    /\ LET i == Head(toAgent).id
       IN  \/ /\ AgentState = "none" /\ Fresh(i)
              /\ ProtocolError("agent")
              /\ UNCHANGED <<streams, remoteClosed, closeQueued, toClient>>
           \/ /\ AgentState = "none" /\ ~Fresh(i)
              /\ ToClient("CLOSE", i)
              /\ UNCHANGED <<session, streams, remoteClosed, closeQueued>>
           \/ /\ AgentState = "Open"
              /\ Become("agent", i, "none")
              /\ remoteClosed' = [remoteClosed EXCEPT !["agent"][i] = TRUE]
              /\ closeQueued' = [closeQueued EXCEPT !["agent"][i] = TRUE]
              /\ IF closeQueued["agent"][i] THEN UNCHANGED toClient ELSE ToClient("CLOSE", i)
              /\ UNCHANGED session
           \/ /\ AgentState \in {"Resolving", "Opening", "Resolved"}
              /\ Become("agent", i, IF AgentState = "Resolved" THEN "none" ELSE "Cancelled")
              /\ ToClient("CLOSE", i)
              /\ UNCHANGED <<session, remoteClosed, closeQueued>>
           \/ /\ AgentState \in {"Closing", "Cancelled"}
              /\ Become("agent", i, IF AgentState = "Closing" THEN "none" ELSE "Cancelled")
              /\ UNCHANGED <<session, remoteClosed, closeQueued, toClient>>
    /\ UNCHANGED <<candidates, highestStreamId, operations>>

\* finish_agent_operation: what the lookup or the connect returned, in time or not.
FinishOperation(i, ok) ==
    /\ session["agent"] = "up"
    /\ operations[i] # "none"
    /\ operations' = [operations EXCEPT ![i] = "none"]
    /\ LET expected == IF operations[i] = "resolve" THEN "Resolving" ELSE "Opening"
           retry == operations[i] = "open" /\ candidates["agent"][i]
       IN  \/ /\ streams["agent"][i] \in {"none", "Cancelled"}
              /\ Become("agent", i, "none")
              /\ UNCHANGED <<session, relays, toClient>>
           \/ /\ streams["agent"][i] \notin {"none", "Cancelled", expected}
              /\ ProtocolError("agent")
              /\ Become("agent", i, "none")
              /\ UNCHANGED <<relays, toClient>>
           \/ /\ streams["agent"][i] = expected
              /\ IF ok
                 THEN /\ Become("agent", i, IF operations[i] = "resolve" THEN "Resolved" ELSE "Open")
                      /\ ToClient(IF operations[i] = "resolve" THEN "RESOLVE_OK" ELSE "OPEN_OK", i)
                      /\ relays' = IF operations[i] = "open" THEN relays \cup {i} ELSE relays
                 ELSE /\ Become("agent", i, IF retry THEN "Resolved" ELSE "none")
                      /\ ToClient("OPEN_ERROR", i)
                      /\ UNCHANGED relays
              /\ UNCHANGED session
    /\ UNCHANGED <<callerVars, slots, handleVars, commands, candidates, permit,
                   highestStreamId, sharedVars, events, toAgent>>

\* The relay task ends, perhaps after its stream has left the map, and drops it.
RelayEnds(i) ==
    /\ session["agent"] = "up"
    /\ i \in relays
    /\ relays' = relays \ {i}
    /\ dropped' = [dropped EXCEPT !["agent"][i] = TRUE]
    /\ UNCHANGED <<callerVars, slots, handleVars, commands, session, streams, candidates,
                   permit, highestStreamId, operations, remoteClosed, closeQueued, events,
                   toAgent, toClient>>

-----------------------------------------------------------------------------
(***************************************************************************)
(* A driver ends: on its own error, on the shutdown notification or        *)
(* because the transport is lost.  The client's end drops its entries and  *)
(* queued commands, with the reply channels and permits inside, and closes *)
(* the semaphore; the agent's aborts its operations and relays.            *)
(***************************************************************************)
ClientEnds ==
    /\ session["client"] # "ended"
    /\ shutdown \/ Losable \/ session["client"] # "up" \/ session["agent"] = "ended"
    /\ session' = [session EXCEPT !["client"] = "ended"]
    /\ streams' = [streams EXCEPT !["client"] = [i \in Ids |-> "none"]]
    /\ permit' = [i \in Ids |-> FALSE]
    /\ commands' = <<>>
    /\ slots' = slots + Cardinality({i \in Ids : permit[i]})
                      + Cardinality({n \in 1 .. Len(commands) : commands[n].permit})
    /\ reply' = [c \in Callers |->
                    IF Listening(c) THEN [kind |-> "error", permit |-> FALSE] ELSE reply[c]]
    /\ remoteClosed' = [remoteClosed EXCEPT !["client"] =
                           [i \in Ids |-> @[i] \/ streams["client"][i] = "Open"]]
    /\ UNCHANGED <<pc, id, holdsSlot, opens, handleVars, candidates, agentVars, dropped,
                   closeQueued, events, toAgent, toClient>>

AgentEnds ==
    /\ session["agent"] # "ended"
    /\ Losable \/ session["agent"] # "up" \/ session["client"] = "ended"
    /\ session' = [session EXCEPT !["agent"] = "ended"]
    /\ streams' = [streams EXCEPT !["agent"] = [i \in Ids |-> "none"]]
    /\ operations' = [i \in Ids |-> "none"]
    /\ relays' = {}
    /\ UNCHANGED <<callerVars, slots, handleVars, commands, candidates, permit,
                   highestStreamId, sharedVars, events, toAgent, toClient>>
-----------------------------------------------------------------------------
Init ==
    /\ pc = [c \in Callers |-> "new"] /\ id = [c \in Callers |-> 0]
    /\ holdsSlot = [c \in Callers |-> FALSE] /\ reply = [c \in Callers |-> NoReply]
    /\ opens = [c \in Callers |-> 0]
    /\ slots = MaxStreams /\ nextStreamId = 1 /\ shutdown = FALSE /\ commands = <<>>
    /\ session = [e \in Ends |-> "up"]
    /\ streams = [e \in Ends |-> [i \in Ids |-> "none"]]
    /\ candidates = [e \in Ends |-> [i \in Ids |-> FALSE]]
    /\ permit = [i \in Ids |-> FALSE]
    /\ highestStreamId = 0 /\ operations = [i \in Ids |-> "none"] /\ relays = {}
    /\ dropped = [e \in Ends |-> [i \in Ids |-> FALSE]]
    /\ remoteClosed = [e \in Ends |-> [i \in Ids |-> FALSE]]
    /\ closeQueued = [e \in Ends |-> [i \in Ids |-> FALSE]]
    /\ events = [e \in Ends |-> [i \in Ids |-> "none"]]
    /\ toAgent = <<>> /\ toClient = <<>>

\* The caller's own progress, without giving up.
Caller(c) ==
    \/ AcquireSlot(c) \/ AllocateStreamId(c) \/ SendCommand(c)
    \/ SendOpen(c) \/ TakeReply(c) \/ Unavailable(c)

ClientDriver ==
    \/ CommandResolve \/ CommandOpen \/ CommandOpenIp \/ CommandClose
    \/ RecvResolveOk \/ RecvOpenOk \/ RecvOpenError \/ ClientRecvClose

AgentDriver == RecvResolve \/ RecvOpen \/ AgentRecvClose

Next ==
    \/ \E c \in Callers : Caller(c) \/ OpenTarget(c) \/ GiveUp(c) \/ DropStream(c)
    \/ \E e \in Ends, i \in Ids : Worker(e, i) \/ HandleWorkerEvent(e, i)
    \/ ClientDriver
    \/ AgentDriver
    \/ \E i \in Ids : RelayEnds(i) \/ \E ok \in BOOLEAN : FinishOperation(i, ok)
    \/ ClientEnds
    \/ AgentEnds

Spec == Init /\ [][Next]_vars

(***************************************************************************)
(* The runtime polls every task that can run; lookups and connects end by  *)
(* their timeouts; a notified or broken driver ends.  Nothing obliges a    *)
(* caller to give up, or a relay to end.                                   *)
(***************************************************************************)
Fairness ==
    /\ \A c \in Callers : WF_vars(Caller(c))
    /\ \A e \in Ends, i \in Ids : WF_vars(Worker(e, i)) /\ WF_vars(HandleWorkerEvent(e, i))
    /\ WF_vars(ClientDriver) /\ WF_vars(AgentDriver)
    /\ \A i \in Ids : WF_vars(\E ok \in BOOLEAN : FinishOperation(i, ok))
    /\ WF_vars((shutdown \/ session["client"] # "up" \/ session["agent"] = "ended") /\ ClientEnds)
    /\ WF_vars((session["agent"] # "up" \/ session["client"] = "ended") /\ AgentEnds)

FairSpec == Spec /\ Fairness

-----------------------------------------------------------------------------
Permits == {c \in Callers : holdsSlot[c]}
ReplyPermits == {c \in Callers : reply[c].permit}
CommandPermits == {n \in 1 .. Len(commands) : commands[n].permit}
EntryPermits == {i \in Ids : permit[i]}

(***************************************************************************)
(* Type correctness: the states of ClientStreamState, AgentStreamState and *)
(* of a request; the command channel never exceeds its capacity.           *)
(***************************************************************************)
TypeOK ==
    /\ pc \in [Callers -> {"new", "admitting", "sending", "resolving", "resolved",
                           "sendingOpen", "opening", "stream", "done"}]
    /\ id \in [Callers -> Ids \cup {0}]
    /\ holdsSlot \in [Callers -> BOOLEAN]
    /\ reply \in [Callers -> [kind: {"none", "ok", "remote", "error"}, permit: BOOLEAN]]
    /\ slots \in 0 .. MaxStreams
    /\ nextStreamId \in Ids /\ shutdown \in BOOLEAN
    /\ Len(commands) <= CommandCapacity
    /\ session \in [Ends -> {"up", "protocolError", "ended"}]
    /\ streams \in [Ends -> [Ids -> {"none", "Resolving", "Resolved", "Opening", "Open",
                                     "Cancelled", "Closing"}]]
    /\ \A i \in Ids : streams["client"][i] # "Cancelled"
    /\ highestStreamId \in Ids \cup {0}
    /\ operations \in [Ids -> {"none", "resolve", "open"}]
    /\ relays \subseteq Ids

(***************************************************************************)
(* Two honest drivers never end the session with a protocol error: however *)
(* admissions, timeouts, cancellations, late results and crossed CLOSEs    *)
(* interleave, each frame finds its stream in a state that accepts it and  *)
(* IDs reach the agent in increasing order.                                *)
(***************************************************************************)
NoProtocolError == \A e \in Ends : session[e] # "protocolError"

(***************************************************************************)
(* max_streams bounds what a session keeps: the entries of each map, and   *)
(* at the agent the operations and relays, also those whose stream has     *)
(* already been closed.                                                    *)
(***************************************************************************)
StreamLimit ==
    /\ \A e \in Ends : Cardinality(Entries(e)) <= MaxStreams
    /\ Cardinality(relays) + Cardinality(Operations) <= MaxStreams

(***************************************************************************)
(* No permit of the slots semaphore is lost or duplicated on its way from  *)
(* the caller through the command, the entry, the tombstone and the reply, *)
(* and a client stream that is opening or open holds one, after any number *)
(* of failed attempts.                                                     *)
(***************************************************************************)
PermitsAccounted ==
    /\ slots + Cardinality(Permits) + Cardinality(ReplyPermits)
         + Cardinality(CommandPermits) + Cardinality(EntryPermits) = MaxStreams
    /\ \A i \in Ids : streams["client"][i] \in {"Opening", "Open"} => permit[i]

(***************************************************************************)
(* A Closing tombstone always has an answer coming: our CLOSE is still on  *)
(* its way, or the peer's is.                                              *)
(***************************************************************************)
InFlight(frames, i) == \E n \in 1 .. Len(frames) : frames[n] = [type |-> "CLOSE", id |-> i]

TombstoneAnswered ==
    session["client"] = "up" /\ session["agent"] = "up" =>
        \A e \in Ends, i \in Ids :
            streams[e][i] = "Closing" => InFlight(toAgent, i) \/ InFlight(toClient, i)

(***************************************************************************)
(* Nothing is left behind: once every caller is done and the relays have   *)
(* ended, all slots come back and both maps empty, or the session ends.    *)
(***************************************************************************)
NothingLeaks ==
    (\A c \in Callers : pc[c] = "done") /\ relays = {} ~>
        \/ session["client"] = "ended"
        \/ relays # {}
        \/ slots = MaxStreams /\ \A e \in Ends : Entries(e) = {}

(***************************************************************************)
(* When the client's session ends no request waits for its timeout: the    *)
(* waiters for a slot, for the command queue and for a reply all return.   *)
(***************************************************************************)
RequestsEnd ==
    session["client"] = "ended" ~> \A c \in Callers : pc[c] \in {"resolved", "stream", "done"}
=============================================================================
