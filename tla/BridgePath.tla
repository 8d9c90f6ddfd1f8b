----------------------------- MODULE BridgePath -----------------------------
(***************************************************************************)
(* The path of the bytes of one generation between the two mux sessions    *)
(* (rdp/windows/wts.rs, transport.rs, pdu.rs and the exact-frame reader of *)
(* protocol.rs):                                                           *)
(*                                                                         *)
(*  client mux - pipe - pipe thread - queue - DVC writer - RDP channel     *)
(*             - WTS actor - reassembler - queue - pump - agent mux        *)
(*                                                                         *)
(* and back through the actor's write batch and OnDataReceived.  Queues    *)
(* are bounded; a full receive queue ends the generation, since the WTS    *)
(* actor that fills one also drains the other.                             *)
(*                                                                         *)
(* Bytes: the frames an end writes are numbered; a read of the pipe or of  *)
(* the duplex returns whatever has been written so far as one message.     *)
(* The agent owes the client a frame (its credit, its answer) for each one *)
(* it reads, and does not read on before it has written it; its own frames *)
(* may go first.                                                           *)
(***************************************************************************)
EXTENDS Naturals, Sequences

CONSTANTS
    Queue,      \* ACTOR_QUEUE_CAPACITY and BRIDGE_QUEUE_CAPACITY, in messages
    Buffer,     \* BRIDGE_CAPACITY and the pipe's buffer, in frames
    Wire,       \* bound: messages on the RDP channel in each direction
    Batch,      \* OUTBOUND_WRITE_BATCH
    Budgets     \* bounds: frames written by each end, owed ones apart, and the
                \* sessions, calls and channels that end by themselves

ASSUME PathAssumption ==
    {Queue, Buffer, Wire, Batch} \subseteq Nat \ {0}

Ends == {"client", "agent"}
Peer(e) == IF e = "client" THEN "agent" ELSE "client"

VARIABLES
    mux,        \* the session of each end: "up" or "ended"
    frames,     \* frames each end has written
    owes,       \* the agent has read a frame it has not answered
    got,        \* frames each end has read, in order; Corrupt after a gap
    buffer,     \* frames written by each end: the pipe, and the mux's half of the duplex
    arriving,   \* frames on their way to each end: the pipe, and the pump's half
    toActor, fromActor,     \* the agent's outbound and inbound queues of messages
    toWriter, fromChannel,  \* the transport's outbound and inbound queues
    wireUp, wireDown,       \* the RDP channel: messages, and PDUs
    partial,    \* DvcReassembler: a message is in progress
    actor,      \* "drain", "read" or "stopped"
    batch,      \* messages written since the last read
    pump, writer, pipe,     \* "run" or "done"
    closed,     \* SessionBridge.closed, and its stop signal
    budget      \* what is left of one of the Budgets

actorVars == <<toActor, fromActor, partial, actor, batch, pump>>
bridgeVars == <<toWriter, fromChannel, writer, pipe, closed>>
muxVars == <<mux, frames, owes, got>>
pathVars == <<muxVars, buffer, arriving, actorVars, bridgeVars, wireUp, wireDown, budget>>

Corrupt == 1000000

-----------------------------------------------------------------------------
(* The two mux sessions (rdp/mux.rs), as their byte streams see them.      *)

\* write_frame: a whole frame.
WriteFrame(e) ==
    /\ mux[e] = "up"
    /\ Len(buffer[e]) < Buffer
    /\ frames' = [frames EXCEPT ![e] = @ + 1]
    /\ buffer' = [buffer EXCEPT ![e] = Append(@, frames[e] + 1)]

MuxWrites(e) ==
    /\ \/ /\ e = "agent" /\ owes
          /\ WriteFrame(e) /\ owes' = FALSE
          /\ UNCHANGED budget
       \/ /\ budget[e] > 0
          /\ WriteFrame(e) /\ budget' = [budget EXCEPT ![e] = @ - 1]
          /\ UNCHANGED owes
    /\ UNCHANGED <<mux, got, arriving, actorVars, bridgeVars, wireUp, wireDown>>

\* read_frame.  Bytes that do not continue the last frame do not decode, and
\* the session ends.
MuxReads(e) ==
    /\ mux[e] = "up" /\ arriving[e] # <<>>
    /\ e = "agent" => ~owes
    /\ IF Head(arriving[e]) = got[e] + 1
       THEN /\ got' = [got EXCEPT ![e] = @ + 1]
            /\ owes' = (owes \/ e = "agent")
            /\ UNCHANGED mux
       ELSE /\ got' = [got EXCEPT ![e] = Corrupt]
            /\ mux' = [mux EXCEPT ![e] = "ended"]
            /\ UNCHANGED owes
    /\ arriving' = [arriving EXCEPT ![e] = Tail(@)]
    /\ UNCHANGED <<frames, buffer, actorVars, bridgeVars, wireUp, wireDown, budget>>

\* One end of the channel is gone, and Windows tells the other.
ChannelGone == actor = "stopped" \/ writer = "done"

\* Something ends by itself, without being told.
Fault(told) == IF told THEN UNCHANGED budget
                       ELSE budget.fault > 0 /\ budget' = [budget EXCEPT !.fault = @ - 1]

\* The stream the session runs on has been dropped by its bridge.
Severed(e) == IF e = "client" THEN pipe = "done" ELSE pump = "done"

\* The session ends: its stream is severed, or for a reason of its own.
MuxEnds(e) ==
    /\ mux[e] = "up"
    /\ mux' = [mux EXCEPT ![e] = "ended"]
    /\ Fault(Severed(e))
    /\ UNCHANGED <<frames, owes, got, buffer, arriving, actorVars, bridgeVars, wireUp,
                   wireDown>>

-----------------------------------------------------------------------------
(* pump_bridge of the agent.                                               *)

\* to_channel: a read returns what the mux has written so far.
PumpToActor ==
    /\ pump = "run" /\ actor # "stopped"
    /\ buffer["agent"] # <<>> /\ Len(toActor) < Queue
    /\ toActor' = Append(toActor, buffer["agent"])
    /\ buffer' = [buffer EXCEPT !["agent"] = <<>>]
    /\ UNCHANGED <<muxVars, arriving, fromActor, partial, actor, batch, pump, bridgeVars,
                   wireUp, wireDown, budget>>

\* from_channel
PumpFromActor ==
    /\ pump = "run" /\ fromActor # <<>>
    /\ Len(arriving["agent"]) + Len(Head(fromActor)) <= Buffer
    /\ arriving' = [arriving EXCEPT !["agent"] = @ \o Head(fromActor)]
    /\ fromActor' = Tail(fromActor)
    /\ UNCHANGED <<muxVars, buffer, toActor, partial, actor, batch, pump, bridgeVars,
                   wireUp, wireDown, budget>>

\* The actor published its stop, the mux dropped its half of the duplex, or
\* AgentBridge::run aborts the pump after the session.
PumpStops ==
    /\ pump = "run"
    /\ actor = "stopped" \/ mux["agent"] = "ended"
    /\ pump' = "done"
    /\ UNCHANGED <<muxVars, buffer, arriving, toActor, fromActor, partial, actor, batch,
                   bridgeVars, wireUp, wireDown, budget>>

-----------------------------------------------------------------------------
(* wts_actor_with_channel: one thread that writes and reads the channel.   *)

\* drain_outbound_batch takes the next message; write_channel sends it.
ActorWrites ==
    /\ actor = "drain" /\ batch < Batch
    /\ toActor # <<>> /\ Len(wireUp) < Wire
    /\ wireUp' = Append(wireUp, Head(toActor))
    /\ toActor' = Tail(toActor)
    /\ batch' = batch + 1
    /\ UNCHANGED <<muxVars, buffer, arriving, fromActor, partial, actor, pump, bridgeVars,
                   wireDown, budget>>

\* The batch is over; a queue that is closed and empty ends the actor.
ActorDrained ==
    /\ actor = "drain"
    /\ toActor = <<>> \/ batch = Batch
    /\ actor' = IF toActor = <<>> /\ pump = "done" THEN "stopped" ELSE "read"
    /\ batch' = 0
    /\ UNCHANGED <<muxVars, buffer, arriving, toActor, fromActor, partial, pump, bridgeVars,
                   wireUp, wireDown, budget>>

\* ERROR_TIMEOUT and ERROR_IO_INCOMPLETE are the scheduling tick.
ActorTicks ==
    /\ actor = "read" /\ wireDown = <<>> /\ writer = "run"
    /\ actor' = "drain"
    /\ UNCHANGED <<muxVars, buffer, arriving, toActor, fromActor, partial, batch, pump,
                   bridgeVars, wireUp, wireDown, budget>>

\* Faulty: the actor waits for room in the inbound queue.
forward_inbound_Waits(message) ==
    /\ Len(fromActor) < Queue
    /\ fromActor' = Append(fromActor, message)
    /\ actor' = "drain"

\* try_send: a full or closed queue ends the generation, it is never waited for.
forward_inbound(message) ==
    IF Len(fromActor) < Queue /\ pump = "run"
    THEN fromActor' = Append(fromActor, message) /\ actor' = "drain"
    ELSE actor' = "stopped" /\ UNCHANGED fromActor

\* DvcReassembler::push of one PDU: a message is complete on LAST.
ActorReads ==
    /\ actor = "read" /\ wireDown # <<>>
    /\ LET pdu == Head(wireDown)
       IN  IF pdu.last
           THEN forward_inbound(pdu.message) /\ partial' = FALSE
           ELSE partial' = TRUE /\ actor' = "drain" /\ UNCHANGED fromActor
    /\ wireDown' = Tail(wireDown)
    /\ UNCHANGED <<muxVars, buffer, arriving, toActor, batch, pump, bridgeVars, wireUp, budget>>

\* A native call fails: the channel was closed, or by itself.
ActorFails ==
    /\ actor # "stopped"
    /\ actor' = "stopped"
    /\ Fault(ChannelGone)
    /\ UNCHANGED <<muxVars, buffer, arriving, toActor, fromActor, partial, batch, pump,
                   bridgeVars, wireUp, wireDown>>

-----------------------------------------------------------------------------
(* The COM transport: OnDataReceived, the pipe thread and the DVC writer.  *)

\* Faulty: A full queue loses the message and nothing else.
on_data_DropsNewest ==
    /\ wireUp # <<>>
    /\ fromChannel' = IF Len(fromChannel) < Queue /\ ~closed THEN Append(fromChannel, Head(wireUp))
                                                             ELSE fromChannel
    /\ wireUp' = Tail(wireUp)
    /\ UNCHANGED <<muxVars, buffer, arriving, actorVars, toWriter, writer, pipe, closed, wireDown, budget>>

on_data ==
    /\ wireUp # <<>>
    /\ \/ /\ ~closed /\ Len(fromChannel) < Queue /\ pipe = "run"
          /\ fromChannel' = Append(fromChannel, Head(wireUp))
          /\ UNCHANGED closed
       \/ /\ ~closed /\ Len(fromChannel) = Queue /\ pipe = "run"
          /\ closed' = TRUE /\ UNCHANGED fromChannel
       \/ /\ closed \/ pipe = "done"
          /\ UNCHANGED <<fromChannel, closed>>
    /\ wireUp' = Tail(wireUp)
    /\ UNCHANGED <<muxVars, buffer, arriving, actorVars, toWriter, writer, pipe, wireDown, budget>>

\* OnClose, Disconnected, Terminated, or the callback's Drop.
SessionClose ==
    /\ ~closed
    /\ closed' = TRUE
    /\ Fault(ChannelGone)
    /\ UNCHANGED <<muxVars, buffer, arriving, actorVars, toWriter, fromChannel, writer, pipe,
                   wireUp, wireDown>>

\* pump_pipe_bridge: the stop signal is polled before the two loops.
PipeToClient ==
    /\ pipe = "run" /\ ~closed /\ fromChannel # <<>>
    /\ Len(arriving["client"]) + Len(Head(fromChannel)) <= Buffer
    /\ arriving' = [arriving EXCEPT !["client"] = @ \o Head(fromChannel)]
    /\ fromChannel' = Tail(fromChannel)
    /\ UNCHANGED <<muxVars, buffer, actorVars, toWriter, writer, pipe, closed, wireUp, wireDown, budget>>

PipeToWriter ==
    /\ pipe = "run" /\ ~closed /\ writer = "run"
    /\ buffer["client"] # <<>> /\ Len(toWriter) < Queue
    /\ toWriter' = Append(toWriter, buffer["client"])
    /\ buffer' = [buffer EXCEPT !["client"] = <<>>]
    /\ UNCHANGED <<muxVars, arriving, actorVars, fromChannel, writer, pipe, closed, wireUp,
                   wireDown, budget>>

\* Stopped, the client's end of the pipe is gone, or the writer's queue is closed;
\* spawn_pipe_bridge then closes the session.
PipeStops ==
    /\ pipe = "run"
    /\ closed \/ mux["client"] = "ended" \/ (writer = "done" /\ buffer["client"] # <<>>)
    /\ pipe' = "done" /\ closed' = TRUE
    /\ UNCHANGED <<muxVars, buffer, arriving, actorVars, toWriter, fromChannel, writer,
                   wireUp, wireDown, budget>>

\* IWTSVirtualChannel::Write of a message, which WTS delivers in one PDU or two.
WriterWrites ==
    /\ writer = "run" /\ ~closed /\ actor # "stopped"
    /\ toWriter # <<>> /\ Len(wireDown) < Wire
    /\ \/ wireDown' = Append(wireDown, [last |-> TRUE, message |-> Head(toWriter)])
       \/ wireDown' = wireDown \o <<[last |-> FALSE], [last |-> TRUE, message |-> Head(toWriter)]>>
    /\ toWriter' = Tail(toWriter)
    /\ UNCHANGED <<muxVars, buffer, arriving, actorVars, fromChannel, writer, pipe, closed, wireUp, budget>>

\* The queue is closed and empty, the session is closed when a message arrives,
\* or Write fails.  The channel is closed from this thread, then the session.
WriterStops ==
    /\ writer = "run"
    /\ \/ toWriter = <<>> /\ pipe = "done"
       \/ toWriter # <<>> /\ (closed \/ actor = "stopped")
    /\ writer' = "done" /\ closed' = TRUE
    /\ UNCHANGED <<muxVars, buffer, arriving, actorVars, toWriter, fromChannel, pipe, wireUp,
                   wireDown, budget>>

-----------------------------------------------------------------------------
PathInit ==
    /\ mux = [e \in Ends |-> "up"]
    /\ frames = [e \in Ends |-> 0] /\ owes = FALSE
    /\ got = [e \in Ends |-> 0]
    /\ buffer = [e \in Ends |-> <<>>] /\ arriving = [e \in Ends |-> <<>>]
    /\ toActor = <<>> /\ fromActor = <<>> /\ toWriter = <<>> /\ fromChannel = <<>>
    /\ wireUp = <<>> /\ wireDown = <<>> /\ partial = FALSE /\ budget \in Budgets
    /\ actor = "drain" /\ batch = 0
    /\ pump = "run" /\ writer = "run" /\ pipe = "run" /\ closed = FALSE

\* The end of a generation that carried nothing.
Ended ==
    /\ mux = [e \in Ends |-> "ended"]
    /\ frames = [e \in Ends |-> 0] /\ owes = FALSE
    /\ got = [e \in Ends |-> 0]
    /\ buffer = [e \in Ends |-> <<>>] /\ arriving = [e \in Ends |-> <<>>]
    /\ toActor = <<>> /\ fromActor = <<>> /\ toWriter = <<>> /\ fromChannel = <<>>
    /\ wireUp = <<>> /\ wireDown = <<>> /\ partial = FALSE
    /\ budget = [client |-> 0, agent |-> 0, fault |-> 0]
    /\ actor = "stopped" /\ batch = 0
    /\ pump = "done" /\ writer = "done" /\ pipe = "done" /\ closed = TRUE

Actor == ActorWrites \/ ActorDrained \/ ActorTicks \/ ActorReads
Pump == PumpToActor \/ PumpFromActor
Pipe == PipeToClient \/ PipeToWriter

PathNext ==
    \/ \E e \in Ends : MuxWrites(e) \/ MuxReads(e) \/ MuxEnds(e)
    \/ Pump \/ PumpStops
    \/ Actor \/ ActorFails
    \/ on_data \/ SessionClose
    \/ Pipe \/ PipeStops
    \/ WriterWrites \/ WriterStops

PathSpec == PathInit /\ [][PathNext]_pathVars

(***************************************************************************)
(* Threads and tasks that can run do; a native call on a closed channel    *)
(* returns; a reply that is owed is written.  No timeout of the sessions   *)
(* is relied on.                                                           *)
(***************************************************************************)
PathFairness ==
    /\ \A e \in Ends :
          WF_pathVars(MuxReads(e)) /\ WF_pathVars(owes /\ MuxWrites(e)) /\ WF_pathVars(Severed(e) /\ MuxEnds(e))
    /\ WF_pathVars(PumpToActor) /\ WF_pathVars(PumpFromActor) /\ WF_pathVars(PumpStops)
    /\ WF_pathVars(Actor) /\ WF_pathVars(ChannelGone /\ ActorFails)
    /\ WF_pathVars(on_data) /\ WF_pathVars(ChannelGone /\ SessionClose)
    /\ WF_pathVars(PipeToClient) /\ WF_pathVars(PipeToWriter) /\ WF_pathVars(PipeStops)
    /\ WF_pathVars(WriterWrites) /\ WF_pathVars(WriterStops)

PathFairSpec == PathSpec /\ PathFairness

-----------------------------------------------------------------------------
(***************************************************************************)
(* Type correctness: no queue or buffer exceeds its capacity.              *)
(***************************************************************************)
PathTypeOK ==
    /\ mux \in [Ends -> {"up", "ended"}] /\ owes \in BOOLEAN /\ partial \in BOOLEAN
    /\ \A e \in Ends : Len(buffer[e]) <= Buffer /\ Len(arriving[e]) <= Buffer
    /\ \A q \in {toActor, fromActor, toWriter, fromChannel} :
          Len(q) <= Queue /\ \A i \in DOMAIN q : q[i] \in Seq(Nat) \ {<<>>}
    /\ actor \in {"drain", "read", "stopped"} /\ batch \in 0 .. Batch
    /\ {pump, writer, pipe} \subseteq {"run", "done"} /\ closed \in BOOLEAN

(***************************************************************************)
(* What a session reads is what the other one wrote, from the first byte   *)
(* and without a gap, however messages are cut, fragmented and joined and  *)
(* whichever queue overflows: an overflow may only cut the stream short.   *)
(***************************************************************************)
NoGap == PathTypeOK /\ \A e \in Ends : got[e] <= frames[Peer(e)]

(***************************************************************************)
(* The actor never stands still with messages to write: with every queue   *)
(* full in both directions the credit of one direction still gets out, or  *)
(* the generation ends, without any timeout.                               *)
(***************************************************************************)
ActorDrains == toActor # <<>> ~> (toActor = <<>> \/ actor = "stopped")

(***************************************************************************)
(* No part of a generation outlives it: when a session, a thread or the    *)
(* channel ends, the pump, the actor, both bridge threads and both         *)
(* sessions end.                                                           *)
(***************************************************************************)
Broken == ChannelGone \/ closed \/ \E e \in Ends : mux[e] = "ended" \/ Severed(e)

TearsDown ==
    Broken ~> /\ \A e \in Ends : mux[e] = "ended"
              /\ pump = "done" /\ actor = "stopped" /\ writer = "done" /\ pipe = "done"
=============================================================================
