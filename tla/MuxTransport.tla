---------------------------- MODULE MuxTransport ----------------------------
(***************************************************************************)
(* How the frames of an RDP session move (rdp/mux.rs): the control and the *)
(* ordered queue of each end, its writer, the peer's reader queue and      *)
(* driver, with every wait for room in between.  The workers of the        *)
(* streams and the driver compete for the ordered queue, and workers hold  *)
(* a stream's send gate while they wait.  reader[e] is what the peer has   *)
(* written and e's driver has not handled, the transport's own buffers     *)
(* included.                                                               *)
(*                                                                         *)
(* Every queue is bounded, so an end that cannot write stops reading; what *)
(* breaks the circle are the timeouts.  A timeout may fire whenever its    *)
(* wait is pending and, if nothing else ends the wait, does.               *)
(*                                                                         *)
(* A definition named after another, with an underscore and a word, is a   *)
(* faulty variant of it: a bug the properties are known to catch.          *)
(***************************************************************************)
EXTENDS Naturals, Sequences, FiniteSets

CONSTANTS
    Streams,         \* the open streams of the session
    ControlCapacity, \* CONTROL_QUEUE_CAPACITY
    OrderedCapacity, \* DATA_QUEUE_CAPACITY
    ReaderCapacity,  \* READER_QUEUE_CAPACITY
    Burst,           \* SESSION_CONTROL_BURST
    MaxPings,        \* bound: keepalive ticks of each end
    MaxRequests,     \* bound: RESOLVE and OPEN requests of the client
    MaxData          \* bound: DATA frames of each stream and end

Ends == {"client", "agent"}
Peer(e) == IF e = "client" THEN "agent" ELSE "client"

ASSUME CapacityAssumption ==
    /\ {ControlCapacity, OrderedCapacity, ReaderCapacity, Burst}
          \subseteq Nat \ {0}
    /\ MaxPings \in [Ends -> Nat] /\ MaxRequests \in Nat /\ MaxData \in Nat
\* protocol.rs: 128 streams, each with one credit worker, and 512 queue slots.
ASSUME StreamsAssumption ==
    IsFiniteSet(Streams) /\ Cardinality(Streams) < OrderedCapacity

VARIABLES
    session, control, ordered, reader,
    writer,     \* the frame being written, or none
    burst,      \* control_burst of frame_writer
    passed,     \* history: control frames written while an ordered frame waited
    driver,     \* what the driver waits for inside a handler
    ping,       \* the nonce of the outstanding PING, or 0
    pings,      \* nonces used so far
    requests,   \* RESOLVE and OPEN commands so far
    outbound, credit, sentData,     \* the workers of each stream
    closeQueued

queues == <<control, ordered, reader>>
writerVars == <<writer, burst, passed>>
driverVars == <<driver, ping, pings, requests>>
workerVars == <<outbound, credit, sentData>>
vars == <<session, queues, writerVars, driverVars, workerVars, closeQueued>>

Idle == [at |-> "idle"]
None == [type |-> "none"]

\* A permit reserved by a credit worker takes a slot until it is used.
Reserved(e) == Cardinality({s \in Streams : credit[e][s] = "reserved"})

\* Faulty: as many slots as streams.
OrderedRoom_Tight(e) == Len(ordered[e]) + Reserved(e) < Cardinality(Streams)

OrderedRoom(e) == Len(ordered[e]) + Reserved(e) < OrderedCapacity
Enqueue(e, frame) == ordered' = [ordered EXCEPT ![e] = Append(@, frame)]

SendGateFree(e, s) ==
    /\ outbound[e][s] \notin {"data", "close"}
    /\ driver[e] # [at |-> "close", stream |-> s]

-----------------------------------------------------------------------------
(* Workers.  The gate is taken first and the slot awaited with it held; the *)
(* credit worker reserves its slot first and then awaits the gate.         *)

OutboundLockGate(e, s) ==
    /\ session[e] = "up" /\ outbound[e][s] = "loop"
    /\ SendGateFree(e, s)
    /\ \/ /\ ~closeQueued[e][s] /\ sentData[e][s] < MaxData
          /\ outbound' = [outbound EXCEPT ![e][s] = "data"]
          /\ UNCHANGED closeQueued
       \/ /\ outbound' = [outbound EXCEPT ![e][s] = IF closeQueued[e][s] THEN "end" ELSE "close"]
          /\ closeQueued' = [closeQueued EXCEPT ![e][s] = TRUE]
    /\ UNCHANGED <<session, queues, writerVars, driverVars, credit, sentData>>

OutboundSend(e, s) ==
    /\ session[e] = "up" /\ outbound[e][s] \in {"data", "close"}
    /\ OrderedRoom(e)
    /\ IF outbound[e][s] = "data"
       THEN /\ Enqueue(e, [type |-> "DATA", stream |-> s])
            /\ outbound' = [outbound EXCEPT ![e][s] = "loop"]
            /\ sentData' = [sentData EXCEPT ![e][s] = @ + 1]
       ELSE /\ Enqueue(e, [type |-> "CLOSE", stream |-> s])
            /\ outbound' = [outbound EXCEPT ![e][s] = "end"]
            /\ UNCHANGED sentData
    /\ UNCHANGED <<session, control, reader, writerVars, driverVars, credit, closeQueued>>

CreditReserve(e, s) ==
    /\ session[e] = "up" /\ credit[e][s] = "loop"
    /\ OrderedRoom(e)
    /\ credit' = [credit EXCEPT ![e][s] = "reserved"]
    /\ UNCHANGED <<session, queues, writerVars, driverVars, outbound, sentData, closeQueued>>

\* One credit return per stream and end; none once the stream is closing.
CreditSend(e, s) ==
    /\ session[e] = "up" /\ credit[e][s] = "reserved"
    /\ SendGateFree(e, s)
    /\ credit' = [credit EXCEPT ![e][s] = "end"]
    /\ IF closeQueued[e][s] THEN UNCHANGED ordered
                            ELSE Enqueue(e, [type |-> "WINDOW_UPDATE", stream |-> s])
    /\ UNCHANGED <<session, control, reader, writerVars, driverVars, outbound, sentData,
                   closeQueued>>

-----------------------------------------------------------------------------
(* frame_writer and frame_reader.                                          *)

\* Faulty: control_burst is not counted.
ControlFirst_Unlimited(e) == control[e] # <<>>

ControlFirst(e) ==
    control[e] # <<>> /\ (burst[e] < Burst \/ ordered[e] = <<>>)

WriterSelect(e) ==
    /\ session[e] = "up" /\ writer[e] = None
    /\ \/ /\ ControlFirst(e)
          /\ writer' = [writer EXCEPT ![e] = Head(control[e])]
          /\ control' = [control EXCEPT ![e] = Tail(@)]
          /\ burst' = [burst EXCEPT ![e] = IF @ < Burst THEN @ + 1 ELSE @]
          /\ passed' = [passed EXCEPT ![e] = IF ordered[e] = <<>> THEN 0 ELSE @ + 1]
          /\ UNCHANGED ordered
       \/ /\ ~ControlFirst(e) /\ ordered[e] # <<>>
          /\ writer' = [writer EXCEPT ![e] = Head(ordered[e])]
          /\ ordered' = [ordered EXCEPT ![e] = Tail(@)]
          /\ burst' = [burst EXCEPT ![e] = 0]
          /\ passed' = [passed EXCEPT ![e] = 0]
          /\ UNCHANGED control
    /\ UNCHANGED <<session, reader, driverVars, workerVars, closeQueued>>

\* The peer's reader decodes the frame once there is room for it.
WriterWrite(e) ==
    /\ session[e] = "up" /\ writer[e] # None
    /\ Len(reader[Peer(e)]) < ReaderCapacity
    /\ reader' = [reader EXCEPT ![Peer(e)] = Append(@, writer[e])]
    /\ writer' = [writer EXCEPT ![e] = None]
    /\ UNCHANGED <<session, control, ordered, burst, passed, driverVars, workerVars,
                   closeQueued>>

-----------------------------------------------------------------------------
(* The driver.  A handler that must wait leaves "idle".                    *)

DriverFree(e) == session[e] = "up" /\ driver[e] = Idle

\* Faulty: A second PING replaces the outstanding one.
KeepaliveTick_Again(e) ==
    /\ DriverFree(e)
    /\ pings[e] < MaxPings[e]
    /\ pings' = [pings EXCEPT ![e] = @ + 1]
    /\ driver' = [driver EXCEPT ![e] = [at |-> "ping", nonce |-> pings[e] + 1]]
    /\ UNCHANGED <<session, queues, writerVars, ping, requests, workerVars, closeQueued>>

\* keepalive.tick() with no PING outstanding.
KeepaliveTick(e) ==
    /\ DriverFree(e)
    /\ ping[e] = 0 /\ pings[e] < MaxPings[e]
    /\ pings' = [pings EXCEPT ![e] = @ + 1]
    /\ driver' = [driver EXCEPT ![e] = [at |-> "ping", nonce |-> pings[e] + 1]]
    /\ UNCHANGED <<session, queues, writerVars, ping, requests, workerVars, closeQueued>>

SendControl(e) ==
    /\ session[e] = "up" /\ driver[e].at \in {"ping", "pong"}
    /\ Len(control[e]) < ControlCapacity
    /\ control' = [control EXCEPT ![e] = Append(@,
          [type |-> IF driver[e].at = "ping" THEN "PING" ELSE "PONG",
           nonce |-> driver[e].nonce])]
    /\ ping' = [ping EXCEPT ![e] = IF driver[e].at = "ping" THEN driver[e].nonce ELSE @]
    /\ driver' = [driver EXCEPT ![e] = Idle]
    /\ UNCHANGED <<session, ordered, reader, writerVars, pings, requests, workerVars, closeQueued>>

\* handle_client_command: RESOLVE or OPEN.
ClientCommand(e) ==
    /\ DriverFree(e) /\ e = "client"
    /\ requests < MaxRequests
    /\ requests' = requests + 1
    /\ driver' = [driver EXCEPT ![e] = [at |-> "send", type |-> "REQUEST"]]
    /\ UNCHANGED <<session, queues, writerVars, ping, pings, workerVars, closeQueued>>

\* handle_client_frame, handle_agent_frame.  A REPLY is RESOLVE_OK, OPEN_OK or
\* OPEN_ERROR.
HandleFrame(e) ==
    /\ DriverFree(e) /\ reader[e] # <<>>
    /\ reader' = [reader EXCEPT ![e] = Tail(@)]
    /\ LET frame == Head(reader[e])
       IN  \/ /\ frame.type \in {"DATA", "WINDOW_UPDATE", "REPLY"}
              /\ UNCHANGED <<session, driver, ping>>
           \/ /\ frame.type = "CLOSE"
              /\ driver' = [driver EXCEPT ![e] = [at |-> "gate", stream |-> frame.stream]]
              /\ UNCHANGED <<session, ping>>
           \/ /\ frame.type = "REQUEST"
              /\ driver' = [driver EXCEPT ![e] = [at |-> "send", type |-> "REPLY"]]
              /\ UNCHANGED <<session, ping>>
           \/ /\ frame.type = "PING"
              /\ driver' = [driver EXCEPT ![e] = [at |-> "pong", nonce |-> frame.nonce]]
              /\ UNCHANGED <<session, ping>>
           \/ /\ frame.type = "PONG"
              /\ IF ping[e] = frame.nonce
                 THEN ping' = [ping EXCEPT ![e] = 0] /\ UNCHANGED session
                 ELSE session' = [session EXCEPT ![e] = "badPong"] /\ UNCHANGED ping
              /\ UNCHANGED driver
    /\ UNCHANGED <<control, ordered, writerVars, pings, requests, workerVars, closeQueued>>

\* queue_close_once, as MuxStream has it.
DriverLockGate(e) ==
    /\ session[e] = "up" /\ driver[e].at = "gate"
    /\ LET s == driver[e].stream
       IN  /\ SendGateFree(e, s)
           /\ closeQueued' = [closeQueued EXCEPT ![e][s] = TRUE]
           /\ driver' = [driver EXCEPT ![e] =
                            IF closeQueued[e][s] THEN Idle ELSE [at |-> "close", stream |-> s]]
    /\ UNCHANGED <<session, queues, writerVars, ping, pings, requests, workerVars>>

DriverSend(e) ==
    /\ session[e] = "up" /\ driver[e].at \in {"close", "send"}
    /\ OrderedRoom(e)
    /\ Enqueue(e, IF driver[e].at = "close"
                  THEN [type |-> "CLOSE", stream |-> driver[e].stream]
                  ELSE [type |-> driver[e].type])
    /\ driver' = [driver EXCEPT ![e] = Idle]
    /\ UNCHANGED <<session, control, reader, writerVars, ping, pings, requests, workerVars,
                   closeQueued>>

-----------------------------------------------------------------------------
(* Timeouts, and the loss of a peer that has ended.                        *)

\* Faulty: the driver's wait for a slot of the ordered queue is not timed.
OperationExpires_QueueUntimed(e) ==
    session[e] = "up" /\ driver[e] # Idle /\ driver[e].at # "send"

OperationExpires(e) == session[e] = "up" /\ driver[e] # Idle

WriteExpires(e) == session[e] = "up" /\ writer[e] # None /\ Len(reader[Peer(e)]) = ReaderCapacity
PingExpires(e) == DriverFree(e) /\ ping[e] # 0
PeerGone(e) == session[e] # "ended" /\ (session[e] # "up" \/ session[Peer(e)] = "ended")

\* The tasks of an ended session are aborted and its queues dropped.
End(e) ==
    /\ session' = [session EXCEPT ![e] = "ended"]
    /\ driver' = [driver EXCEPT ![e] = Idle]
    /\ outbound' = [outbound EXCEPT ![e] = [s \in Streams |-> "end"]]
    /\ credit' = [credit EXCEPT ![e] = [s \in Streams |-> "end"]]
    /\ control' = [control EXCEPT ![e] = <<>>]
    /\ ordered' = [ordered EXCEPT ![e] = <<>>]
    /\ writer' = [writer EXCEPT ![e] = None]
    /\ UNCHANGED <<reader, burst, passed, ping, pings, requests, sentData, closeQueued>>

SessionOperationTimeout(e) == OperationExpires(e) /\ End(e)
FrameWriteTimeout(e) == WriteExpires(e) /\ End(e)
KeepaliveTimeout(e) == PingExpires(e) /\ End(e)
PeerEnded(e) == PeerGone(e) /\ End(e)

-----------------------------------------------------------------------------
Init ==
    /\ session = [e \in Ends |-> "up"]
    /\ control = [e \in Ends |-> <<>>] /\ ordered = [e \in Ends |-> <<>>]
    /\ reader = [e \in Ends |-> <<>>]
    /\ writer = [e \in Ends |-> None]
    /\ burst = [e \in Ends |-> 0] /\ passed = [e \in Ends |-> 0]
    /\ driver = [e \in Ends |-> Idle]
    /\ ping = [e \in Ends |-> 0] /\ pings = [e \in Ends |-> 0] /\ requests = 0
    /\ outbound = [e \in Ends |-> [s \in Streams |-> "loop"]]
    /\ credit = [e \in Ends |-> [s \in Streams |-> "loop"]]
    /\ sentData = [e \in Ends |-> [s \in Streams |-> 0]]
    /\ closeQueued = [e \in Ends |-> [s \in Streams |-> FALSE]]

Worker(e, s) ==
    OutboundLockGate(e, s) \/ OutboundSend(e, s) \/ CreditReserve(e, s) \/ CreditSend(e, s)

Driver(e) == SendControl(e) \/ HandleFrame(e) \/ DriverLockGate(e) \/ DriverSend(e)

Timeout(e) == SessionOperationTimeout(e) \/ FrameWriteTimeout(e) \/ KeepaliveTimeout(e)

Next ==
    \E e \in Ends :
        \/ \E s \in Streams : Worker(e, s)
        \/ WriterSelect(e) \/ WriterWrite(e)
        \/ KeepaliveTick(e) \/ ClientCommand(e) \/ Driver(e)
        \/ Timeout(e) \/ PeerEnded(e)

Spec == Init /\ [][Next]_vars

(***************************************************************************)
(* Every task that can run is polled and every pending deadline passes.    *)
(* No stream need send or close, and no keepalive need be due.             *)
(***************************************************************************)
Fairness ==
    \A e \in Ends :
        /\ \A s \in Streams : WF_vars(OutboundSend(e, s)) /\ WF_vars(CreditSend(e, s))
        /\ WF_vars(WriterSelect(e)) /\ WF_vars(WriterWrite(e))
        /\ WF_vars(Driver(e))
        /\ WF_vars(SessionOperationTimeout(e)) /\ WF_vars(PeerEnded(e))

FairSpec == Spec /\ Fairness

-----------------------------------------------------------------------------
(***************************************************************************)
(* Type correctness: no queue ever holds more than its capacity, reserved  *)
(* permits included.                                                       *)
(***************************************************************************)
TypeOK ==
    /\ session \in [Ends -> {"up", "badPong", "ended"}]
    /\ \A e \in Ends :
          /\ Len(control[e]) <= ControlCapacity
          /\ Len(ordered[e]) + Reserved(e) <= OrderedCapacity
          /\ Len(reader[e]) <= ReaderCapacity
          /\ driver[e].at \in {"idle", "ping", "pong", "gate", "close", "send"}
          /\ ping[e] \in 0 .. MaxPings[e]
          /\ \A s \in Streams : outbound[e][s] \in {"loop", "data", "close", "end"}
                                /\ credit[e][s] \in {"loop", "reserved", "end"}

(***************************************************************************)
(* A PONG always carries the nonce of the outstanding PING: the keepalive  *)
(* never ends a healthy session with "unexpected PONG nonce".              *)
(***************************************************************************)
PongExpected == \A e \in Ends : session[e] # "badPong"

(***************************************************************************)
(* PING and PONG overtake ordered frames, but never more than Burst of     *)
(* them in a row while one waits.                                          *)
(***************************************************************************)
OrderedNotStarved == \A e \in Ends : passed[e] <= Burst

(***************************************************************************)
(* A worker that holds the send gate does not hold it for ever: the credit *)
(* workers that hold a permit while they await the gate cannot, all        *)
(* together, keep the slot that the holder of the gate awaits.             *)
(***************************************************************************)
GateReleased ==
    \A e \in Ends, s \in Streams :
        outbound[e][s] \in {"data", "close"} ~> outbound[e][s] \notin {"data", "close"}

(***************************************************************************)
(* A driver inside a handler returns to its loop, or its session ends,     *)
(* even when both ends wait for each other with every queue full.          *)
(***************************************************************************)
DriverReturns == \A e \in Ends : driver[e] # Idle ~> driver[e] = Idle

(***************************************************************************)
(* Queues at their limit keep their bounds and their order of service:     *)
(* control frames do not starve ordered ones.                              *)
(***************************************************************************)
QueuesServed == TypeOK /\ OrderedNotStarved

(***************************************************************************)
(* The writer and the keepalive keep a healthy session up: what overtakes  *)
(* in the queues neither overflows nor starves them, and a PONG delayed in *)
(* them is still the one that is expected.                                 *)
(***************************************************************************)
TrafficSound == QueuesServed /\ PongExpected

(***************************************************************************)
(* Nobody waits for ever, neither a driver in its handler nor a worker     *)
(* that holds the gate of its stream.                                      *)
(***************************************************************************)
NobodyStuck == GateReleased /\ DriverReturns
=============================================================================
