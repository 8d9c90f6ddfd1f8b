------------------------- MODULE MuxTransportProofs -------------------------
(***************************************************************************)
(* The queues of an RDP session, for any number of streams and any         *)
(* capacities: they keep their bounds and their order of service, and a    *)
(* PONG always answers the outstanding PING.                               *)
(***************************************************************************)
EXTENDS MuxTransport, FiniteSetTheorems, TLAPS

Heartbeats == [type : {"PING", "PONG"}, nonce : Nat \ {0}]
StreamFrames == [type : {"DATA", "CLOSE", "WINDOW_UPDATE"}, stream : Streams]
Requests == [type : {"REQUEST", "REPLY"}]
OrderedFrames == StreamFrames \cup Requests
Frames == Heartbeats \cup OrderedFrames

Handlers ==
    {Idle} \cup [at : {"ping", "pong"}, nonce : Nat \ {0}]
           \cup [at : {"gate", "close"}, stream : Streams]
           \cup [at : {"send"}, type : {"REQUEST", "REPLY"}]

Types ==
    /\ session \in [Ends -> {"up", "badPong", "ended"}]
    /\ control \in [Ends -> Seq(Heartbeats)]
    /\ ordered \in [Ends -> Seq(OrderedFrames)]
    /\ reader \in [Ends -> Seq(Frames)]
    /\ writer \in [Ends -> Frames \cup {None}]
    /\ burst \in [Ends -> Nat] /\ passed \in [Ends -> Nat]
    /\ driver \in [Ends -> Handlers]
    /\ ping \in [Ends -> Nat] /\ pings \in [Ends -> Nat]
    /\ outbound \in [Ends -> [Streams -> {"loop", "data", "close", "end"}]]
    /\ credit \in [Ends -> [Streams -> {"loop", "reserved", "end"}]]

Bounded(e) ==
    /\ Len(control[e]) <= ControlCapacity
    /\ Len(ordered[e]) + Reserved(e) <= OrderedCapacity
    /\ Len(reader[e]) <= ReaderCapacity
    /\ ping[e] <= MaxPings[e]
    /\ driver[e].at = "ping" => driver[e].nonce <= MaxPings[e]

\* control_burst counts the control frames that passed the waiting one.
Served(e) == passed[e] <= burst[e] /\ burst[e] <= Burst

-----------------------------------------------------------------------------
(* Where the outstanding PING of e, or the PONG that answers it, may be.   *)

Holds(queue, t) == \E i \in 1 .. Len(queue) : queue[i].type = t

\* The frames of type t in the queue are one frame, and it has this nonce.
Single(queue, t, nonce) ==
    \A i \in 1 .. Len(queue) : queue[i].type = t =>
        queue[i].nonce = nonce /\ \A j \in 1 .. Len(queue) : queue[j].type = t => j = i

Places == {"nowhere", "control", "writer", "reader", "peer", "controlBack", "writerBack",
           "readerBack"}

Empty(e, place) ==
    CASE place = "control" -> ~Holds(control[e], "PING")
      [] place = "writer" -> writer[e].type # "PING"
      [] place = "reader" -> ~Holds(reader[Peer(e)], "PING")
      [] place = "peer" -> driver[Peer(e)].at # "pong"
      [] place = "controlBack" -> ~Holds(control[Peer(e)], "PONG")
      [] place = "writerBack" -> writer[Peer(e)].type # "PONG"
      [] place = "readerBack" -> ~Holds(reader[e], "PONG")
      [] OTHER -> TRUE

\* What is there has the nonce that e waits for.
Matches(e, place) ==
    CASE place = "control" -> Single(control[e], "PING", ping[e])
      [] place = "writer" -> writer[e].type = "PING" => writer[e].nonce = ping[e]
      [] place = "reader" -> Single(reader[Peer(e)], "PING", ping[e])
      [] place = "peer" -> driver[Peer(e)].at = "pong" => driver[Peer(e)].nonce = ping[e]
      [] place = "controlBack" -> Single(control[Peer(e)], "PONG", ping[e])
      [] place = "writerBack" ->
            writer[Peer(e)].type = "PONG" => writer[Peer(e)].nonce = ping[e]
      [] place = "readerBack" -> Single(reader[e], "PONG", ping[e])
      [] OTHER -> TRUE

\* Of a PING and its PONG there is one at most, and none while no PING is out.
OneHeartbeat(e) ==
    /\ \E place \in Places :
          /\ \A other \in Places \ {place} : Empty(e, other)
          /\ place # "nowhere" => ping[e] # 0
    /\ \A place \in Places : Matches(e, place)
    /\ driver[e].at = "ping" => ping[e] = 0

\* The inductive invariant.
TransportInv ==
    /\ Types
    /\ \A e \in Ends : Bounded(e) /\ Served(e) /\ OneHeartbeat(e)
    /\ PongExpected

USE CapacityAssumption, StreamsAssumption

-----------------------------------------------------------------------------
(***************************************************************************)
(* What a frame, and the wait of a handler, are by their tag.              *)
(***************************************************************************)
LEMMA FrameKinds ==
  ASSUME NEW f \in Frames
  PROVE  /\ f.type \in {"PING", "PONG"} => f \in Heartbeats /\ f.nonce \in Nat \ {0}
         /\ f.type \in {"DATA", "CLOSE", "WINDOW_UPDATE"} => f.stream \in Streams
         /\ f.type \in {"PING", "PONG", "DATA", "CLOSE", "WINDOW_UPDATE", "REQUEST", "REPLY"}
         /\ f # None
  BY DEF Frames, Heartbeats, OrderedFrames, StreamFrames, Requests, None

LEMMA OrderedKinds ==
  ASSUME NEW f \in OrderedFrames PROVE f.type \notin {"PING", "PONG"}
  BY DEF OrderedFrames, StreamFrames, Requests

LEMMA HeartbeatKinds ==
  ASSUME NEW f \in Heartbeats PROVE f.type \in {"PING", "PONG"}
  BY DEF Heartbeats

LEMMA HandlerKinds ==
  ASSUME NEW d \in Handlers
  PROVE  /\ d.at \in {"idle", "ping", "pong", "gate", "close", "send"}
         /\ d.at \in {"ping", "pong"} => d.nonce \in Nat \ {0}
         /\ d.at \in {"gate", "close"} => d.stream \in Streams
         /\ d.at = "send" => d.type \in {"REQUEST", "REPLY"}
         /\ d = Idle <=> d.at = "idle"
  BY DEF Handlers, Idle

LEMMA Facing == \A e \in Ends : Peer(e) \in Ends /\ Peer(e) # e /\ Peer(Peer(e)) = e
                                /\ Ends = {e, Peer(e)}
  BY DEF Ends, Peer

\* None and Idle are of no other kind.
LEMMA Nothing == None.type = "none" /\ Idle.at = "idle" /\ Idle \in Handlers
  BY DEF None, Idle, Handlers

-----------------------------------------------------------------------------
(***************************************************************************)
(* Types.                                                                  *)
(***************************************************************************)

Ended(e) ==
    SessionOperationTimeout(e) \/ FrameWriteTimeout(e) \/ KeepaliveTimeout(e) \/ PeerEnded(e)

\* An ended session, whatever ended it.
LEMMA EndedEnds == ASSUME NEW e \in Ends, Ended(e) PROVE End(e)
  BY DEF Ended, SessionOperationTimeout, FrameWriteTimeout, KeepaliveTimeout, PeerEnded

LEMMA WorkerTypes ==
  ASSUME Types, NEW e \in Ends, NEW s \in Streams, Worker(e, s)
  PROVE  Types'
<1>1. CASE OutboundLockGate(e, s)
  <2>1. outbound' \in [Ends -> [Streams -> {"loop", "data", "close", "end"}]]
    <3>1. outbound[e] \in [Streams -> {"loop", "data", "close", "end"}]
      BY DEF Types
    <3>2. \A x \in {"data", "close", "end"} :
             [outbound EXCEPT ![e][s] = x]
               \in [Ends -> [Streams -> {"loop", "data", "close", "end"}]]
      BY <3>1 DEF Types
    <3> QED  BY <1>1, <3>2 DEF OutboundLockGate
  <2> QED  BY <1>1, <2>1 DEF OutboundLockGate, Types, queues, writerVars, driverVars
<1>2. CASE OutboundSend(e, s)
  <2>1. [type |-> "DATA", stream |-> s] \in OrderedFrames
        /\ [type |-> "CLOSE", stream |-> s] \in OrderedFrames
    BY DEF OrderedFrames, StreamFrames
  <2>2. outbound' \in [Ends -> [Streams -> {"loop", "data", "close", "end"}]]
    <3>1. outbound \in [Ends -> [Streams -> {"loop", "data", "close", "end"}]]
      BY DEF Types
    <3>2. \/ outbound' = [outbound EXCEPT ![e][s] = "loop"]
          \/ outbound' = [outbound EXCEPT ![e][s] = "end"]
      BY <1>2 DEF OutboundSend
    <3> QED  BY <3>1, <3>2
  <2>3. \A f \in OrderedFrames : Append(ordered[e], f) \in Seq(OrderedFrames)
    BY DEF Types
  <2>4. ordered' \in [Ends -> Seq(OrderedFrames)]
    <3>1. ordered \in [Ends -> Seq(OrderedFrames)]
      BY DEF Types
    <3>2. PICK f \in OrderedFrames : ordered' = [ordered EXCEPT ![e] = Append(@, f)]
      BY <1>2, <2>1 DEF OutboundSend, Enqueue
    <3> QED  BY <2>3, <3>1, <3>2
  <2> QED  BY <1>2, <2>2, <2>4 DEF OutboundSend, Types, writerVars, driverVars
<1>3. CASE CreditReserve(e, s)
  BY <1>3 DEF CreditReserve, Types, queues, writerVars, driverVars
<1>4. CASE CreditSend(e, s)
  <2>1. [type |-> "WINDOW_UPDATE", stream |-> s] \in OrderedFrames
    BY DEF OrderedFrames, StreamFrames
  <2>2. Append(ordered[e], [type |-> "WINDOW_UPDATE", stream |-> s]) \in Seq(OrderedFrames)
    BY <2>1 DEF Types
  <2>3. ordered' \in [Ends -> Seq(OrderedFrames)]
    BY <1>4, <2>2 DEF CreditSend, Enqueue, Types
  <2>4. credit' \in [Ends -> [Streams -> {"loop", "reserved", "end"}]]
    BY <1>4 DEF CreditSend, Types
  <2> QED  BY <1>4, <2>3, <2>4 DEF CreditSend, Types, writerVars, driverVars
<1> QED  BY <1>1, <1>2, <1>3, <1>4 DEF Worker

LEMMA SelectTypes ==
  ASSUME Types, NEW e \in Ends, WriterSelect(e)
  PROVE  Types'
<1>1. control[e] \in Seq(Heartbeats) /\ ordered[e] \in Seq(OrderedFrames)
  BY DEF Types
<1>2. control[e] # <<>> => Head(control[e]) \in Frames /\ Tail(control[e]) \in Seq(Heartbeats)
  BY <1>1 DEF Frames
<1>3. ordered[e] # <<>> => Head(ordered[e]) \in Frames /\ Tail(ordered[e]) \in Seq(OrderedFrames)
  BY <1>1 DEF Frames
<1>4. /\ burst[e] \in Nat /\ passed[e] \in Nat
      /\ writer \in [Ends -> Frames \cup {None}]
      /\ control \in [Ends -> Seq(Heartbeats)] /\ ordered \in [Ends -> Seq(OrderedFrames)]
      /\ burst \in [Ends -> Nat] /\ passed \in [Ends -> Nat]
  BY DEF Types
<1>5. PICK f \in Frames : writer' = [writer EXCEPT ![e] = f]
  BY <1>2, <1>3 DEF WriterSelect, ControlFirst
<1>6. control' = control \/ (control[e] # <<>> /\ control' = [control EXCEPT ![e] = Tail(@)])
  BY DEF WriterSelect, ControlFirst
<1>7. ordered' = ordered \/ (ordered[e] # <<>> /\ ordered' = [ordered EXCEPT ![e] = Tail(@)])
  BY DEF WriterSelect
<1>8. \E b, n \in Nat : burst' = [burst EXCEPT ![e] = b] /\ passed' = [passed EXCEPT ![e] = n]
  <2>1. \/ /\ burst' = [burst EXCEPT ![e] = IF @ < Burst THEN @ + 1 ELSE @]
           /\ passed' = [passed EXCEPT ![e] = IF ordered[e] = <<>> THEN 0 ELSE @ + 1]
        \/ burst' = [burst EXCEPT ![e] = 0] /\ passed' = [passed EXCEPT ![e] = 0]
    BY DEF WriterSelect
  <2> DEFINE b == IF burst[e] < Burst THEN burst[e] + 1 ELSE burst[e]
             n == IF ordered[e] = <<>> THEN 0 ELSE passed[e] + 1
  <2>2. b \in Nat /\ n \in Nat
    BY <1>4
  <2>3. \/ burst' = [burst EXCEPT ![e] = b] /\ passed' = [passed EXCEPT ![e] = n]
        \/ burst' = [burst EXCEPT ![e] = 0] /\ passed' = [passed EXCEPT ![e] = 0]
    BY <1>4, <2>1
  <2> HIDE DEF b, n
  <2> QED  BY <2>2, <2>3
<1>9. writer' \in [Ends -> Frames \cup {None}]
  BY <1>4, <1>5
<1>10. control' \in [Ends -> Seq(Heartbeats)] /\ ordered' \in [Ends -> Seq(OrderedFrames)]
  BY <1>2, <1>3, <1>4, <1>6, <1>7
<1>11. burst' \in [Ends -> Nat] /\ passed' \in [Ends -> Nat]
  BY <1>4, <1>8
<1> QED
  BY <1>9, <1>10, <1>11 DEF WriterSelect, Types, driverVars, workerVars

LEMMA WriteTypes ==
  ASSUME Types, NEW e \in Ends, WriterWrite(e)
  PROVE  Types'
<1>1. writer[e] \in Frames
  BY DEF WriterWrite, Types
<1>2. Append(reader[Peer(e)], writer[e]) \in Seq(Frames)
  BY <1>1, Facing DEF Types
<1> QED
  BY <1>2, Facing DEF WriterWrite, Types, driverVars, workerVars

LEMMA TickTypes ==
  ASSUME Types, NEW e \in Ends, KeepaliveTick(e)
  PROVE  Types'
<1>1. pings[e] + 1 \in Nat \ {0}
  BY DEF Types
<1>2. [at |-> "ping", nonce |-> pings[e] + 1] \in Handlers
  BY <1>1 DEF Handlers
<1> QED
  BY <1>1, <1>2 DEF KeepaliveTick, Types, queues, writerVars, workerVars

LEMMA ControlTypes ==
  ASSUME Types, NEW e \in Ends, SendControl(e)
  PROVE  Types'
<1>1. driver[e].nonce \in Nat \ {0}
  BY HandlerKinds DEF SendControl, Types
<1>2. [type |-> IF driver[e].at = "ping" THEN "PING" ELSE "PONG",
       nonce |-> driver[e].nonce] \in Heartbeats
  BY <1>1 DEF Heartbeats
<1> QED
  BY <1>1, <1>2, Nothing DEF SendControl, Types, writerVars, workerVars

LEMMA CommandTypes ==
  ASSUME Types, NEW e \in Ends, ClientCommand(e)
  PROVE  Types'
<1>1. [at |-> "send", type |-> "REQUEST"] \in Handlers
  BY DEF Handlers
<1> QED
  BY <1>1 DEF ClientCommand, Types, queues, writerVars, workerVars

LEMMA HandleTypes ==
  ASSUME Types, NEW e \in Ends, HandleFrame(e)
  PROVE  Types'
<1> DEFINE f == Head(reader[e])
<1>1. f \in Frames /\ Tail(reader[e]) \in Seq(Frames)
  BY DEF HandleFrame, Types
<1>2. f.type = "CLOSE" => [at |-> "gate", stream |-> f.stream] \in Handlers
  BY <1>1, FrameKinds DEF Handlers
<1>3. [at |-> "send", type |-> "REPLY"] \in Handlers
  BY DEF Handlers
<1>4. f.type = "PING" => [at |-> "pong", nonce |-> f.nonce] \in Handlers
  BY <1>1, FrameKinds DEF Handlers
<1>5. session' \in [Ends -> {"up", "badPong", "ended"}] /\ ping' \in [Ends -> Nat]
      /\ driver' \in [Ends -> Handlers]
  <2> HIDE DEF f
  <2>1. \/ UNCHANGED <<session, driver, ping>>
        \/ /\ f.type = "CLOSE"
           /\ driver' = [driver EXCEPT ![e] = [at |-> "gate", stream |-> f.stream]]
           /\ UNCHANGED <<session, ping>>
        \/ /\ driver' = [driver EXCEPT ![e] = [at |-> "send", type |-> "REPLY"]]
           /\ UNCHANGED <<session, ping>>
        \/ /\ f.type = "PING"
           /\ driver' = [driver EXCEPT ![e] = [at |-> "pong", nonce |-> f.nonce]]
           /\ UNCHANGED <<session, ping>>
        \/ ping' = [ping EXCEPT ![e] = 0] /\ UNCHANGED <<session, driver>>
        \/ session' = [session EXCEPT ![e] = "badPong"] /\ UNCHANGED <<ping, driver>>
    BY DEF HandleFrame, f
  <2>2. /\ session \in [Ends -> {"up", "badPong", "ended"}] /\ ping \in [Ends -> Nat]
        /\ driver \in [Ends -> Handlers]
    BY DEF Types
  <2> QED  BY <1>2, <1>3, <1>4, <2>1, <2>2
<1>6. reader' \in [Ends -> Seq(Frames)]
  BY <1>1 DEF HandleFrame, Types
<1> QED
  BY <1>5, <1>6 DEF HandleFrame, Types, writerVars, workerVars

LEMMA LockTypes ==
  ASSUME Types, NEW e \in Ends, DriverLockGate(e)
  PROVE  Types'
<1>1. driver[e].stream \in Streams
  BY HandlerKinds DEF DriverLockGate, Types
<1>2. [at |-> "close", stream |-> driver[e].stream] \in Handlers
  BY <1>1 DEF Handlers
<1> QED
  BY <1>2, Nothing DEF DriverLockGate, Types, queues, writerVars, workerVars

LEMMA SendTypes ==
  ASSUME Types, NEW e \in Ends, DriverSend(e)
  PROVE  Types'
<1>1. IF driver[e].at = "close" THEN driver[e].stream \in Streams
                                ELSE driver[e].type \in {"REQUEST", "REPLY"}
  BY HandlerKinds DEF DriverSend, Types
<1>2. (IF driver[e].at = "close" THEN [type |-> "CLOSE", stream |-> driver[e].stream]
                                 ELSE [type |-> driver[e].type]) \in OrderedFrames
  BY <1>1 DEF OrderedFrames, StreamFrames, Requests
<1> QED
  BY <1>2, Nothing DEF DriverSend, Enqueue, Types, writerVars, workerVars

LEMMA EndTypes ==
  ASSUME Types, NEW e \in Ends, End(e)
  PROVE  Types'
  BY Nothing DEF End, Types

-----------------------------------------------------------------------------
(***************************************************************************)
(* A step of one end, and what it can touch.                               *)
(***************************************************************************)
Step(e) ==
    \/ \E s \in Streams : Worker(e, s)
    \/ WriterSelect(e) \/ WriterWrite(e)
    \/ KeepaliveTick(e) \/ ClientCommand(e) \/ Driver(e)
    \/ Ended(e)

LEMMA NextSteps == Next <=> \E e \in Ends : Step(e)
  BY DEF Next, Step, Timeout, Ended

LEMMA StepTypes ==
  ASSUME Types, NEW e \in Ends, Step(e)
  PROVE  Types'
  BY WorkerTypes, SelectTypes, WriteTypes, TickTypes, ControlTypes, CommandTypes, HandleTypes,
     LockTypes, SendTypes, EndTypes, EndedEnds DEF Step, Driver

\* Workers move frames into the ordered queue, and nothing else.
LEMMA WorkerTouches ==
  ASSUME NEW e \in Ends, NEW s \in Streams, Worker(e, s)
  PROVE  UNCHANGED <<session, control, reader, writerVars, driverVars>>
  BY DEF Worker, OutboundLockGate, OutboundSend, CreditReserve, CreditSend, queues

LEMMA ControlTouched ==
  ASSUME NEW e \in Ends, Step(e)
  PROVE  control' = control \/ WriterSelect(e) \/ SendControl(e) \/ End(e)
<1>1. \A s \in Streams : Worker(e, s) => control' = control
  BY WorkerTouches
<1>2. WriterWrite(e) \/ KeepaliveTick(e) \/ ClientCommand(e) => control' = control
  BY DEF WriterWrite, KeepaliveTick, ClientCommand, queues
<1>3. HandleFrame(e) \/ DriverLockGate(e) \/ DriverSend(e) => control' = control
  BY DEF HandleFrame, DriverLockGate, DriverSend, queues
<1> QED
  BY <1>1, <1>2, <1>3, EndedEnds DEF Step, Driver

LEMMA OrderedTouched ==
  ASSUME NEW e \in Ends, Step(e)
  PROVE  \/ UNCHANGED <<ordered, credit>>
         \/ \E s \in Streams : Worker(e, s)
         \/ WriterSelect(e) \/ DriverSend(e) \/ End(e)
<1>1. WriterWrite(e) \/ KeepaliveTick(e) \/ ClientCommand(e) => UNCHANGED <<ordered, credit>>
  BY DEF WriterWrite, KeepaliveTick, ClientCommand, queues, workerVars
<1>2. HandleFrame(e) \/ DriverLockGate(e) \/ SendControl(e) => UNCHANGED <<ordered, credit>>
  BY DEF HandleFrame, DriverLockGate, SendControl, queues, workerVars
<1> QED
  BY <1>1, <1>2, EndedEnds DEF Step, Driver

LEMMA ReaderTouched ==
  ASSUME NEW e \in Ends, Step(e)
  PROVE  reader' = reader \/ WriterWrite(e) \/ HandleFrame(e)
<1>1. \A s \in Streams : Worker(e, s) => reader' = reader
  BY WorkerTouches
<1>2. WriterSelect(e) \/ KeepaliveTick(e) \/ ClientCommand(e) => reader' = reader
  BY DEF WriterSelect, KeepaliveTick, ClientCommand, queues
<1>3. SendControl(e) \/ DriverLockGate(e) \/ DriverSend(e) => reader' = reader
  BY DEF SendControl, DriverLockGate, DriverSend, queues
<1>4. End(e) => reader' = reader
  BY DEF End
<1> QED
  BY <1>1, <1>2, <1>3, <1>4, EndedEnds DEF Step, Driver

-----------------------------------------------------------------------------
(***************************************************************************)
(* The queues keep their bounds.                                           *)
(***************************************************************************)

\* A permit that a credit worker reserves or gives up is one slot.
LEMMA ReservedCount ==
  ASSUME Types, NEW e \in Ends
  PROVE  /\ Reserved(e) \in Nat
         /\ \A s \in Streams :
               /\ credit'[e] = [credit[e] EXCEPT ![s] = "reserved"] =>
                     Reserved(e)' <= Reserved(e) + 1
               /\ credit[e][s] = "reserved" /\ credit'[e] = [credit[e] EXCEPT ![s] = "end"] =>
                     Reserved(e)' + 1 = Reserved(e)
         /\ credit'[e] = [s \in Streams |-> "end"] => Reserved(e)' = 0
         /\ credit'[e] = credit[e] => Reserved(e)' = Reserved(e)
<1> DEFINE H == {s \in Streams : credit[e][s] = "reserved"}
           G == {s \in Streams : credit'[e][s] = "reserved"}
<1>1. credit[e] \in [Streams -> {"loop", "reserved", "end"}]
  BY DEF Types
<1>2. H \in SUBSET Streams /\ IsFiniteSet(H) /\ Cardinality(H) \in Nat
  BY FS_Subset, FS_CardinalityType
<1>3. Reserved(e) = Cardinality(H) /\ Reserved(e)' = Cardinality(G)
  BY DEF Reserved
<1>4. ASSUME NEW s \in Streams, credit'[e] = [credit[e] EXCEPT ![s] = "reserved"]
      PROVE  Cardinality(G) <= Cardinality(H) + 1
  <2>1. G = H \cup {s}
    BY <1>1, <1>4
  <2> HIDE DEF H, G
  <2>2. Cardinality(H \cup {s}) \in {Cardinality(H), Cardinality(H) + 1}
    BY <1>2, FS_AddElement
  <2> QED  BY <1>2, <2>1, <2>2
<1>5. ASSUME NEW s \in Streams, credit[e][s] = "reserved",
             credit'[e] = [credit[e] EXCEPT ![s] = "end"]
      PROVE  Cardinality(G) + 1 = Cardinality(H)
  <2>1. G = H \ {s} /\ s \in H
    BY <1>1, <1>5
  <2> HIDE DEF H, G
  <2>2. Cardinality(H \ {s}) = Cardinality(H) - 1
    BY <1>2, <2>1, FS_RemoveElement
  <2> QED  BY <1>2, <2>1, <2>2
<1>6. credit'[e] = [s \in Streams |-> "end"] => G = {}
  OBVIOUS
<1>7. credit'[e] = credit[e] => G = H
  OBVIOUS
<1> HIDE DEF H, G
<1> QED
  BY <1>2, <1>3, <1>4, <1>5, <1>6, <1>7, FS_EmptySet

LEMMA ControlBounded ==
  ASSUME Types, NEW e \in Ends, Step(e), \A x \in Ends : Len(control[x]) <= ControlCapacity
  PROVE  \A x \in Ends : Len(control'[x]) <= ControlCapacity
<1>1. control \in [Ends -> Seq(Heartbeats)] /\ control' \in [Ends -> Seq(Heartbeats)]
  BY StepTypes DEF Types
<1>2. CASE WriterSelect(e)
  <2>1. control' = control \/ (control[e] # <<>> /\ control' = [control EXCEPT ![e] = Tail(@)])
    BY <1>2 DEF WriterSelect, ControlFirst
  <2>2. control[e] # <<>> => Len(Tail(control[e])) = Len(control[e]) - 1 /\ Len(control[e]) \in Nat
    BY <1>1
  <2>3. control[e] # <<>> => Len(Tail(control[e])) <= ControlCapacity
    BY <2>2
  <2> QED  BY <1>1, <2>1, <2>3
<1>3. CASE SendControl(e)
  <2>1. PICK f \in Heartbeats :
           control' = [control EXCEPT ![e] = Append(@, f)] /\ Len(control[e]) < ControlCapacity
    <3>1. driver[e].nonce \in Nat \ {0}
      BY <1>3, HandlerKinds DEF SendControl, Types
    <3>2. [type |-> IF driver[e].at = "ping" THEN "PING" ELSE "PONG",
           nonce |-> driver[e].nonce] \in Heartbeats
      BY <3>1 DEF Heartbeats
    <3> QED  BY <1>3, <3>2 DEF SendControl
  <2>2. Len(Append(control[e], f)) = Len(control[e]) + 1 /\ Len(control[e]) \in Nat
    BY <1>1
  <2> QED  BY <1>1, <2>1, <2>2
<1>4. CASE End(e)
  <2>1. control' = [control EXCEPT ![e] = <<>>]
    BY <1>4 DEF End
  <2> QED  BY <1>1, <2>1
<1> QED
  BY <1>2, <1>3, <1>4, ControlTouched

LEMMA OrderedBounded ==
  ASSUME Types, NEW e \in Ends, Step(e),
         \A x \in Ends : Len(ordered[x]) + Reserved(x) <= OrderedCapacity
  PROVE  \A x \in Ends : Len(ordered'[x]) + Reserved(x)' <= OrderedCapacity
<1>1. /\ ordered \in [Ends -> Seq(OrderedFrames)] /\ ordered' \in [Ends -> Seq(OrderedFrames)]
      /\ credit \in [Ends -> [Streams -> {"loop", "reserved", "end"}]]
  BY StepTypes DEF Types
<1>2. \A x \in Ends : Reserved(x) \in Nat /\ Len(ordered[x]) \in Nat /\ Len(ordered'[x]) \in Nat
  BY <1>1, ReservedCount
<1>3. \A x \in Ends : ordered'[x] = ordered[x] /\ credit'[x] = credit[x] =>
          Len(ordered'[x]) + Reserved(x)' <= OrderedCapacity
  BY ReservedCount
<1>4. ASSUME OrderedRoom(e), credit' = credit,
             NEW f \in OrderedFrames, ordered' = [ordered EXCEPT ![e] = Append(@, f)]
      PROVE  \A x \in Ends : Len(ordered'[x]) + Reserved(x)' <= OrderedCapacity
  <2>1. Len(ordered'[e]) = Len(ordered[e]) + 1 /\ Reserved(e)' = Reserved(e)
    BY <1>1, <1>4, ReservedCount
  <2>2. Len(ordered'[e]) + Reserved(e)' <= OrderedCapacity
    BY <1>2, <1>4, <2>1 DEF OrderedRoom
  <2>3. \A x \in Ends \ {e} : ordered'[x] = ordered[x] /\ credit'[x] = credit[x]
    BY <1>1, <1>4
  <2> QED  BY <1>3, <2>2, <2>3
<1>5. ASSUME NEW s \in Streams, Worker(e, s)
      PROVE  \A x \in Ends : Len(ordered'[x]) + Reserved(x)' <= OrderedCapacity
  <2>1. CASE OutboundLockGate(e, s)
    BY <1>3, <2>1 DEF OutboundLockGate, queues
  <2>2. CASE OutboundSend(e, s)
    <3>1. [type |-> "DATA", stream |-> s] \in OrderedFrames
          /\ [type |-> "CLOSE", stream |-> s] \in OrderedFrames
      BY DEF OrderedFrames, StreamFrames
    <3>2. PICK f \in OrderedFrames : ordered' = [ordered EXCEPT ![e] = Append(@, f)]
      BY <2>2, <3>1 DEF OutboundSend, Enqueue
    <3>3. OrderedRoom(e) /\ credit' = credit
      BY <2>2 DEF OutboundSend
    <3> QED  BY <1>4, <3>2, <3>3
  <2>3. CASE CreditReserve(e, s)
    <3>1. ordered' = ordered /\ credit' = [credit EXCEPT ![e][s] = "reserved"] /\ OrderedRoom(e)
      BY <2>3 DEF CreditReserve, queues
    <3>2. credit'[e] = [credit[e] EXCEPT ![s] = "reserved"]
          /\ \A x \in Ends \ {e} : credit'[x] = credit[x]
      BY <1>1, <3>1
    <3>3. Reserved(e)' <= Reserved(e) + 1
      BY <3>2, ReservedCount
    <3>4. Reserved(e)' \in Nat
      BY <1>1, FS_Subset, FS_CardinalityType DEF Reserved
    <3>5. Len(ordered'[e]) + Reserved(e)' <= OrderedCapacity
      BY <1>2, <3>1, <3>3, <3>4 DEF OrderedRoom
    <3> QED  BY <1>3, <3>1, <3>2, <3>5
  <2>4. CASE CreditSend(e, s)
    <3>1. /\ credit' = [credit EXCEPT ![e][s] = "end"] /\ credit[e][s] = "reserved"
          /\ \/ ordered' = ordered
             \/ Enqueue(e, [type |-> "WINDOW_UPDATE", stream |-> s])
      BY <2>4 DEF CreditSend
    <3>2. credit'[e] = [credit[e] EXCEPT ![s] = "end"]
          /\ \A x \in Ends \ {e} : credit'[x] = credit[x]
      BY <1>1, <3>1
    <3>3. Reserved(e)' + 1 = Reserved(e)
      BY <3>1, <3>2, ReservedCount
    <3>4. [type |-> "WINDOW_UPDATE", stream |-> s] \in OrderedFrames
      BY DEF OrderedFrames, StreamFrames
    <3>5. Len(ordered'[e]) <= Len(ordered[e]) + 1
          /\ \A x \in Ends \ {e} : ordered'[x] = ordered[x]
      BY <1>1, <1>2, <3>1, <3>4 DEF Enqueue
    <3>6. Reserved(e)' \in Nat
      BY <1>1, FS_Subset, FS_CardinalityType DEF Reserved
    <3>7. Len(ordered'[e]) + Reserved(e)' <= OrderedCapacity
      BY <1>2, <3>3, <3>5, <3>6
    <3> QED  BY <1>3, <3>2, <3>5, <3>7
  <2> QED  BY <1>5, <2>1, <2>2, <2>3, <2>4 DEF Worker
<1>6. CASE WriterSelect(e)
  <2>1. /\ credit' = credit
        /\ ordered' = ordered \/ (ordered[e] # <<>> /\ ordered' = [ordered EXCEPT ![e] = Tail(@)])
    BY <1>6 DEF WriterSelect, workerVars
  <2>2. Len(ordered'[e]) <= Len(ordered[e]) /\ \A x \in Ends \ {e} : ordered'[x] = ordered[x]
    BY <1>1, <1>2, <2>1
  <2>3. Reserved(e)' = Reserved(e)
    BY <2>1, ReservedCount
  <2>4. Len(ordered'[e]) + Reserved(e)' <= OrderedCapacity
    BY <1>2, <2>2, <2>3
  <2> QED  BY <1>3, <2>1, <2>2, <2>4
<1>7. CASE DriverSend(e)
  <2>1. IF driver[e].at = "close" THEN driver[e].stream \in Streams
                                  ELSE driver[e].type \in {"REQUEST", "REPLY"}
    BY <1>7, HandlerKinds DEF DriverSend, Types
  <2>2. (IF driver[e].at = "close" THEN [type |-> "CLOSE", stream |-> driver[e].stream]
                                   ELSE [type |-> driver[e].type]) \in OrderedFrames
    BY <2>1 DEF OrderedFrames, StreamFrames, Requests
  <2>3. PICK f \in OrderedFrames : ordered' = [ordered EXCEPT ![e] = Append(@, f)]
    BY <1>7, <2>2 DEF DriverSend, Enqueue
  <2>4. OrderedRoom(e) /\ credit' = credit
    BY <1>7 DEF DriverSend, workerVars
  <2> QED  BY <1>4, <2>3, <2>4
<1>8. CASE End(e)
  <2>1. ordered' = [ordered EXCEPT ![e] = <<>>]
        /\ credit' = [credit EXCEPT ![e] = [s \in Streams |-> "end"]]
    BY <1>8 DEF End
  <2>2. ordered'[e] = <<>> /\ credit'[e] = [s \in Streams |-> "end"]
        /\ \A x \in Ends \ {e} : ordered'[x] = ordered[x] /\ credit'[x] = credit[x]
    BY <1>1, <2>1
  <2>3. Reserved(e)' = 0 /\ Len(ordered'[e]) = 0
    BY <2>2, ReservedCount
  <2>4. Len(ordered'[e]) + Reserved(e)' <= OrderedCapacity
    BY <2>3
  <2> QED  BY <1>3, <2>2, <2>4
<1> QED
  BY <1>3, <1>5, <1>6, <1>7, <1>8, OrderedTouched

LEMMA ReaderBounded ==
  ASSUME Types, NEW e \in Ends, Step(e), \A x \in Ends : Len(reader[x]) <= ReaderCapacity
  PROVE  \A x \in Ends : Len(reader'[x]) <= ReaderCapacity
<1>1. reader \in [Ends -> Seq(Frames)] /\ Peer(e) \in Ends
  BY Facing DEF Types
<1>2. CASE WriterWrite(e)
  <2>1. writer[e] \in Frames
    BY <1>2 DEF WriterWrite, Types
  <2>2. /\ reader' = [reader EXCEPT ![Peer(e)] = Append(@, writer[e])]
        /\ Len(reader[Peer(e)]) < ReaderCapacity
    BY <1>2 DEF WriterWrite
  <2>3. Len(Append(reader[Peer(e)], writer[e])) = Len(reader[Peer(e)]) + 1
        /\ Len(reader[Peer(e)]) \in Nat
    BY <1>1, <2>1
  <2> QED  BY <1>1, <2>2, <2>3
<1>3. CASE HandleFrame(e)
  <2>1. reader[e] # <<>> /\ reader' = [reader EXCEPT ![e] = Tail(@)]
    BY <1>3 DEF HandleFrame
  <2>2. Len(Tail(reader[e])) = Len(reader[e]) - 1 /\ Len(reader[e]) \in Nat
    BY <1>1, <2>1
  <2> QED  BY <1>1, <2>1, <2>2
<1> QED
  BY <1>2, <1>3, ReaderTouched

-----------------------------------------------------------------------------
(***************************************************************************)
(* control_burst bounds what passes a waiting frame.                       *)
(***************************************************************************)
LEMMA AlwaysServed ==
  ASSUME Types, NEW e \in Ends, Step(e), \A x \in Ends : Served(x)
  PROVE  \A x \in Ends : Served(x)'
<1>1. burst \in [Ends -> Nat] /\ passed \in [Ends -> Nat] /\ Burst \in Nat
  BY DEF Types
<1>2. CASE UNCHANGED <<burst, passed>>
  BY <1>2 DEF Served
<1>3. CASE WriterSelect(e)
  <2>1. \/ /\ control[e] # <<>> /\ (burst[e] < Burst \/ ordered[e] = <<>>)
           /\ burst' = [burst EXCEPT ![e] = IF @ < Burst THEN @ + 1 ELSE @]
           /\ passed' = [passed EXCEPT ![e] = IF ordered[e] = <<>> THEN 0 ELSE @ + 1]
        \/ burst' = [burst EXCEPT ![e] = 0] /\ passed' = [passed EXCEPT ![e] = 0]
    BY <1>3 DEF WriterSelect, ControlFirst
  <2>2. passed'[e] <= burst'[e] /\ burst'[e] <= Burst
    BY <1>1, <2>1 DEF Served
  <2>3. \A x \in Ends \ {e} : passed'[x] = passed[x] /\ burst'[x] = burst[x]
    BY <1>1, <2>1
  <2> QED  BY <2>2, <2>3 DEF Served
<1>4. UNCHANGED <<burst, passed>> \/ WriterSelect(e)
  <2>1. \A s \in Streams : Worker(e, s) => UNCHANGED <<burst, passed>>
    BY WorkerTouches DEF writerVars
  <2>2. WriterWrite(e) \/ KeepaliveTick(e) \/ ClientCommand(e) => UNCHANGED <<burst, passed>>
    BY DEF WriterWrite, KeepaliveTick, ClientCommand, writerVars
  <2>3. SendControl(e) \/ HandleFrame(e) \/ DriverLockGate(e) \/ DriverSend(e)
          => UNCHANGED <<burst, passed>>
    BY DEF SendControl, HandleFrame, DriverLockGate, DriverSend, writerVars
  <2>4. End(e) => UNCHANGED <<burst, passed>>
    BY DEF End
  <2> QED  BY <2>1, <2>2, <2>3, <2>4, EndedEnds DEF Step, Driver
<1> QED
  BY <1>2, <1>3, <1>4

-----------------------------------------------------------------------------
(***************************************************************************)
(* Queues that lose or gain a frame.                                       *)
(***************************************************************************)
Fewer(after, before, t) ==
    /\ Holds(after, t) => Holds(before, t)
    /\ \A n \in Nat : Single(before, t, n) => Single(after, t, n)

LEMMA FewerSame == \A queue, t : Fewer(queue, queue, t)
  BY DEF Fewer

LEMMA FewerEmpty ==
  ASSUME NEW S, NEW queue \in Seq(S), NEW t PROVE Fewer(<<>>, queue, t)
  BY DEF Fewer, Holds, Single

LEMMA FewerTail ==
  ASSUME NEW S, NEW queue \in Seq(S), queue # <<>>, NEW t
  PROVE  Fewer(Tail(queue), queue, t)
<1>1. Len(Tail(queue)) = Len(queue) - 1 /\ Len(queue) \in Nat \ {0}
      /\ \A i \in 1 .. Len(queue) - 1 : Tail(queue)[i] = queue[i + 1]
  OBVIOUS
<1>2. Holds(Tail(queue), t) => Holds(queue, t)
  BY <1>1 DEF Holds
<1>3. ASSUME NEW n \in Nat, Single(queue, t, n) PROVE Single(Tail(queue), t, n)
  BY <1>1, <1>3 DEF Single
<1> QED
  BY <1>2, <1>3 DEF Fewer

LEMMA FewerAppend ==
  ASSUME NEW S, NEW queue \in Seq(S), NEW f \in S, NEW t, f.type # t
  PROVE  Fewer(Append(queue, f), queue, t)
<1>1. Len(Append(queue, f)) = Len(queue) + 1 /\ Len(queue) \in Nat
      /\ \A i \in 1 .. Len(queue) : Append(queue, f)[i] = queue[i]
      /\ Append(queue, f)[Len(queue) + 1] = f
  OBVIOUS
<1> DEFINE after == Append(queue, f)
<1> HIDE DEF after
<1>2. \A i \in 1 .. Len(after) : after[i].type = t => i \in 1 .. Len(queue) /\ after[i] = queue[i]
  BY <1>1 DEF after
<1>3. Holds(after, t) => Holds(queue, t)
  BY <1>2 DEF Holds
<1>4. ASSUME NEW n \in Nat, Single(queue, t, n) PROVE Single(after, t, n)
  BY <1>2, <1>4 DEF Single
<1> QED
  BY <1>3, <1>4 DEF Fewer, after

\* The only frame of its type leaves the queue.
LEMMA TakeOnly ==
  ASSUME NEW S, NEW queue \in Seq(S), queue # <<>>, NEW t, NEW n,
         Head(queue).type = t, Single(queue, t, n)
  PROVE  ~Holds(Tail(queue), t) /\ Head(queue).nonce = n /\ Holds(queue, t)
<1>1. Len(Tail(queue)) = Len(queue) - 1 /\ Len(queue) \in Nat \ {0} /\ Head(queue) = queue[1]
      /\ \A i \in 1 .. Len(queue) - 1 : Tail(queue)[i] = queue[i + 1]
  OBVIOUS
<1>2. 1 \in 1 .. Len(queue) /\ queue[1].type = t
  BY <1>1
<1>3. queue[1].nonce = n /\ \A j \in 1 .. Len(queue) : queue[j].type = t => j = 1
  BY <1>2 DEF Single
<1> QED
  BY <1>1, <1>2, <1>3 DEF Holds

\* The first frame of its type enters the queue.
LEMMA AddOnly ==
  ASSUME NEW S, NEW queue \in Seq(S), NEW f \in S, NEW t, NEW n,
         f.type = t, f.nonce = n, ~Holds(queue, t)
  PROVE  Single(Append(queue, f), t, n)
<1>1. Len(Append(queue, f)) = Len(queue) + 1 /\ Len(queue) \in Nat
      /\ \A i \in 1 .. Len(queue) : Append(queue, f)[i] = queue[i]
      /\ Append(queue, f)[Len(queue) + 1] = f
  OBVIOUS
<1> DEFINE after == Append(queue, f)
<1> HIDE DEF after
<1>2. \A i \in 1 .. Len(after) : after[i].type = t => i = Len(queue) + 1 /\ after[i] = f
  BY <1>1 DEF after, Holds
<1> QED
  BY <1>2 DEF Single, after

-----------------------------------------------------------------------------
(***************************************************************************)
(* How a heartbeat moves: what is not touched stays where it is, and a     *)
(* frame that leaves one place may enter another.                          *)
(***************************************************************************)
Shrinks(e, place) ==
    CASE place = "control" -> Fewer(control'[e], control[e], "PING")
      [] place = "writer" -> writer'[e].type = "PING" => writer'[e] = writer[e]
      [] place = "reader" -> Fewer(reader'[Peer(e)], reader[Peer(e)], "PING")
      [] place = "peer" -> driver'[Peer(e)].at = "pong" => driver'[Peer(e)] = driver[Peer(e)]
      [] place = "controlBack" -> Fewer(control'[Peer(e)], control[Peer(e)], "PONG")
      [] place = "writerBack" ->
            writer'[Peer(e)].type = "PONG" => writer'[Peer(e)] = writer[Peer(e)]
      [] place = "readerBack" -> Fewer(reader'[e], reader[e], "PONG")
      [] OTHER -> TRUE

LEMMA ShrinkKeeps ==
  ASSUME NEW e \in Ends, NEW place \in Places, Shrinks(e, place), ping[e] \in Nat
  PROVE  /\ Empty(e, place) => Empty(e, place)'
         /\ Matches(e, place) /\ ping'[e] = ping[e] => Matches(e, place)'
  BY DEF Places, Shrinks, Empty, Matches, Fewer

LEMMA EmptyMatches ==
  ASSUME NEW e \in Ends, NEW place \in Places
  PROVE  Empty(e, place)' => Matches(e, place)'
  BY DEF Places, Empty, Matches, Holds, Single

LEMMA Stays ==
  ASSUME NEW e \in Ends, OneHeartbeat(e), ping[e] \in Nat, ping'[e] = ping[e],
         \A place \in Places : Shrinks(e, place),
         driver'[e].at = "ping" => ping[e] = 0
  PROVE  OneHeartbeat(e)'
<1>1. PICK place \in Places :
         /\ \A other \in Places \ {place} : Empty(e, other)
         /\ place # "nowhere" => ping[e] # 0
  BY DEF OneHeartbeat
<1>2. \A other \in Places \ {place} : Empty(e, other)'
  BY <1>1, ShrinkKeeps
<1>3. \A other \in Places : Matches(e, other)'
  BY ShrinkKeeps DEF OneHeartbeat
<1> QED
  BY <1>1, <1>2, <1>3 DEF OneHeartbeat

LEMMA Moves ==
  ASSUME NEW e \in Ends, OneHeartbeat(e), ping[e] \in Nat, ping'[e] = ping[e],
         NEW from \in Places, NEW to \in Places,
         ~Empty(e, from), Empty(e, from)', Matches(e, to)',
         \A place \in Places \ {to} : Shrinks(e, place),
         driver'[e].at = "ping" => ping[e] = 0
  PROVE  OneHeartbeat(e)'
<1>1. \A other \in Places \ {from} : Empty(e, other)
  BY DEF OneHeartbeat
<1>2. from # "nowhere"
  BY DEF Empty
<1>3. ping[e] # 0
  BY <1>2 DEF OneHeartbeat
<1>4. \A other \in Places \ {to} : Empty(e, other)'
  BY <1>1, ShrinkKeeps
<1>5. \A other \in Places : Matches(e, other)'
  BY ShrinkKeeps DEF OneHeartbeat
<1> QED
  BY <1>3, <1>4, <1>5 DEF OneHeartbeat

\* A PING is sent when nothing of an earlier one is left.
LEMMA Starts ==
  ASSUME NEW e \in Ends, OneHeartbeat(e), ping[e] = 0, ping'[e] # 0,
         Matches(e, "control")',
         \A place \in Places \ {"control"} : Shrinks(e, place),
         driver'[e].at # "ping"
  PROVE  OneHeartbeat(e)'
<1>1. \A other \in Places \ {"control"} : Empty(e, other)
  <2>1. \A other \in Places : other # "nowhere" => Empty(e, other)
    BY DEF OneHeartbeat
  <2> QED  BY <2>1 DEF Empty
<1>2. \A other \in Places \ {"control"} : Empty(e, other)'
  BY <1>1, ShrinkKeeps
<1>3. \A other \in Places : Matches(e, other)'
  BY <1>2, EmptyMatches
<1>4. "control" \in Places
  BY DEF Places
<1> QED
  BY <1>2, <1>3, <1>4 DEF OneHeartbeat

\* Its PONG ends it.
LEMMA Finishes ==
  ASSUME NEW e \in Ends, OneHeartbeat(e), ping[e] \in Nat, ping'[e] = 0,
         NEW from \in Places, ~Empty(e, from), Empty(e, from)',
         \A place \in Places : Shrinks(e, place)
  PROVE  OneHeartbeat(e)'
<1>1. \A other \in Places \ {from} : Empty(e, other)
  BY DEF OneHeartbeat
<1>2. \A other \in Places : Empty(e, other)'
  BY <1>1, ShrinkKeeps
<1>3. \A other \in Places : Matches(e, other)'
  BY <1>2, EmptyMatches
<1>4. "nowhere" \in Places
  BY DEF Places
<1> QED
  BY <1>2, <1>3, <1>4 DEF OneHeartbeat

LEMMA AllShrink ==
  ASSUME \A x \in Ends : \A t \in {"PING", "PONG"} :
            Fewer(control'[x], control[x], t) /\ Fewer(reader'[x], reader[x], t),
         \A x \in Ends : writer'[x].type \in {"PING", "PONG"} => writer'[x] = writer[x],
         \A x \in Ends : driver'[x].at = "pong" => driver'[x] = driver[x]
  PROVE  \A x \in Ends : \A place \in Places : Shrinks(x, place)
  BY Facing DEF Places, Shrinks

\* No step but those of the keepalive touches a heartbeat.
LEMMA NotTouched ==
  ASSUME Types, NEW e \in Ends, \A x \in Ends : OneHeartbeat(x),
         UNCHANGED <<control, reader, writer, ping>>,
         \A x \in Ends : driver'[x].at \in {"ping", "pong"} => driver'[x] = driver[x]
  PROVE  \A x \in Ends : OneHeartbeat(x)'
<1>1. \A x \in Ends : \A place \in Places : Shrinks(x, place)
  BY FewerSame, AllShrink
<1>2. ping \in [Ends -> Nat]
  BY DEF Types
<1>3. \A x \in Ends : driver'[x].at = "ping" => ping[x] = 0
  BY DEF OneHeartbeat
<1> QED
  BY <1>1, <1>2, <1>3, Stays

LEMMA SelectMoves ==
  ASSUME Types, NEW e \in Ends, \A x \in Ends : OneHeartbeat(x), WriterSelect(e)
  PROVE  \A x \in Ends : OneHeartbeat(x)'
<1>1. /\ writer \in [Ends -> Frames \cup {None}] /\ control \in [Ends -> Seq(Heartbeats)]
      /\ ordered \in [Ends -> Seq(OrderedFrames)] /\ ping \in [Ends -> Nat]
  BY DEF Types
<1>2. /\ writer[e] = None /\ driver' = driver /\ ping' = ping /\ reader' = reader
      /\ \A x \in Ends : driver'[x].at = "ping" => ping[x] = 0
  BY DEF WriterSelect, driverVars, OneHeartbeat
<1>3. CASE /\ ordered[e] # <<>> /\ writer' = [writer EXCEPT ![e] = Head(ordered[e])]
           /\ control' = control
  <2>1. Head(ordered[e]) \in OrderedFrames
    BY <1>1, <1>3
  <2>2. \A x \in Ends : writer'[x].type \in {"PING", "PONG"} => writer'[x] = writer[x]
    BY <1>1, <1>3, <2>1, OrderedKinds
  <2>3. \A x \in Ends : \A place \in Places : Shrinks(x, place)
    BY <1>2, <1>3, <2>2, FewerSame, AllShrink
  <2> QED  BY <1>1, <1>2, <2>3, Stays
<1>4. CASE /\ control[e] # <<>> /\ writer' = [writer EXCEPT ![e] = Head(control[e])]
           /\ control' = [control EXCEPT ![e] = Tail(@)]
  <2> DEFINE f == Head(control[e])
             p == Peer(e)
  <2>1. f \in Heartbeats /\ f.type \in {"PING", "PONG"}
    BY <1>1, <1>4, HeartbeatKinds
  <2>2. writer'[e] = f /\ control'[e] = Tail(control[e])
        /\ writer'[p] = writer[p] /\ control'[p] = control[p]
    BY <1>1, <1>4, Facing
  <2>3. \A t \in {"PING", "PONG"} :
           /\ Fewer(control'[e], control[e], t) /\ Fewer(control'[p], control[p], t)
           /\ Fewer(reader'[e], reader[e], t) /\ Fewer(reader'[p], reader[p], t)
    BY <1>1, <1>2, <1>4, <2>2, FewerSame, FewerTail
  <2>4. p \in Ends /\ Peer(p) = e /\ Ends = {e, p}
    BY Facing
  <2>5. writer'[e].type # "PONG" \/ writer'[e].type # "PING"
    BY <2>1, <2>2
  <2>6. Single(control[e], "PING", ping[e]) /\ Single(control[e], "PONG", ping[p])
    BY <2>4 DEF OneHeartbeat, Places, Matches
  <2> HIDE DEF p, f
  <2>7. CASE f.type = "PING"
    <3>1. ~Holds(Tail(control[e]), "PING") /\ f.nonce = ping[e] /\ Holds(control[e], "PING")
      BY <1>1, <1>4, <2>6, <2>7, TakeOnly DEF f
    <3>2. ~Empty(e, "control") /\ Empty(e, "control")' /\ Matches(e, "writer")'
      BY <1>2, <2>2, <2>7, <3>1 DEF Empty, Matches
    <3>3. \A place \in Places \ {"writer"} : Shrinks(e, place)
      BY <1>2, <2>2, <2>3, <2>4 DEF Places, Shrinks, p
    <3>4. \A place \in Places : Shrinks(p, place)
      BY <1>2, <2>2, <2>3, <2>4, <2>7 DEF Places, Shrinks
    <3>5. OneHeartbeat(e)'
      BY <1>1, <1>2, <3>2, <3>3, Moves DEF Places
    <3>6. OneHeartbeat(p)'
      BY <1>1, <1>2, <2>4, <3>4, Stays
    <3> QED  BY <2>4, <3>5, <3>6
  <2>8. CASE f.type = "PONG"
    <3>1. ~Holds(Tail(control[e]), "PONG") /\ f.nonce = ping[p] /\ Holds(control[e], "PONG")
      BY <1>1, <1>4, <2>6, <2>8, TakeOnly DEF f
    <3>2. ~Empty(p, "controlBack") /\ Empty(p, "controlBack")' /\ Matches(p, "writerBack")'
      BY <1>2, <2>2, <2>4, <2>8, <3>1 DEF Empty, Matches
    <3>3. \A place \in Places \ {"writerBack"} : Shrinks(p, place)
      BY <1>2, <2>2, <2>3, <2>4 DEF Places, Shrinks
    <3>4. \A place \in Places : Shrinks(e, place)
      BY <1>2, <2>2, <2>3, <2>4, <2>8 DEF Places, Shrinks, p
    <3>5. OneHeartbeat(p)'
      BY <1>1, <1>2, <2>4, <3>2, <3>3, Moves DEF Places
    <3>6. OneHeartbeat(e)'
      BY <1>1, <1>2, <3>4, Stays
    <3> QED  BY <2>4, <3>5, <3>6
  <2> QED  BY <2>1, <2>7, <2>8
<1> QED
  BY <1>3, <1>4 DEF WriterSelect, ControlFirst

LEMMA WriteMoves ==
  ASSUME Types, NEW e \in Ends, \A x \in Ends : OneHeartbeat(x), WriterWrite(e)
  PROVE  \A x \in Ends : OneHeartbeat(x)'
<1> DEFINE f == writer[e]
           p == Peer(e)
<1>1. /\ writer \in [Ends -> Frames \cup {None}] /\ reader \in [Ends -> Seq(Frames)]
      /\ ping \in [Ends -> Nat]
  BY DEF Types
<1>2. /\ driver' = driver /\ ping' = ping /\ control' = control
      /\ \A x \in Ends : driver'[x].at = "ping" => ping[x] = 0
  BY DEF WriterWrite, driverVars, OneHeartbeat
<1>3. p \in Ends /\ Peer(p) = e /\ Ends = {e, p} /\ e # p
  BY Facing
<1>4. f \in Frames
  BY <1>1 DEF WriterWrite
<1>5. /\ writer'[e] = None /\ reader'[p] = Append(reader[p], f)
      /\ writer'[p] = writer[p] /\ reader'[e] = reader[e]
  BY <1>1, <1>3 DEF WriterWrite
<1>6. \A t \in {"PING", "PONG"} :
         /\ Fewer(control'[e], control[e], t) /\ Fewer(control'[p], control[p], t)
         /\ Fewer(reader'[e], reader[e], t)
         /\ f.type # t => Fewer(reader'[p], reader[p], t)
  <2>1. \A t \in {"PING", "PONG"} : f.type # t => Fewer(Append(reader[p], f), reader[p], t)
    BY <1>1, <1>3, <1>4, FewerAppend
  <2> QED  BY <1>2, <1>5, <2>1, FewerSame
<1>7. /\ f.type = "PING" => f.nonce = ping[e] /\ ~Holds(reader[p], "PING")
      /\ f.type = "PONG" => f.nonce = ping[p] /\ ~Holds(reader[p], "PONG")
  <2>1. f.type = "PING" => f.nonce = ping[e]
    BY DEF OneHeartbeat, Places, Matches
  <2>2. f.type = "PONG" => f.nonce = ping[p]
    BY <1>3 DEF OneHeartbeat, Places, Matches
  <2>3. f.type = "PING" => Empty(e, "reader")
    BY DEF OneHeartbeat, Places, Empty
  <2>4. f.type = "PONG" => Empty(p, "readerBack")
    BY <1>3 DEF OneHeartbeat, Places, Empty
  <2> QED  BY <2>1, <2>2, <2>3, <2>4 DEF Empty
<1> HIDE DEF p, f
<1>8. None.type = "none"
  BY Nothing
<1>9. ASSUME f.type # "PING" PROVE OneHeartbeat(e)'
  <2>1. \A place \in Places : Shrinks(e, place)
    BY <1>2, <1>3, <1>5, <1>6, <1>8, <1>9 DEF Places, Shrinks, p
  <2> QED  BY <1>1, <1>2, <2>1, Stays
<1>10. ASSUME f.type # "PONG" PROVE OneHeartbeat(p)'
  <2>1. \A place \in Places : Shrinks(p, place)
    BY <1>2, <1>3, <1>5, <1>6, <1>8, <1>10 DEF Places, Shrinks
  <2> QED  BY <1>1, <1>2, <1>3, <2>1, Stays
<1>11. ASSUME f.type = "PING" PROVE OneHeartbeat(e)'
  <2>1. Single(reader'[p], "PING", ping[e])
    BY <1>1, <1>3, <1>4, <1>5, <1>7, <1>11, AddOnly
  <2>2. ~Empty(e, "writer") /\ Empty(e, "writer")' /\ Matches(e, "reader")'
    BY <1>2, <1>5, <1>8, <1>11, <2>1 DEF Empty, Matches, p, f
  <2>3. \A place \in Places \ {"reader"} : Shrinks(e, place)
    BY <1>2, <1>3, <1>5, <1>6, <1>8, <1>11 DEF Places, Shrinks, p
  <2> QED  BY <1>1, <1>2, <2>2, <2>3, Moves DEF Places
<1>12. ASSUME f.type = "PONG" PROVE OneHeartbeat(p)'
  <2>1. Single(reader'[p], "PONG", ping[p])
    BY <1>1, <1>3, <1>4, <1>5, <1>7, <1>12, AddOnly
  <2>2. ~Empty(p, "writerBack") /\ Empty(p, "writerBack")' /\ Matches(p, "readerBack")'
    BY <1>2, <1>3, <1>5, <1>8, <1>12, <2>1 DEF Empty, Matches, f
  <2>3. \A place \in Places \ {"readerBack"} : Shrinks(p, place)
    BY <1>2, <1>3, <1>5, <1>6, <1>8, <1>12 DEF Places, Shrinks
  <2> QED  BY <1>1, <1>2, <1>3, <2>2, <2>3, Moves DEF Places
<1> QED
  BY <1>3, <1>9, <1>10, <1>11, <1>12

LEMMA TickMoves ==
  ASSUME Types, NEW e \in Ends, \A x \in Ends : OneHeartbeat(x), KeepaliveTick(e)
  PROVE  \A x \in Ends : OneHeartbeat(x)'
<1>1. driver \in [Ends -> Handlers] /\ ping \in [Ends -> Nat]
  BY DEF Types
<1>2. /\ UNCHANGED <<control, reader, writer, ping>> /\ ping[e] = 0
      /\ driver' = [driver EXCEPT ![e] = [at |-> "ping", nonce |-> pings[e] + 1]]
  BY DEF KeepaliveTick, queues, writerVars
<1>3. /\ \A x \in Ends \ {e} : driver'[x] = driver[x]
      /\ driver'[e].at = "ping"
  BY <1>1, <1>2
<1>4. \A x \in Ends : \A place \in Places : Shrinks(x, place)
  BY <1>2, <1>3, FewerSame, AllShrink
<1>5. \A x \in Ends : driver'[x].at = "ping" => ping[x] = 0
  BY <1>2, <1>3 DEF OneHeartbeat
<1> QED
  BY <1>1, <1>2, <1>4, <1>5, Stays

LEMMA ControlMoves ==
  ASSUME Types, NEW e \in Ends, \A x \in Ends : OneHeartbeat(x), SendControl(e)
  PROVE  \A x \in Ends : OneHeartbeat(x)'
<1> DEFINE p == Peer(e)
           t == IF driver[e].at = "ping" THEN "PING" ELSE "PONG"
           f == [type |-> t, nonce |-> driver[e].nonce]
<1>1. /\ control \in [Ends -> Seq(Heartbeats)] /\ driver \in [Ends -> Handlers]
      /\ ping \in [Ends -> Nat]
  BY DEF Types
<1>2. p \in Ends /\ Peer(p) = e /\ Ends = {e, p} /\ e # p
  BY Facing
<1>3. driver[e].nonce \in Nat \ {0} /\ driver[e].at \in {"ping", "pong"}
  BY <1>1, HandlerKinds DEF SendControl
<1>4. f \in Heartbeats
  BY <1>3 DEF Heartbeats
<1>5. /\ control'[e] = Append(control[e], f) /\ control'[p] = control[p]
      /\ driver'[e] = Idle /\ driver'[p] = driver[p]
      /\ reader' = reader /\ writer' = writer /\ ping'[p] = ping[p]
      /\ ping'[e] = IF driver[e].at = "ping" THEN driver[e].nonce ELSE ping[e]
  BY <1>1, <1>2 DEF SendControl, writerVars
<1>6. \A k \in {"PING", "PONG"} :
         /\ t # k => Fewer(control'[e], control[e], k)
         /\ Fewer(control'[p], control[p], k)
         /\ Fewer(reader'[e], reader[e], k) /\ Fewer(reader'[p], reader[p], k)
  <2>1. \A k \in {"PING", "PONG"} : t # k => Fewer(Append(control[e], f), control[e], k)
    BY <1>1, <1>4, FewerAppend
  <2> QED  BY <1>5, <2>1, FewerSame
<1>7. Idle.at = "idle" /\ (driver'[p].at = "ping" => ping[p] = 0)
  BY <1>2, <1>5, Nothing DEF OneHeartbeat
<1>8. /\ driver[e].at = "ping" => ping[e] = 0 /\ ~Holds(control[e], "PING")
      /\ driver[e].at = "pong" => driver[e].nonce = ping[p] /\ ~Holds(control[e], "PONG")
  <2>1. driver[e].at = "ping" => ping[e] = 0 /\ Empty(e, "control")
    BY DEF OneHeartbeat, Places
  <2>2. driver[e].at = "pong" => driver[e].nonce = ping[p]
    BY <1>2 DEF OneHeartbeat, Places, Matches
  <2>3. driver[e].at = "pong" => Empty(p, "controlBack")
    BY <1>2 DEF OneHeartbeat, Places, Empty
  <2> QED  BY <1>2, <2>1, <2>2, <2>3 DEF Empty
<1> HIDE DEF p, f
<1>9. f.type = t /\ f.nonce = driver[e].nonce
  BY DEF f
<1>10. CASE driver[e].at = "ping"
  <2>1. Single(control'[e], "PING", ping'[e])
    BY <1>1, <1>4, <1>5, <1>8, <1>9, <1>10, AddOnly
  <2>2. Matches(e, "control")' /\ ping'[e] # 0
    BY <1>3, <1>5, <1>10, <2>1 DEF Matches
  <2>3. \A place \in Places \ {"control"} : Shrinks(e, place)
    BY <1>2, <1>5, <1>6, <1>10 DEF Places, Shrinks, p
  <2>4. \A place \in Places : Shrinks(p, place)
    BY <1>2, <1>5, <1>6, <1>7, <1>10 DEF Places, Shrinks
  <2>5. OneHeartbeat(e)'
    BY <1>5, <1>7, <1>8, <1>10, <2>2, <2>3, Starts
  <2>6. OneHeartbeat(p)'
    BY <1>1, <1>2, <1>5, <1>7, <2>4, Stays
  <2> QED  BY <1>2, <2>5, <2>6
<1>11. CASE driver[e].at = "pong"
  <2>1. Single(control'[e], "PONG", ping[p])
    BY <1>1, <1>4, <1>5, <1>8, <1>9, <1>11, AddOnly
  <2>2. ~Empty(p, "peer") /\ Empty(p, "peer")' /\ Matches(p, "controlBack")'
    BY <1>2, <1>5, <1>7, <1>11, <2>1 DEF Empty, Matches
  <2>3. \A place \in Places \ {"controlBack"} : Shrinks(p, place)
    BY <1>2, <1>5, <1>6, <1>7, <1>11 DEF Places, Shrinks
  <2>4. \A place \in Places : Shrinks(e, place)
    BY <1>2, <1>5, <1>6, <1>11 DEF Places, Shrinks, p
  <2>5. OneHeartbeat(p)'
    BY <1>1, <1>2, <1>5, <1>7, <2>2, <2>3, Moves DEF Places
  <2>6. OneHeartbeat(e)'
    BY <1>1, <1>5, <1>7, <1>11, <2>4, Stays
  <2> QED  BY <1>2, <2>5, <2>6
<1> QED
  BY <1>3, <1>10, <1>11

LEMMA HandleMoves ==
  ASSUME Types, NEW e \in Ends, \A x \in Ends : OneHeartbeat(x), HandleFrame(e), PongExpected
  PROVE  (\A x \in Ends : OneHeartbeat(x)') /\ PongExpected'
<1> DEFINE p == Peer(e)
           f == Head(reader[e])
<1>1. /\ reader \in [Ends -> Seq(Frames)] /\ driver \in [Ends -> Handlers]
      /\ ping \in [Ends -> Nat] /\ session \in [Ends -> {"up", "badPong", "ended"}]
  BY DEF Types
<1>2. p \in Ends /\ Peer(p) = e /\ Ends = {e, p} /\ e # p
  BY Facing
<1>3. /\ reader[e] # <<>> /\ f \in Frames /\ driver[e] = Idle
      /\ reader'[e] = Tail(reader[e]) /\ reader'[p] = reader[p]
      /\ control' = control /\ writer' = writer
  BY <1>1, <1>2 DEF HandleFrame, DriverFree, writerVars
<1>4. \A t \in {"PING", "PONG"} :
         /\ Fewer(control'[e], control[e], t) /\ Fewer(control'[p], control[p], t)
         /\ Fewer(reader'[e], reader[e], t) /\ Fewer(reader'[p], reader[p], t)
  BY <1>1, <1>3, FewerTail, FewerSame
<1>5. /\ f.type = "PONG" => f.nonce = ping[e] /\ ~Holds(Tail(reader[e]), "PONG")
                            /\ Holds(reader[e], "PONG")
      /\ f.type = "PING" => f.nonce = ping[p] /\ ~Holds(Tail(reader[e]), "PING")
                            /\ Holds(reader[e], "PING")
  <2>1. Single(reader[e], "PONG", ping[e]) /\ Single(reader[e], "PING", ping[p])
    BY <1>2 DEF OneHeartbeat, Places, Matches
  <2> QED  BY <1>1, <1>3, <2>1, TakeOnly
<1>6. \A x \in Ends : driver[x].at = "ping" => ping[x] = 0
  BY DEF OneHeartbeat
<1>7. \/ /\ UNCHANGED <<session, ping>> /\ driver'[p] = driver[p]
         /\ driver'[e].at \notin {"ping", "pong"}
      \/ /\ f.type = "PING" /\ UNCHANGED <<session, ping>> /\ driver'[p] = driver[p]
         /\ driver'[e] = [at |-> "pong", nonce |-> f.nonce]
      \/ /\ f.type = "PONG" /\ driver' = driver
         /\ IF ping[e] = f.nonce THEN ping' = [ping EXCEPT ![e] = 0] /\ UNCHANGED session
                                 ELSE session' = [session EXCEPT ![e] = "badPong"]
  <2> HIDE DEF f, p
  <2>1. \/ UNCHANGED <<session, driver, ping>>
        \/ /\ driver' = [driver EXCEPT ![e] = [at |-> "gate", stream |-> f.stream]]
           /\ UNCHANGED <<session, ping>>
        \/ /\ driver' = [driver EXCEPT ![e] = [at |-> "send", type |-> "REPLY"]]
           /\ UNCHANGED <<session, ping>>
        \/ /\ f.type = "PING" /\ UNCHANGED <<session, ping>>
           /\ driver' = [driver EXCEPT ![e] = [at |-> "pong", nonce |-> f.nonce]]
        \/ /\ f.type = "PONG" /\ driver' = driver
           /\ IF ping[e] = f.nonce THEN ping' = [ping EXCEPT ![e] = 0] /\ UNCHANGED session
                                   ELSE session' = [session EXCEPT ![e] = "badPong"]
    BY DEF HandleFrame, f
  <2> QED  BY <1>1, <1>2, <1>3, <2>1, Nothing
<1> HIDE DEF f, p
<1>8. CASE /\ UNCHANGED <<session, ping>> /\ driver'[p] = driver[p]
           /\ driver'[e].at \notin {"ping", "pong"}
  <2>1. \A x \in Ends : \A place \in Places : Shrinks(x, place)
    BY <1>2, <1>3, <1>4, <1>8, AllShrink
  <2>2. \A x \in Ends : driver'[x].at = "ping" => ping[x] = 0
    BY <1>2, <1>6, <1>8
  <2> QED  BY <1>1, <1>8, <2>1, <2>2, Stays DEF PongExpected
<1>9. CASE /\ f.type = "PING" /\ UNCHANGED <<session, ping>> /\ driver'[p] = driver[p]
           /\ driver'[e] = [at |-> "pong", nonce |-> f.nonce]
  <2>1. ~Empty(p, "reader") /\ Empty(p, "reader")' /\ Matches(p, "peer")'
    BY <1>2, <1>3, <1>5, <1>9 DEF Empty, Matches
  <2>2. \A place \in Places \ {"peer"} : Shrinks(p, place)
    BY <1>2, <1>3, <1>4, <1>9 DEF Places, Shrinks
  <2>3. \A place \in Places : Shrinks(e, place)
    BY <1>2, <1>3, <1>4, <1>9 DEF Places, Shrinks, p
  <2>4. \A x \in Ends : driver'[x].at = "ping" => ping[x] = 0
    BY <1>2, <1>6, <1>9
  <2>5. OneHeartbeat(p)'
    BY <1>1, <1>2, <1>9, <2>1, <2>2, <2>4, Moves DEF Places
  <2>6. OneHeartbeat(e)'
    BY <1>1, <1>9, <2>3, <2>4, Stays
  <2> QED  BY <1>2, <1>9, <2>5, <2>6 DEF PongExpected
<1>10. CASE /\ f.type = "PONG" /\ driver' = driver
            /\ IF ping[e] = f.nonce THEN ping' = [ping EXCEPT ![e] = 0] /\ UNCHANGED session
                                    ELSE session' = [session EXCEPT ![e] = "badPong"]
  <2>1. ping' = [ping EXCEPT ![e] = 0] /\ UNCHANGED session
    BY <1>5, <1>10
  <2>2. ~Empty(e, "readerBack") /\ Empty(e, "readerBack")'
    BY <1>3, <1>5, <1>10 DEF Empty
  <2>3. \A x \in Ends : \A place \in Places : Shrinks(x, place)
    BY <1>2, <1>3, <1>4, <1>10, AllShrink
  <2>4. OneHeartbeat(e)'
    BY <1>1, <2>1, <2>2, <2>3, Finishes DEF Places
  <2>5. OneHeartbeat(p)'
    BY <1>1, <1>2, <1>6, <1>10, <2>1, <2>3, Stays
  <2> QED  BY <1>2, <2>1, <2>4, <2>5 DEF PongExpected
<1> QED
  BY <1>7, <1>8, <1>9, <1>10

LEMMA EndMoves ==
  ASSUME Types, NEW e \in Ends, \A x \in Ends : OneHeartbeat(x), End(e)
  PROVE  \A x \in Ends : OneHeartbeat(x)'
<1>1. /\ control \in [Ends -> Seq(Heartbeats)] /\ driver \in [Ends -> Handlers]
      /\ writer \in [Ends -> Frames \cup {None}] /\ ping \in [Ends -> Nat]
  BY DEF Types
<1>2. /\ control' = [control EXCEPT ![e] = <<>>] /\ reader' = reader /\ ping' = ping
      /\ writer' = [writer EXCEPT ![e] = None] /\ driver' = [driver EXCEPT ![e] = Idle]
  BY DEF End
<1>3. \A x \in Ends : \A t \in {"PING", "PONG"} :
         Fewer(control'[x], control[x], t) /\ Fewer(reader'[x], reader[x], t)
  <2>1. \A t \in {"PING", "PONG"} : Fewer(<<>>, control[e], t)
    BY <1>1, FewerEmpty
  <2> QED  BY <1>1, <1>2, <2>1, FewerSame
<1>4. /\ \A x \in Ends : writer'[x].type \in {"PING", "PONG"} => writer'[x] = writer[x]
      /\ \A x \in Ends : driver'[x].at \in {"ping", "pong"} => driver'[x] = driver[x]
  BY <1>1, <1>2, Nothing
<1>5. \A x \in Ends : \A place \in Places : Shrinks(x, place)
  BY <1>3, <1>4, AllShrink
<1>6. \A x \in Ends : driver'[x].at = "ping" => ping[x] = 0
  BY <1>4 DEF OneHeartbeat
<1> QED
  BY <1>1, <1>2, <1>5, <1>6, Stays

\* The other handlers wait for room or for a gate.
LEMMA HandlersMove ==
  ASSUME Types, NEW e \in Ends, \A x \in Ends : OneHeartbeat(x),
         ClientCommand(e) \/ DriverLockGate(e) \/ DriverSend(e)
  PROVE  \A x \in Ends : OneHeartbeat(x)'
<1>1. driver \in [Ends -> Handlers]
  BY DEF Types
<1>2. UNCHANGED <<control, reader, writer, ping>>
  BY DEF ClientCommand, DriverLockGate, DriverSend, queues, writerVars
<1>3. \/ driver' = [driver EXCEPT ![e] = [at |-> "send", type |-> "REQUEST"]]
      \/ driver' = [driver EXCEPT ![e] = Idle]
      \/ driver' = [driver EXCEPT ![e] = [at |-> "close", stream |-> driver[e].stream]]
  BY DEF ClientCommand, DriverLockGate, DriverSend
<1>4. \A x \in Ends : driver'[x].at \in {"ping", "pong"} => driver'[x] = driver[x]
  BY <1>1, <1>3, Nothing
<1> QED
  BY <1>2, <1>4, NotTouched

-----------------------------------------------------------------------------
(***************************************************************************)
(* The nonce of a PING is one that the bound allows.                       *)
(***************************************************************************)
PingBounded(e) ==
    ping[e] <= MaxPings[e] /\ (driver[e].at = "ping" => driver[e].nonce <= MaxPings[e])

LEMMA PingsBounded ==
  ASSUME Types, NEW e \in Ends, Step(e), \A x \in Ends : PingBounded(x)
  PROVE  \A x \in Ends : PingBounded(x)'
<1>1. /\ driver \in [Ends -> Handlers] /\ ping \in [Ends -> Nat] /\ pings \in [Ends -> Nat]
      /\ \A x \in Ends : MaxPings[x] \in Nat
  BY DEF Types
<1>2. ASSUME UNCHANGED ping, \A x \in Ends : driver'[x].at = "ping" => driver'[x] = driver[x]
      PROVE  \A x \in Ends : PingBounded(x)'
  BY <1>2 DEF PingBounded
<1>3. CASE KeepaliveTick(e)
  <2>1. /\ driver' = [driver EXCEPT ![e] = [at |-> "ping", nonce |-> pings[e] + 1]]
        /\ ping' = ping /\ pings[e] < MaxPings[e]
    BY <1>3 DEF KeepaliveTick
  <2>2. driver'[e].nonce = pings[e] + 1 /\ \A x \in Ends \ {e} : driver'[x] = driver[x]
    BY <1>1, <2>1
  <2>3. pings[e] + 1 <= MaxPings[e]
    BY <1>1, <2>1
  <2> QED  BY <2>1, <2>2, <2>3 DEF PingBounded
<1>4. CASE SendControl(e)
  <2>1. /\ ping' = [ping EXCEPT ![e] = IF driver[e].at = "ping" THEN driver[e].nonce ELSE @]
        /\ driver' = [driver EXCEPT ![e] = Idle]
    BY <1>4 DEF SendControl
  <2>2. driver'[e] = Idle /\ \A x \in Ends \ {e} : driver'[x] = driver[x] /\ ping'[x] = ping[x]
    BY <1>1, <2>1
  <2>3. ping'[e] <= MaxPings[e]
    BY <1>1, <2>1 DEF PingBounded
  <2> QED  BY <2>2, <2>3, Nothing DEF PingBounded
<1>5. CASE HandleFrame(e)
  <2> DEFINE f == Head(reader[e])
  <2>1. \/ UNCHANGED <<driver, ping>>
        \/ /\ \/ driver' = [driver EXCEPT ![e] = [at |-> "gate", stream |-> f.stream]]
              \/ driver' = [driver EXCEPT ![e] = [at |-> "send", type |-> "REPLY"]]
              \/ driver' = [driver EXCEPT ![e] = [at |-> "pong", nonce |-> f.nonce]]
           /\ UNCHANGED ping
        \/ driver' = driver /\ ping' = [ping EXCEPT ![e] = 0]
    BY <1>5 DEF HandleFrame
  <2> HIDE DEF f
  <2>2. CASE UNCHANGED ping
    <3>1. \A x \in Ends : driver'[x].at = "ping" => driver'[x] = driver[x]
      BY <1>1, <2>1
    <3> QED  BY <1>2, <2>2, <3>1
  <2>3. CASE driver' = driver /\ ping' = [ping EXCEPT ![e] = 0]
    BY <1>1, <2>3 DEF PingBounded
  <2> QED  BY <2>1, <2>2, <2>3
<1>6. CASE ClientCommand(e) \/ DriverLockGate(e) \/ DriverSend(e)
  <2>1. \/ driver' = [driver EXCEPT ![e] = [at |-> "send", type |-> "REQUEST"]]
        \/ driver' = [driver EXCEPT ![e] = Idle]
        \/ driver' = [driver EXCEPT ![e] = [at |-> "close", stream |-> driver[e].stream]]
    BY <1>6 DEF ClientCommand, DriverLockGate, DriverSend
  <2>2. ping' = ping
    BY <1>6 DEF ClientCommand, DriverLockGate, DriverSend
  <2>3. \A x \in Ends : driver'[x].at = "ping" => driver'[x] = driver[x]
    BY <1>1, <2>1, Nothing
  <2> QED  BY <1>2, <2>2, <2>3
<1>7. CASE End(e)
  <2>1. driver' = [driver EXCEPT ![e] = Idle] /\ ping' = ping
    BY <1>7 DEF End
  <2>2. \A x \in Ends : driver'[x].at = "ping" => driver'[x] = driver[x]
    BY <1>1, <2>1, Nothing
  <2> QED  BY <1>2, <2>1, <2>2
<1>8. \A s \in Streams : Worker(e, s) => UNCHANGED <<driver, ping>>
  BY WorkerTouches DEF driverVars
<1>9. WriterSelect(e) \/ WriterWrite(e) => UNCHANGED <<driver, ping>>
  BY DEF WriterSelect, WriterWrite, driverVars
<1> QED
  BY <1>2, <1>3, <1>4, <1>5, <1>6, <1>7, <1>8, <1>9, EndedEnds DEF Step, Driver

-----------------------------------------------------------------------------
LEMMA BoundedParts ==
  \A e \in Ends : Bounded(e) <=>
      /\ Len(control[e]) <= ControlCapacity
      /\ Len(ordered[e]) + Reserved(e) <= OrderedCapacity
      /\ Len(reader[e]) <= ReaderCapacity
      /\ PingBounded(e)
  BY DEF Bounded, PingBounded

LEMMA TransportInit == Init => TransportInv
<1> SUFFICES ASSUME Init PROVE TransportInv
  OBVIOUS
<1>1. Types
  BY Nothing DEF Init, Types
<1>2. \A e \in Ends : Bounded(e)
  <2> SUFFICES ASSUME NEW e \in Ends PROVE Bounded(e)
    OBVIOUS
  <2>1. {s \in Streams : credit[e][s] = "reserved"} = {}
    BY DEF Init
  <2>2. Reserved(e) = 0
    BY <2>1, FS_EmptySet DEF Reserved
  <2> QED  BY <2>2, Nothing DEF Init, Bounded
<1>3. \A e \in Ends : Served(e)
  BY DEF Init, Served
<1>4. \A e \in Ends : OneHeartbeat(e)
  <2> SUFFICES ASSUME NEW e \in Ends PROVE OneHeartbeat(e)
    OBVIOUS
  <2>1. \A x \in Ends : control[x] = <<>> /\ reader[x] = <<>> /\ writer[x] = None
                        /\ driver[x] = Idle
    BY DEF Init
  <2>2. \A t, n : ~Holds(<<>>, t) /\ Single(<<>>, t, n)
    BY DEF Holds, Single
  <2>3. \A place \in Places : Empty(e, place) /\ Matches(e, place)
    BY <2>1, <2>2, Facing, Nothing DEF Places, Empty, Matches
  <2>4. "nowhere" \in Places
    BY DEF Places
  <2> QED  BY <2>1, <2>3, <2>4, Nothing DEF OneHeartbeat
<1>5. PongExpected
  BY DEF Init, PongExpected
<1> QED
  BY <1>1, <1>2, <1>3, <1>4, <1>5 DEF TransportInv

LEMMA TransportStep ==
  ASSUME TransportInv, NEW e \in Ends, Step(e)
  PROVE  TransportInv'
<1>1. Types /\ PongExpected /\ \A x \in Ends : Bounded(x) /\ Served(x) /\ OneHeartbeat(x)
  BY DEF TransportInv
<1>2. Types'
  BY <1>1, StepTypes
<1>3. \A x \in Ends : Bounded(x)'
  <2>1. \A x \in Ends : Len(control'[x]) <= ControlCapacity
    BY <1>1, BoundedParts, ControlBounded
  <2>2. \A x \in Ends : Len(ordered'[x]) + Reserved(x)' <= OrderedCapacity
    BY <1>1, BoundedParts, OrderedBounded
  <2>3. \A x \in Ends : Len(reader'[x]) <= ReaderCapacity
    BY <1>1, BoundedParts, ReaderBounded
  <2>4. \A x \in Ends : PingBounded(x)'
    BY <1>1, BoundedParts, PingsBounded
  <2> QED  BY <2>1, <2>2, <2>3, <2>4 DEF Bounded, PingBounded
<1>4. \A x \in Ends : Served(x)'
  BY <1>1, AlwaysServed
<1>5. (\A x \in Ends : OneHeartbeat(x)') /\ PongExpected'
  <2>1. ASSUME NEW s \in Streams, Worker(e, s)
        PROVE  (\A x \in Ends : OneHeartbeat(x)') /\ PongExpected'
    <3>1. UNCHANGED <<session, control, reader, writer, driver, ping>>
      BY <2>1, WorkerTouches DEF writerVars, driverVars
    <3> QED  BY <1>1, <3>1, NotTouched DEF PongExpected
  <2>2. CASE WriterSelect(e)
    BY <1>1, <2>2, SelectMoves DEF WriterSelect, PongExpected
  <2>3. CASE WriterWrite(e)
    BY <1>1, <2>3, WriteMoves DEF WriterWrite, PongExpected
  <2>4. CASE KeepaliveTick(e)
    BY <1>1, <2>4, TickMoves DEF KeepaliveTick, PongExpected
  <2>5. CASE SendControl(e)
    BY <1>1, <2>5, ControlMoves DEF SendControl, PongExpected
  <2>6. CASE HandleFrame(e)
    BY <1>1, <2>6, HandleMoves
  <2>7. CASE ClientCommand(e) \/ DriverLockGate(e) \/ DriverSend(e)
    <3>1. UNCHANGED session
      BY <2>7 DEF ClientCommand, DriverLockGate, DriverSend
    <3> QED  BY <1>1, <2>7, <3>1, HandlersMove DEF PongExpected
  <2>8. CASE End(e)
    <3>1. session' = [session EXCEPT ![e] = "ended"]
      BY <2>8 DEF End
    <3>2. PongExpected'
      BY <1>1, <3>1 DEF PongExpected, Types
    <3> QED  BY <1>1, <2>8, <3>2, EndMoves
  <2> QED
    BY <2>1, <2>2, <2>3, <2>4, <2>5, <2>6, <2>7, <2>8, EndedEnds DEF Step, Driver
<1> QED
  BY <1>2, <1>3, <1>4, <1>5 DEF TransportInv

LEMMA TransportStutter == ASSUME TransportInv, UNCHANGED vars PROVE TransportInv'
  BY DEF TransportInv, Types, Bounded, Served, OneHeartbeat, Empty, Matches, Reserved,
         PongExpected, vars, queues, writerVars, driverVars, workerVars

-----------------------------------------------------------------------------
(***************************************************************************)
(* Between two steps of either end the queues hold what their capacities   *)
(* allow, control_burst counts what passed a waiting frame, and of each    *)
(* PING and its PONG at most one is anywhere between the two drivers.      *)
(***************************************************************************)
THEOREM TransportInvariant == Spec => []TransportInv
<1>1. Init => TransportInv
  BY TransportInit
<1>2. TransportInv /\ [Next]_vars => TransportInv'
  BY TransportStep, TransportStutter, NextSteps
<1> QED
  BY <1>1, <1>2, PTL DEF Spec

(***************************************************************************)
(* The drivers' keepalive never ends a healthy session: a PONG carries the *)
(* nonce of the outstanding PING, whatever waits in front of it.           *)
(***************************************************************************)
THEOREM PongAlwaysExpected == Spec => []PongExpected
<1>1. TransportInv => PongExpected
  BY DEF TransportInv
<1> QED
  BY <1>1, TransportInvariant, PTL

(***************************************************************************)
(* The queues never exceed their capacities, the permits that the credit   *)
(* workers have reserved included, and frame_writer lets at most           *)
(* SESSION_CONTROL_BURST control frames pass a waiting ordered frame.      *)
(***************************************************************************)
THEOREM QueuesAlwaysServed == Spec => []QueuesServed
<1>1. TransportInv => QueuesServed
  <2> SUFFICES ASSUME TransportInv PROVE QueuesServed
    OBVIOUS
  <2>1. Types /\ \A e \in Ends : Bounded(e) /\ Served(e)
    BY DEF TransportInv
  <2>2. OrderedNotStarved
    BY <2>1 DEF OrderedNotStarved, Served, Types
  <2>3. ASSUME NEW e \in Ends
        PROVE  /\ Len(control[e]) <= ControlCapacity
               /\ Len(ordered[e]) + Reserved(e) <= OrderedCapacity
               /\ Len(reader[e]) <= ReaderCapacity
               /\ driver[e].at \in {"idle", "ping", "pong", "gate", "close", "send"}
               /\ ping[e] \in 0 .. MaxPings[e]
    <3>1. driver[e] \in Handlers /\ ping[e] \in Nat /\ MaxPings[e] \in Nat
      BY <2>1 DEF Types
    <3> QED  BY <2>1, <3>1, HandlerKinds DEF Bounded
  <2>4. \A e \in Ends : \A s \in Streams :
           outbound[e][s] \in {"loop", "data", "close", "end"}
           /\ credit[e][s] \in {"loop", "reserved", "end"}
    BY <2>1 DEF Types
  <2>5. session \in [Ends -> {"up", "badPong", "ended"}]
    BY <2>1 DEF Types
  <2>6. TypeOK
    BY <2>3, <2>4, <2>5 DEF TypeOK
  <2> QED  BY <2>2, <2>6 DEF QueuesServed
<1> QED
  BY <1>1, TransportInvariant, PTL

(***************************************************************************)
(* frame_writer and the keepalive together, for any number of streams and  *)
(* any capacities: the queues are served within their bounds, and no PONG  *)
(* is unexpected for having waited in them.                                *)
(***************************************************************************)
THEOREM TrafficAlwaysSound == Spec => []TrafficSound
<1>1. QueuesServed /\ PongExpected => TrafficSound
  BY DEF TrafficSound
<1> QED
  BY <1>1, QueuesAlwaysServed, PongAlwaysExpected, PTL

=============================================================================
