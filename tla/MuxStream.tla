----------------------------- MODULE MuxStream -----------------------------
(***************************************************************************)
(* One established logical stream of the RDP multiplexer (rdp/mux.rs),     *)
(* seen from both of its ends.                                             *)
(*                                                                         *)
(* At each end four actors share a StreamShared: the application that      *)
(* polls the RdpStream, the outbound worker, the credit worker and the     *)
(* session driver.  They meet at the state mutex (every step below that    *)
(* reads and writes the stream state is one critical section of it), at    *)
(* the send gate (held across the wait for room in the ordered queue) and  *)
(* at the receive-credit gate.  A frame travels through the ordered queue, *)
(* the transport and the peer's reader queue in FIFO order: wire[e] is all *)
(* three, the frames e has queued and its peer's driver has not handled.   *)
(*                                                                         *)
(* Bytes are numbered by their position in the direction's byte stream, so *)
(* a payload is an interval of positions and only lengths are kept.  The   *)
(* totals written, sent, arrived, taken, granted and credited are history: *)
(* no guard reads them.                                                    *)
(*                                                                         *)
(* A definition named after another, with an underscore and a word, is a   *)
(* faulty variant of it: a bug the properties are known to catch.          *)
(***************************************************************************)
EXTENDS Naturals, Sequences

CONSTANTS
    Window,     \* NegotiatedLimits.receive_window, in bytes
    MaxData,    \* NegotiatedLimits.max_data, in bytes
    MaxBytes,   \* bound: how many bytes the application of each end writes
    Faulty,     \* bound: the ends whose transport may fail first
    DropReasons \* bound: the close reasons relays leave on the streams they drop

Ends == {"client", "agent"}
Peer(e) == IF e = "client" THEN "agent" ELSE "client"

Reasons == {"Normal", "Error"}  \* every CloseReason but Normal reads the same

ASSUME WindowAssumption == Window \in Nat \ {0}
ASSUME MaxDataAssumption == MaxData \in Nat \ {0}
ASSUME BoundsAssumption ==
    MaxBytes \in [Ends -> Nat] /\ Faulty \subseteq Ends /\ DropReasons \subseteq Reasons

VARIABLES
    session,    \* the session driver of the end: up, or why its loop broke
    stream,     \* this stream's entry in the driver's map
    driver,     \* where the driver waits inside queue_close_once
    wire,
    \* StreamState
    inbound, outbound, returnedCredit, receiveCredit, inboundEof,
    writeShutdown, shutdownSent, dropped, closeQueued, closeReason,
    remoteClosed, failure, pendingOutbound,
    available,              \* CreditWindow.available
    outPc, outCount,        \* outbound_worker, and the credit it has in hand
    creditPc, creditCount,  \* credit_worker, and the credit it is committing
    \* history
    written, sent, arrived, taken, granted, credited

driverVars == <<session, stream, driver>>
recvVars == <<inbound, returnedCredit, receiveCredit, inboundEof>>
sendVars == <<outbound, pendingOutbound, writeShutdown, shutdownSent, available>>
closeVars == <<dropped, closeQueued, closeReason, remoteClosed, failure>>
workerVars == <<outPc, outCount, creditPc, creditCount>>
history == <<written, sent, arrived, taken, granted, credited>>

vars == <<driverVars, wire, recvVars, sendVars, closeVars, workerVars, history>>

FrameTypes == {"OPEN_OK", "DATA", "SHUTDOWN_WRITE", "WINDOW_UPDATE", "CLOSE"}

\* A frame, with its place in the sender's history: `at` bytes and `credit`
\* bytes of credit were queued before it.
Frame == [type: FrameTypes, count: Nat, reason: Reasons, at: Nat, credit: Nat]

DataLen(f) == IF f.type = "DATA" THEN f.count ELSE 0
Credit(f) == IF f.type = "WINDOW_UPDATE" THEN f.count ELSE 0

Minimum(a, b) == IF a < b THEN a ELSE b

-----------------------------------------------------------------------------
(* The ordered queue.                                                      *)

Queue(e, type, count, reason) ==
    wire' = [wire EXCEPT ![e] = Append(@,
                [type |-> type, count |-> count, reason |-> reason,
                 at |-> sent[e], credit |-> granted[e]])]

(***************************************************************************)
(* The send gate is an async mutex: its holders are exactly the actors     *)
(* inside one of these stages, each of which may wait for queue capacity   *)
(* with the gate held.                                                     *)
(***************************************************************************)
SendGateFree(e) ==
    /\ outPc[e] \notin {"dataSend", "dataMark", "shutSend", "shutMark", "closeSend"}
    /\ creditPc[e] # "commit"
    /\ driver[e] # "send"

\* Held by the credit worker from before WINDOW_UPDATE is queued until
\* receive_credit is raised.
ReceiveCreditGateFree(e) == creditPc[e] # "commit"

Live(e) == ~dropped[e] /\ ~remoteClosed[e]

-----------------------------------------------------------------------------
(* The application: the relay that owns the RdpStream.                     *)

\* The client's end has no stream before OPEN_OK arrives.
HoldsStream(e) == stream[e] # "Opening" /\ ~dropped[e]

\* Faulty: credit is no longer returned once the peer has half-closed.
PollRead_NoCreditAfterEof(e, n) ==
    /\ HoldsStream(e)
    /\ n \in 1 .. inbound[e]
    /\ inbound' = [inbound EXCEPT ![e] = @ - n]
    /\ returnedCredit' = [returnedCredit EXCEPT ![e] = IF inboundEof[e] THEN @ ELSE @ + n]
    /\ taken' = [taken EXCEPT ![e] = @ + n]
    /\ UNCHANGED <<driverVars, wire, receiveCredit, inboundEof, sendVars,
                   closeVars, workerVars, written, sent, arrived, granted, credited>>

PollRead(e, n) ==
    /\ HoldsStream(e)
    /\ n \in 1 .. inbound[e]
    /\ inbound' = [inbound EXCEPT ![e] = @ - n]
    /\ returnedCredit' = [returnedCredit EXCEPT ![e] = @ + n]
    /\ taken' = [taken EXCEPT ![e] = @ + n]
    /\ UNCHANGED <<driverVars, wire, receiveCredit, inboundEof, sendVars,
                   closeVars, workerVars, written, sent, arrived, granted, credited>>

PollWrite(e, n) ==
    /\ HoldsStream(e)
    /\ ~remoteClosed[e]
    /\ ~writeShutdown[e]
    /\ n \in 1 .. (Window - outbound[e])
    /\ written[e] + n <= MaxBytes[e]
    /\ outbound' = [outbound EXCEPT ![e] = @ + n]
    /\ pendingOutbound' = [pendingOutbound EXCEPT ![e] = @ + n]
    /\ written' = [written EXCEPT ![e] = @ + n]
    /\ UNCHANGED <<driverVars, wire, recvVars, writeShutdown, shutdownSent, available,
                   closeVars, workerVars, sent, arrived, taken, granted, credited>>

PollShutdown(e) ==
    /\ HoldsStream(e)
    /\ ~failure[e]
    /\ ~remoteClosed[e]
    /\ ~writeShutdown[e]    \* a second poll changes nothing
    /\ writeShutdown' = [writeShutdown EXCEPT ![e] = TRUE]
    /\ UNCHANGED <<driverVars, wire, recvVars, outbound, pendingOutbound, shutdownSent,
                   available, closeVars, workerVars, history>>

\* What a poll of the stream returns without changing it.
ReadReturnsEof(e) ==
    /\ HoldsStream(e)
    /\ inbound[e] = 0
    /\ ~failure[e]
    /\ inboundEof[e] \/ remoteClosed[e]

FlushReturnsOk(e) ==
    /\ HoldsStream(e)
    /\ ~failure[e]
    /\ ~remoteClosed[e]
    /\ pendingOutbound[e] = 0

ShutdownReturnsOk(e) ==
    /\ HoldsStream(e)
    /\ ~failure[e]
    /\ IF remoteClosed[e]
       THEN shutdownSent[e]
       ELSE writeShutdown[e] /\ shutdownSent[e] /\ pendingOutbound[e] = 0

\* Drop of the RdpStream, after set_close_reason when the relay failed.
DropLocal(e, reason) ==
    /\ HoldsStream(e)
    /\ dropped' = [dropped EXCEPT ![e] = TRUE]
    /\ closeReason' = [closeReason EXCEPT ![e] = reason]
    /\ outbound' = [outbound EXCEPT ![e] = 0]
    /\ pendingOutbound' = [pendingOutbound EXCEPT ![e] = 0]
    /\ UNCHANGED <<driverVars, wire, recvVars, writeShutdown, shutdownSent, available,
                   closeQueued, remoteClosed, failure, workerVars, history>>

-----------------------------------------------------------------------------
(* outbound_worker.  A stage that waits is a step of its own; "Wait" is    *)
(* the absence of an enabled decision, since Notify loses no wakeup.       *)

OutboundDecide(e) ==
    /\ stream[e] # "Opening"
    /\ outPc[e] = "loop"
    /\ \/ /\ remoteClosed[e]
          /\ outPc' = [outPc EXCEPT ![e] = "stopped"]
          /\ UNCHANGED outCount
       \/ /\ ~remoteClosed[e] /\ dropped[e]
          /\ outPc' = [outPc EXCEPT ![e] = "closeGate"]
          /\ UNCHANGED outCount
       \/ /\ Live(e) /\ outbound[e] > 0
          /\ outPc' = [outPc EXCEPT ![e] = "take"]
          /\ outCount' = [outCount EXCEPT ![e] = Minimum(outbound[e], MaxData)]
       \/ /\ Live(e) /\ outbound[e] = 0 /\ writeShutdown[e] /\ ~shutdownSent[e]
          /\ outPc' = [outPc EXCEPT ![e] = "shutGate"]
          /\ UNCHANGED outCount
    /\ UNCHANGED <<driverVars, wire, recvVars, sendVars, closeVars,
                   creditPc, creditCount, history>>

\* CreditWindow::take_up_to; drop_local and remote_close close the window.
TakeUpTo(e) ==
    /\ outPc[e] = "take"
    /\ \/ /\ ~Live(e)
          /\ outPc' = [outPc EXCEPT ![e] = "loop"]
          /\ outCount' = [outCount EXCEPT ![e] = 0]
          /\ UNCHANGED available
       \/ /\ Live(e) /\ available[e] # 0
          /\ LET count == Minimum(available[e], outCount[e])
             IN  /\ available' = [available EXCEPT ![e] = @ - count]
                 /\ outCount' = [outCount EXCEPT ![e] = count]
          /\ outPc' = [outPc EXCEPT ![e] = "dataGate"]
    /\ UNCHANGED <<driverVars, wire, recvVars, outbound, pendingOutbound, writeShutdown,
                   shutdownSent, closeVars, creditPc, creditCount, history>>

DataLockGate(e) ==
    /\ outPc[e] = "dataGate"
    /\ SendGateFree(e)
    /\ LET count == IF Live(e) THEN Minimum(outCount[e], outbound[e]) ELSE 0
       IN  /\ outbound' = [outbound EXCEPT ![e] = @ - count]
           /\ outCount' = [outCount EXCEPT ![e] = count]
           /\ outPc' = [outPc EXCEPT ![e] = IF count = 0 THEN "loop" ELSE "dataSend"]
    /\ UNCHANGED <<driverVars, wire, recvVars, pendingOutbound, writeShutdown, shutdownSent,
                   available, closeVars, creditPc, creditCount, history>>

DataSend(e) ==
    /\ outPc[e] = "dataSend"
    /\ Queue(e, "DATA", outCount[e], "Normal")
    /\ sent' = [sent EXCEPT ![e] = @ + outCount[e]]
    /\ outPc' = [outPc EXCEPT ![e] = "dataMark"]
    /\ UNCHANGED <<driverVars, recvVars, sendVars, closeVars, outCount,
                   creditPc, creditCount, written, arrived, taken, granted, credited>>

\* pending_outbound.saturating_sub: the stream may have been closed meanwhile.
DataMark(e) ==
    /\ outPc[e] = "dataMark"
    /\ pendingOutbound' = [pendingOutbound EXCEPT ![e] =
                              IF @ > outCount[e] THEN @ - outCount[e] ELSE 0]
    /\ outCount' = [outCount EXCEPT ![e] = 0]
    /\ outPc' = [outPc EXCEPT ![e] = "loop"]
    /\ UNCHANGED <<driverVars, wire, recvVars, outbound, writeShutdown, shutdownSent,
                   available, closeVars, creditPc, creditCount, history>>

ShutdownLockGate(e) ==
    /\ outPc[e] = "shutGate"
    /\ SendGateFree(e)
    /\ outPc' = [outPc EXCEPT ![e] =
                    IF Live(e) /\ writeShutdown[e] /\ ~shutdownSent[e]
                    THEN "shutSend" ELSE "loop"]
    /\ UNCHANGED <<driverVars, wire, recvVars, sendVars, closeVars, outCount,
                   creditPc, creditCount, history>>

ShutdownSend(e) ==
    /\ outPc[e] = "shutSend"
    /\ Queue(e, "SHUTDOWN_WRITE", 0, "Normal")
    /\ outPc' = [outPc EXCEPT ![e] = "shutMark"]
    /\ UNCHANGED <<driverVars, recvVars, sendVars, closeVars, outCount,
                   creditPc, creditCount, history>>

ShutdownMark(e) ==
    /\ outPc[e] = "shutMark"
    /\ shutdownSent' = [shutdownSent EXCEPT ![e] = TRUE]
    /\ outPc' = [outPc EXCEPT ![e] = "loop"]
    /\ UNCHANGED <<driverVars, wire, recvVars, outbound, pendingOutbound, writeShutdown,
                   available, closeVars, outCount, creditPc, creditCount, history>>

\* queue_close_once, up to the wait for queue capacity.
CloseLockGate(e) ==
    /\ outPc[e] = "closeGate"
    /\ SendGateFree(e)
    /\ closeQueued' = [closeQueued EXCEPT ![e] = TRUE]
    /\ outPc' = [outPc EXCEPT ![e] = IF closeQueued[e] THEN "stopped" ELSE "closeSend"]
    /\ UNCHANGED <<driverVars, wire, recvVars, sendVars, dropped, closeReason, remoteClosed,
                   failure, outCount, creditPc, creditCount, history>>

CloseSend(e) ==
    /\ outPc[e] = "closeSend"
    /\ Queue(e, "CLOSE", 0, closeReason[e])
    /\ outPc' = [outPc EXCEPT ![e] = "queued"]
    /\ UNCHANGED <<driverVars, recvVars, sendVars, closeVars, outCount,
                   creditPc, creditCount, history>>

OutboundWorker(e) ==
    \/ OutboundDecide(e) \/ TakeUpTo(e)
    \/ DataLockGate(e) \/ DataSend(e) \/ DataMark(e)
    \/ ShutdownLockGate(e) \/ ShutdownSend(e) \/ ShutdownMark(e)
    \/ CloseLockGate(e) \/ CloseSend(e)

-----------------------------------------------------------------------------
(* credit_worker.  The queue slot is reserved before the send gate is      *)
(* taken, so queueing WINDOW_UPDATE never waits.                           *)

CreditReserve(e) ==
    /\ stream[e] # "Opening"
    /\ creditPc[e] = "loop"
    /\ \/ /\ ~Live(e)
          /\ creditPc' = [creditPc EXCEPT ![e] = "end"]
       \/ /\ Live(e) /\ returnedCredit[e] # 0
          /\ creditPc' = [creditPc EXCEPT ![e] = "gate"]
    /\ UNCHANGED <<driverVars, wire, recvVars, sendVars, closeVars, outPc, outCount,
                   creditCount, history>>

CreditSend(e) ==
    /\ creditPc[e] = "gate"
    /\ SendGateFree(e)
    /\ \/ /\ ~Live(e)
          /\ creditPc' = [creditPc EXCEPT ![e] = "end"]
          /\ UNCHANGED <<wire, returnedCredit, creditCount, granted>>
       \/ /\ Live(e)
          /\ Queue(e, "WINDOW_UPDATE", returnedCredit[e], "Normal")
          /\ granted' = [granted EXCEPT ![e] = @ + returnedCredit[e]]
          /\ creditCount' = [creditCount EXCEPT ![e] = returnedCredit[e]]
          /\ returnedCredit' = [returnedCredit EXCEPT ![e] = 0]
          /\ creditPc' = [creditPc EXCEPT ![e] = "commit"]
    /\ UNCHANGED <<driverVars, inbound, receiveCredit, inboundEof, sendVars, closeVars,
                   outPc, outCount, written, sent, arrived, taken, credited>>

\* Faulty: the update is queued and receive_credit never raised.
CreditCommit_Forgotten(e) ==
    /\ creditPc[e] = "commit"
    /\ creditPc' = [creditPc EXCEPT ![e] = "loop"]
    /\ creditCount' = [creditCount EXCEPT ![e] = 0]
    /\ UNCHANGED <<driverVars, wire, recvVars, sendVars, closeVars, outPc, outCount, history>>

\* A sum above the capacity ends the worker without committing it.
CreditCommit(e) ==
    /\ creditPc[e] = "commit"
    /\ LET updated == receiveCredit[e] + creditCount[e]
       IN  IF updated > Window
           THEN /\ creditPc' = [creditPc EXCEPT ![e] = "end"]
                /\ UNCHANGED receiveCredit
           ELSE /\ creditPc' = [creditPc EXCEPT ![e] = "loop"]
                /\ receiveCredit' = [receiveCredit EXCEPT ![e] = updated]
    /\ creditCount' = [creditCount EXCEPT ![e] = 0]
    /\ UNCHANGED <<driverVars, wire, inbound, returnedCredit, inboundEof, sendVars,
                   closeVars, outPc, outCount, history>>

CreditWorker(e) == CreditReserve(e) \/ CreditSend(e) \/ CreditCommit(e)

-----------------------------------------------------------------------------
(* The session driver: handle_client_frame and handle_agent_frame on the   *)
(* frames of this stream, the worker events and the Close command.         *)

\* The driver takes the next frame; the byte and credit totals follow it.
Receive(e, type) ==
    /\ session[e] = "up"
    /\ driver[e] = "idle"
    /\ wire[Peer(e)] # <<>>
    /\ Head(wire[Peer(e)]).type = type
    /\ arrived' = [arrived EXCEPT ![e] = @ + DataLen(Head(wire[Peer(e)]))]
    /\ credited' = [credited EXCEPT ![e] = @ + Credit(Head(wire[Peer(e)]))]
    /\ UNCHANGED <<written, sent, taken, granted>>

Pop(e) == wire' = [wire EXCEPT ![Peer(e)] = Tail(@)]

\* An error returned by a handler breaks the driver's loop; TearDown follows.
EndSession(e, verdict) ==
    session' = [session EXCEPT ![e] = IF verdict = "ok" THEN @ ELSE verdict]

RecvOpenOk(e) ==
    /\ Receive(e, "OPEN_OK") /\ Pop(e)
    /\ stream' = [stream EXCEPT ![e] = IF @ = "Opening" THEN "Open" ELSE @]
    /\ EndSession(e, IF stream[e] \in {"Opening", "Closing"} THEN "ok" ELSE "stateError")
    /\ UNCHANGED <<driver, recvVars, sendVars, closeVars, workerVars>>

PushInbound(e, n) ==
    IF inboundEof[e] \/ remoteClosed[e] THEN "stateError"
    ELSE IF n > receiveCredit[e] \/ n > Window - inbound[e] THEN "creditError" ELSE "ok"

RecvData(e) ==
    /\ Receive(e, "DATA") /\ Pop(e)
    /\ stream[e] = "Open" => ReceiveCreditGateFree(e)
    /\ LET n == Head(wire[Peer(e)]).count
           verdict == CASE n <= MaxData /\ stream[e] = "Open" -> PushInbound(e, n)
                        [] n <= MaxData /\ stream[e] = "Closing" -> "ok"
                        [] OTHER -> "stateError"
           kept == IF stream[e] = "Open" /\ verdict = "ok" THEN n ELSE 0
       IN  /\ EndSession(e, verdict)
           /\ receiveCredit' = [receiveCredit EXCEPT ![e] = @ - kept]
           /\ inbound' = [inbound EXCEPT ![e] = @ + kept]
    /\ UNCHANGED <<stream, driver, returnedCredit, inboundEof, sendVars, closeVars,
                   workerVars>>

RecvShutdownWrite(e) ==
    /\ Receive(e, "SHUTDOWN_WRITE") /\ Pop(e)
    /\ EndSession(e, CASE stream[e] = "Open" -> IF inboundEof[e] THEN "stateError" ELSE "ok"
                       [] stream[e] = "Closing" -> "ok"
                       [] OTHER -> "stateError")
    /\ inboundEof' = [inboundEof EXCEPT ![e] = @ \/ stream[e] = "Open"]
    /\ UNCHANGED <<stream, driver, inbound, returnedCredit, receiveCredit, sendVars,
                   closeVars, workerVars>>

\* CreditWindow::add
RecvWindowUpdate(e) ==
    /\ Receive(e, "WINDOW_UPDATE") /\ Pop(e)
    /\ LET n == Head(wire[Peer(e)]).count
           verdict == CASE stream[e] = "Open" ->
                             IF n = 0 \/ available[e] + n > Window THEN "creditError" ELSE "ok"
                        [] stream[e] = "Closing" -> "ok"
                        [] OTHER -> "stateError"
       IN  /\ EndSession(e, verdict)
           /\ available' = [available EXCEPT ![e] =
                               IF stream[e] = "Open" /\ verdict = "ok" THEN @ + n ELSE @]
    /\ UNCHANGED <<stream, driver, recvVars, outbound, pendingOutbound, writeShutdown,
                   shutdownSent, closeVars, workerVars>>

\* StreamShared::remote_close and session_failure differ in the failure they leave.
RemoteClose(e, fails) ==
    /\ remoteClosed' = [remoteClosed EXCEPT ![e] = TRUE]
    /\ inboundEof' = [inboundEof EXCEPT ![e] = TRUE]
    /\ failure' = [failure EXCEPT ![e] = @ \/ fails]
    /\ outbound' = [outbound EXCEPT ![e] = 0]
    /\ pendingOutbound' = [pendingOutbound EXCEPT ![e] = 0]

\* Faulty: CLOSE retires the stream but is not answered.
RecvClose_NoAnswer(e) ==
    /\ Receive(e, "CLOSE") /\ Pop(e)
    /\ stream' = [stream EXCEPT ![e] = "Gone"]
    /\ RemoteClose(e, Head(wire[Peer(e)]).reason # "Normal")
    /\ UNCHANGED <<session, driver, inbound, returnedCredit, receiveCredit, writeShutdown,
                   shutdownSent, available, dropped, closeQueued, closeReason, workerVars>>

\* CLOSE of an Open stream: the entry leaves the map, then the driver enters
\* queue_close_once.  A stream with no record is acknowledged directly, and so is,
\* by the agent, a stream that it has already retired.
RecvClose(e) ==
    /\ Receive(e, "CLOSE")
    /\ stream' = [stream EXCEPT ![e] = "Gone"]
    /\ \/ /\ stream[e] = "Open"
          /\ Pop(e)
          /\ RemoteClose(e, Head(wire[Peer(e)]).reason # "Normal")
          /\ driver' = [driver EXCEPT ![e] = "gate"]
          /\ UNCHANGED session
       \/ /\ stream[e] # "Open"
          /\ EndSession(e, IF e = "client" /\ stream[e] = "Gone" THEN "stateError" ELSE "ok")
          /\ IF stream[e] = "Opening" \/ (e = "agent" /\ stream[e] = "Gone")
             THEN wire' = [wire EXCEPT
                      ![Peer(e)] = Tail(@),
                      ![e] = Append(@, [type |-> "CLOSE", count |-> 0, reason |-> "Normal",
                                        at |-> sent[e], credit |-> granted[e]])]
             ELSE Pop(e)
          /\ UNCHANGED <<driver, remoteClosed, inboundEof, failure, outbound, pendingOutbound>>
    /\ UNCHANGED <<inbound, returnedCredit, receiveCredit, writeShutdown, shutdownSent,
                   available, dropped, closeQueued, closeReason, workerVars>>

\* ClientCommand::Close for an open stream: its caller gave up, dropping the
\* stream unused, after OPEN_OK had been handled.
CancelOpen(e) ==
    /\ e = "client"
    /\ session[e] = "up" /\ driver[e] = "idle" /\ stream[e] = "Open"
    /\ dropped[e] /\ written[e] = 0 /\ taken[e] = 0 /\ ~writeShutdown[e]
    /\ stream' = [stream EXCEPT ![e] = "Closing"]
    /\ driver' = [driver EXCEPT ![e] = "gate"]
    /\ RemoteClose(e, TRUE)
    /\ UNCHANGED <<session, wire, inbound, returnedCredit, receiveCredit, writeShutdown,
                   shutdownSent, available, dropped, closeQueued, closeReason, workerVars,
                   history>>

\* Drop of the StreamRecord aborts both workers, at an await: never inside the
\* credit worker's commit.
AbortWorkers(e) ==
    /\ creditPc[e] # "commit"
    /\ outPc' = [outPc EXCEPT ![e] = "end"]
    /\ creditPc' = [creditPc EXCEPT ![e] = "end"]
    /\ outCount' = [outCount EXCEPT ![e] = 0]
    /\ UNCHANGED creditCount

\* Faulty: the driver answers CLOSE although the worker has queued one.
DriverLockGate_Always(e) ==
    /\ driver[e] = "gate"
    /\ SendGateFree(e)
    /\ closeQueued' = [closeQueued EXCEPT ![e] = TRUE]
    /\ driver' = [driver EXCEPT ![e] = "send"]
    /\ UNCHANGED <<session, stream, wire, recvVars, sendVars, workerVars, dropped,
                   closeReason, remoteClosed, failure, history>>

DriverLockGate(e) ==
    /\ driver[e] = "gate"
    /\ SendGateFree(e)
    /\ closeQueued' = [closeQueued EXCEPT ![e] = TRUE]
    /\ \/ /\ closeQueued[e]
          /\ driver' = [driver EXCEPT ![e] = "idle"]
          /\ AbortWorkers(e)
       \/ /\ ~closeQueued[e]
          /\ driver' = [driver EXCEPT ![e] = "send"]
          /\ UNCHANGED workerVars
    /\ UNCHANGED <<session, stream, wire, recvVars, sendVars, dropped, closeReason,
                   remoteClosed, failure, history>>

DriverSendClose(e) ==
    /\ driver[e] = "send"
    /\ Queue(e, "CLOSE", 0, IF stream[e] = "Closing" THEN "Error" ELSE "Normal")
    /\ driver' = [driver EXCEPT ![e] = "idle"]
    /\ AbortWorkers(e)
    /\ UNCHANGED <<session, stream, recvVars, sendVars, closeVars, history>>

\* handle_client_worker_event, handle_agent_worker_event
WorkerEvent(e) ==
    /\ session[e] = "up" /\ driver[e] = "idle"
    /\ outPc[e] \in {"queued", "stopped"}
    /\ IF stream[e] = "Open"
       THEN /\ stream' = [stream EXCEPT ![e] = IF outPc[e] = "queued" THEN "Closing" ELSE "Gone"]
            /\ AbortWorkers(e)
       ELSE /\ outPc' = [outPc EXCEPT ![e] = "end"]
            /\ UNCHANGED <<stream, outCount, creditPc, creditCount>>
    /\ UNCHANGED <<session, driver, wire, recvVars, sendVars, closeVars, history>>

\* Faulty: the streams of a lost session end like closed ones.
TearDown_Silent(e) ==
    /\ driver[e] # "ended"
    /\ e \in Faulty \/ session[e] # "up" \/ driver[Peer(e)] = "ended"
    /\ session' = [session EXCEPT ![e] = IF @ = "up" THEN "lost" ELSE @]
    /\ driver' = [driver EXCEPT ![e] = "ended"]
    /\ AbortWorkers(e)
    /\ RemoteClose(e, FALSE)
    /\ UNCHANGED <<stream, wire, inbound, returnedCredit, receiveCredit, writeShutdown,
                   shutdownSent, available, dropped, closeQueued, closeReason, history>>

\* The driver's loop breaks, on a handler's error or because the transport is
\* lost or a timeout ends the generation; the streams still in its map fail.
TearDown(e) ==
    /\ driver[e] # "ended"
    /\ e \in Faulty \/ session[e] # "up" \/ driver[Peer(e)] = "ended"
    /\ session' = [session EXCEPT ![e] = IF @ = "up" THEN "lost" ELSE @]
    /\ driver' = [driver EXCEPT ![e] = "ended"]
    /\ AbortWorkers(e)
    /\ IF stream[e] = "Open"
       THEN RemoteClose(e, TRUE)
       ELSE UNCHANGED <<remoteClosed, inboundEof, failure, outbound, pendingOutbound>>
    /\ UNCHANGED <<stream, wire, inbound, returnedCredit, receiveCredit, writeShutdown,
                   shutdownSent, available, dropped, closeQueued, closeReason, history>>

Driver(e) ==
    \/ RecvOpenOk(e) \/ RecvData(e) \/ RecvShutdownWrite(e)
    \/ RecvWindowUpdate(e) \/ RecvClose(e)
    \/ DriverLockGate(e) \/ DriverSendClose(e) \/ WorkerEvent(e)

-----------------------------------------------------------------------------
(* The agent queued OPEN_OK, spawned the stream and put it in its map; the *)
(* client is still Opening.                                                *)
Always(value) == [e \in Ends |-> value]

Init ==
    /\ session = Always("up")
    /\ stream = [e \in Ends |-> IF e = "client" THEN "Opening" ELSE "Open"]
    /\ driver = Always("idle")
    /\ wire = [e \in Ends |->
                  IF e = "agent"
                  THEN <<[type |-> "OPEN_OK", count |-> 0, reason |-> "Normal",
                          at |-> 0, credit |-> 0]>>
                  ELSE <<>>]
    /\ receiveCredit = Always(Window) /\ available = Always(Window)
    /\ inbound = Always(0) /\ outbound = Always(0)
    /\ returnedCredit = Always(0) /\ pendingOutbound = Always(0)
    /\ inboundEof = Always(FALSE) /\ writeShutdown = Always(FALSE)
    /\ shutdownSent = Always(FALSE) /\ dropped = Always(FALSE)
    /\ closeQueued = Always(FALSE) /\ closeReason = Always("Normal")
    /\ remoteClosed = Always(FALSE) /\ failure = Always(FALSE)
    /\ outPc = Always("loop") /\ outCount = Always(0)
    /\ creditPc = Always("loop") /\ creditCount = Always(0)
    /\ written = Always(0) /\ sent = Always(0) /\ arrived = Always(0)
    /\ taken = Always(0) /\ granted = Always(0) /\ credited = Always(0)

Application(e) ==
    \/ \E n \in 1 .. Window : PollRead(e, n) \/ PollWrite(e, n)
    \/ PollShutdown(e)
    \/ \E reason \in DropReasons : DropLocal(e, reason)

Next ==
    \E e \in Ends :
        \/ Application(e)
        \/ OutboundWorker(e)
        \/ CreditWorker(e)
        \/ Driver(e)
        \/ CancelOpen(e)
        \/ TearDown(e)

Spec == Init /\ [][Next]_vars

(***************************************************************************)
(* The runtime polls every task that can run; the gates and queues are     *)
(* FIFO, and finitely many bytes mean finitely many competitors.  A relay  *)
(* keeps reading.  An end whose peer is gone finds out: its transport      *)
(* closes or the keepalive expires.                                        *)
(***************************************************************************)
Fairness ==
    \A e \in Ends :
        /\ WF_vars(OutboundWorker(e))
        /\ WF_vars(CreditWorker(e))
        /\ WF_vars(Driver(e))
        /\ WF_vars(\E n \in 1 .. Window : PollRead(e, n))
        /\ WF_vars(driver[Peer(e)] = "ended" /\ TearDown(e))

FairSpec == Spec /\ Fairness

-----------------------------------------------------------------------------
ControlTypes ==
    /\ session \in [Ends -> {"up", "lost", "stateError", "creditError"}]
    /\ stream \in [Ends -> {"Opening", "Open", "Closing", "Gone"}]
    /\ driver \in [Ends -> {"idle", "gate", "send", "ended"}]
    /\ outPc \in [Ends -> {"loop", "take", "dataGate", "dataSend", "dataMark", "shutGate",
                           "shutSend", "shutMark", "closeGate", "closeSend", "queued",
                           "stopped", "end"}]
    /\ creditPc \in [Ends -> {"loop", "gate", "commit", "end"}]
    /\ closeReason \in [Ends -> Reasons]

FlagTypes ==
    /\ inboundEof \in [Ends -> BOOLEAN]
    /\ writeShutdown \in [Ends -> BOOLEAN]
    /\ shutdownSent \in [Ends -> BOOLEAN]
    /\ dropped \in [Ends -> BOOLEAN]
    /\ closeQueued \in [Ends -> BOOLEAN]
    /\ remoteClosed \in [Ends -> BOOLEAN]
    /\ failure \in [Ends -> BOOLEAN]

CountTypes ==
    /\ inbound \in [Ends -> 0 .. Window]
    /\ outbound \in [Ends -> 0 .. Window]
    /\ returnedCredit \in [Ends -> 0 .. Window]
    /\ receiveCredit \in [Ends -> 0 .. Window]
    /\ available \in [Ends -> 0 .. Window]
    /\ outCount \in [Ends -> 0 .. Window]
    /\ creditCount \in [Ends -> 0 .. Window]
    /\ pendingOutbound \in [Ends -> Nat]

HistoryTypes ==
    /\ written \in [Ends -> Nat] /\ sent \in [Ends -> Nat] /\ arrived \in [Ends -> Nat]
    /\ taken \in [Ends -> Nat] /\ granted \in [Ends -> Nat] /\ credited \in [Ends -> Nat]

(***************************************************************************)
(* Type correctness.  Buffers and credit counters stay within the window   *)
(* that was negotiated, so no subtraction in mux.rs underflows; frames are *)
(* well formed.                                                            *)
(***************************************************************************)
TypeOK ==
    /\ ControlTypes /\ FlagTypes /\ CountTypes /\ HistoryTypes
    /\ wire \in [Ends -> Seq(Frame)]

(***************************************************************************)
(* push_inbound and CreditWindow::add never reject a frame of an honest    *)
(* peer: DATA always fits the credit it was sent against, although the     *)
(* receiver raises receive_credit only after WINDOW_UPDATE is queued.      *)
(***************************************************************************)
CreditSafe == \A e \in Ends : session[e] # "creditError"

(***************************************************************************)
(* However the two ends interleave half-closes, drops, crossed CLOSEs and  *)
(* cancellations, neither driver meets a frame its stream state forbids.   *)
(***************************************************************************)
StateSafe == \A e \in Ends : session[e] # "stateError"

(***************************************************************************)
(* While neither end has begun to close, every byte of the window is       *)
(* somewhere: available to the sender, in its hand, in flight, buffered,   *)
(* or on its way back.  No interleaving leaks credit.                      *)
(***************************************************************************)
InHand(e) == IF outPc[e] \in {"dataGate", "dataSend"} THEN outCount[e] ELSE 0

CreditConserved ==
    \A e \in Ends :
        Live(e) /\ Live(Peer(e)) =>
            available[e] + InHand(e) + sent[e] + inbound[Peer(e)] + returnedCredit[Peer(e)]
                + granted[Peer(e)]
            = Window + arrived[Peer(e)] + credited[e]

(***************************************************************************)
(* send_gate and close_queued: CLOSE is the last frame an end queues for   *)
(* the stream, whichever of the worker and the driver queues it.           *)
(***************************************************************************)
CloseIsLast ==
    \A e \in Ends : \A i \in 1 .. Len(wire[e]) - 1 : wire[e][i].type # "CLOSE"

(***************************************************************************)
(* A reader that is told EOF has read every byte the writer was told is    *)
(* accepted, unless the writer dropped the stream without completing its   *)
(* shutdown.  A lost session is never reported as EOF.                     *)
(***************************************************************************)
GracefulDelivery ==
    \A e \in Ends :
        /\ ReadReturnsEof(e)
        /\ dropped[Peer(e)] => shutdownSent[Peer(e)]
        => taken[e] = written[Peer(e)]

(***************************************************************************)
(* poll_flush and poll_shutdown return Ok only when every accepted byte is *)
(* committed to the ordered queue.                                         *)
(***************************************************************************)
FlushMeansQueued ==
    \A e \in Ends : FlushReturnsOk(e) \/ ShutdownReturnsOk(e) => sent[e] = written[e]

(***************************************************************************)
(* The frames of a stream are lawful: neither end queues anything after    *)
(* its CLOSE, and neither driver meets a frame its state forbids.          *)
(***************************************************************************)
FramesLawful == StateSafe /\ CloseIsLast

(***************************************************************************)
(* Nothing that was accepted is lost silently: an EOF comes after the last *)
(* byte, and a flush or a shutdown returns once all is queued.             *)
(***************************************************************************)
NothingLost == GracefulDelivery /\ FlushMeansQueued

-----------------------------------------------------------------------------
(* The inductive invariant behind CreditSafe.                              *)

\* Where the i-th frame of w starts; past its end, where the next one will.
Start(w, i, s) == IF i \in 1 .. Len(w) THEN w[i].at ELSE s
StartCredit(w, i, g) == IF i \in 1 .. Len(w) THEN w[i].credit ELSE g

\* The frames of w, one after the other, cover exactly the bytes from a to s and
\* the credit from c to g; an update carries credit.
Tiling(w, s, g, a, c) ==
    /\ Start(w, 1, s) = a
    /\ StartCredit(w, 1, g) = c
    /\ \A i \in 1 .. Len(w) :
          /\ Start(w, i + 1, s) = w[i].at + DataLen(w[i])
          /\ StartCredit(w, i + 1, g) = w[i].credit + Credit(w[i])
          /\ w[i].at + DataLen(w[i]) <= s
          /\ w[i].credit + Credit(w[i]) <= g
          /\ w[i].type = "WINDOW_UPDATE" => w[i].count # 0

\* The frames in flight tile what was queued and has not been handled.
Tiled(e) == Tiling(wire[e], sent[e], granted[e], arrived[Peer(e)], credited[Peer(e)])

\* The receiver's own ledger: the window is split between credit advertised,
\* credit being committed, bytes buffered and bytes read but not yet returned.
LocalLedger(e) ==
    receiveCredit[e] + creditCount[e] + inbound[e] + returnedCredit[e] = Window

\* What the sender may still send, and what is in flight either way, never
\* exceeds what the receiver has advertised.
FlowBound(e) ==
    available[e] + InHand(e) + sent[e] + granted[Peer(e)]
        <= receiveCredit[Peer(e)] + creditCount[Peer(e)] + arrived[Peer(e)] + credited[e]

WorkerCounts(e) ==
    /\ creditPc[e] = "gate" => returnedCredit[e] # 0
    /\ creditPc[e] # "commit" => creditCount[e] = 0

(***************************************************************************)
(* The ledger of the flow control, at both ends and in both directions:    *)
(* the inductive invariant from which CreditSafe and TypeOK follow.        *)
(***************************************************************************)
CreditInv ==
    /\ TypeOK
    /\ CreditSafe
    /\ \A e \in Ends : Tiled(e) /\ LocalLedger(e) /\ FlowBound(e) /\ WorkerCounts(e)

-----------------------------------------------------------------------------
(***************************************************************************)
(* poll_shutdown does not stay Pending: once the relay asks for the half-  *)
(* close, SHUTDOWN_WRITE is queued behind the last byte, however little    *)
(* credit there was, or the stream ends.                                   *)
(***************************************************************************)
ShutdownCompletes ==
    \A e \in Ends : writeShutdown[e] ~> (ShutdownReturnsOk(e) \/ ~Live(e))

(***************************************************************************)
(* A dropped stream leaves both drivers' maps: the CLOSE is queued and     *)
(* acknowledged, and no Closing tombstone stays behind.                    *)
(***************************************************************************)
StreamRetires ==
    \A e \in Ends : dropped[e] ~> (driver[e] = "ended" \/ stream[e] = "Gone")

(***************************************************************************)
(* Both: a half-close and a drop each run to their end.                    *)
(***************************************************************************)
StreamsFinish == ShutdownCompletes /\ StreamRetires
=============================================================================
