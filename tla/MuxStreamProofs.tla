-------------------------- MODULE MuxStreamProofs --------------------------
(***************************************************************************)
(* The flow control of MuxStream is safe for every window, frame size and  *)
(* amount of data: CreditInv is inductive.  Steps that move bytes or       *)
(* credit (read, take, send, return, commit, receive) are proved one by    *)
(* one; all the others are quiet and share QuietStep.                      *)
(*                                                                         *)
(* On top of it StreamInv ties the driver's records, the shared flags and  *)
(* the frames in flight together; a step keeps the wire (QuietLife),       *)
(* queues a frame (QueueLife) or handles one (PopLife).                    *)
(***************************************************************************)
EXTENDS MuxStream, TLAPS

\* There are two ends, each the peer of the other.
LEMMA PeerFacts ==
    /\ \A e \in Ends : Peer(e) \in Ends /\ Peer(Peer(e)) = e /\ Peer(e) # e
    /\ \A e, f \in Ends : f # e => f = Peer(e)
  BY DEF Ends, Peer

\* The fields of a frame, and the bytes and credit it carries, are numbers.
LEMMA FrameLens ==
    ASSUME NEW f \in Frame
    PROVE  /\ DataLen(f) \in Nat /\ Credit(f) \in Nat
           /\ f.at \in Nat /\ f.credit \in Nat /\ f.count \in Nat
  BY DEF Frame, DataLen, Credit

\* A frame queued where the last one ended extends the tiling.
LEMMA AppendTiling ==
    ASSUME NEW w \in Seq(Frame), NEW f \in Frame,
           NEW s \in Nat, NEW g \in Nat, NEW a \in Nat, NEW c \in Nat,
           Tiling(w, s, g, a, c),
           f.at = s, f.credit = g,
           f.type = "WINDOW_UPDATE" => f.count # 0
    PROVE  Tiling(Append(w, f), s + DataLen(f), g + Credit(f), a, c)
  <1> DEFINE v == Append(w, f)
             t == s + DataLen(f)
             h == g + Credit(f)
  <1>1. /\ v \in Seq(Frame)
        /\ Len(v) = Len(w) + 1
        /\ \A i \in 1 .. Len(w) : v[i] = w[i]
        /\ v[Len(w) + 1] = f
        /\ Len(w) \in Nat
    OBVIOUS
  <1>2. DataLen(f) \in Nat /\ Credit(f) \in Nat
    BY FrameLens
  <1>3. \A i \in 1 .. Len(w) : w[i] \in Frame
    OBVIOUS
  <1>4. \A i \in 1 .. Len(w) : DataLen(w[i]) \in Nat /\ Credit(w[i]) \in Nat
                               /\ w[i].at \in Nat /\ w[i].credit \in Nat
    BY <1>3, FrameLens
  <1> HIDE DEF v, t, h
  <1>5. t \in Nat /\ h \in Nat /\ t >= s /\ h >= g
    BY <1>2 DEF t, h
  <1>6. \A i \in 1 .. Len(w) + 1 : Start(v, i, t) = Start(w, i, s)
                                   /\ StartCredit(v, i, h) = StartCredit(w, i, g)
    BY <1>1 DEF Start, StartCredit
  <1>7. /\ Start(v, Len(w) + 2, t) = t
        /\ StartCredit(v, Len(w) + 2, h) = h
    BY <1>1 DEF Start, StartCredit
  <1>8. ASSUME NEW i \in 1 .. Len(v)
        PROVE  /\ Start(v, i + 1, t) = v[i].at + DataLen(v[i])
               /\ StartCredit(v, i + 1, h) = v[i].credit + Credit(v[i])
               /\ v[i].at + DataLen(v[i]) <= t
               /\ v[i].credit + Credit(v[i]) <= h
               /\ v[i].type = "WINDOW_UPDATE" => v[i].count # 0
    <2>1. CASE i = Len(w) + 1
      BY <2>1, <1>1, <1>2, <1>5, <1>7 DEF t, h
    <2>2. CASE i \in 1 .. Len(w)
      <3>1. v[i] = w[i] /\ i + 1 \in 1 .. Len(w) + 1
        BY <2>2, <1>1
      <3>2. /\ Start(w, i + 1, s) = w[i].at + DataLen(w[i])
            /\ StartCredit(w, i + 1, g) = w[i].credit + Credit(w[i])
            /\ w[i].at + DataLen(w[i]) <= s
            /\ w[i].credit + Credit(w[i]) <= g
            /\ w[i].type = "WINDOW_UPDATE" => w[i].count # 0
        BY <2>2 DEF Tiling
      <3>3. /\ Start(v, i + 1, t) = Start(w, i + 1, s)
            /\ StartCredit(v, i + 1, h) = StartCredit(w, i + 1, g)
        BY <3>1, <1>6
      <3>4. /\ DataLen(w[i]) \in Nat /\ Credit(w[i]) \in Nat
            /\ w[i].at \in Nat /\ w[i].credit \in Nat
        BY <2>2, <1>4
      <3>5. w[i].at + DataLen(w[i]) <= t /\ w[i].credit + Credit(w[i]) <= h
        BY <3>2, <3>4, <1>5
      <3> QED
        BY <3>1, <3>2, <3>3, <3>5
    <2> QED
      BY <2>1, <2>2, <1>1
  <1>9. Start(v, 1, t) = a /\ StartCredit(v, 1, h) = c
    BY <1>1, <1>6 DEF Tiling
  <1> QED
    BY <1>8, <1>9 DEF Tiling, v, t, h

\* Without its first frame the tiling starts where that frame ended.
LEMMA TailTiling ==
    ASSUME NEW w \in Seq(Frame), w # <<>>,
           NEW s \in Nat, NEW g \in Nat, NEW a \in Nat, NEW c \in Nat,
           Tiling(w, s, g, a, c)
    PROVE  /\ Tiling(Tail(w), s, g, a + DataLen(Head(w)), c + Credit(Head(w)))
           /\ a + DataLen(Head(w)) <= s
           /\ c + Credit(Head(w)) <= g
           /\ Head(w).type = "WINDOW_UPDATE" => Head(w).count # 0
  <1> DEFINE v == Tail(w)
  <1>1. /\ v \in Seq(Frame)
        /\ Len(w) \in Nat /\ Len(w) >= 1
        /\ Len(v) = Len(w) - 1
        /\ \A i \in 1 .. Len(v) : v[i] = w[i + 1]
        /\ Head(w) = w[1]
    OBVIOUS
  <1> HIDE DEF v
  <1>2. w[1].at = a /\ w[1].credit = c
    BY <1>1 DEF Tiling, Start, StartCredit
  <1>3. \A i \in 1 .. Len(w) : Start(v, i, s) = Start(w, i + 1, s)
                               /\ StartCredit(v, i, g) = StartCredit(w, i + 1, g)
    BY <1>1 DEF Start, StartCredit
  <1>4. \A i \in 1 .. Len(w) :
            /\ Start(w, i + 1, s) = w[i].at + DataLen(w[i])
            /\ StartCredit(w, i + 1, g) = w[i].credit + Credit(w[i])
            /\ w[i].at + DataLen(w[i]) <= s
            /\ w[i].credit + Credit(w[i]) <= g
            /\ w[i].type = "WINDOW_UPDATE" => w[i].count # 0
    BY DEF Tiling
  <1>5. ASSUME NEW i \in 1 .. Len(v)
        PROVE  /\ Start(v, i + 1, s) = v[i].at + DataLen(v[i])
               /\ StartCredit(v, i + 1, g) = v[i].credit + Credit(v[i])
               /\ v[i].at + DataLen(v[i]) <= s
               /\ v[i].credit + Credit(v[i]) <= g
               /\ v[i].type = "WINDOW_UPDATE" => v[i].count # 0
    <2>1. v[i] = w[i + 1] /\ i + 1 \in 1 .. Len(w)
      BY <1>1
    <2> QED
      BY <2>1, <1>3, <1>4
  <1>6. 1 \in 1 .. Len(w)
    BY <1>1
  <1>7. /\ Start(v, 1, s) = a + DataLen(Head(w))
        /\ StartCredit(v, 1, g) = c + Credit(Head(w))
    BY <1>1, <1>2, <1>3, <1>4, <1>6
  <1>8. Tiling(v, s, g, a + DataLen(Head(w)), c + Credit(Head(w)))
    BY <1>5, <1>7 DEF Tiling
  <1> QED
    BY <1>1, <1>2, <1>4, <1>6, <1>8 DEF v

\* No more bytes or credit are handled than were queued.
LEMMA TilingBounds ==
    ASSUME NEW w \in Seq(Frame),
           NEW s \in Nat, NEW g \in Nat, NEW a \in Nat, NEW c \in Nat,
           Tiling(w, s, g, a, c)
    PROVE  a <= s /\ c <= g
  <1>1. CASE Len(w) = 0
    BY <1>1 DEF Tiling, Start, StartCredit
  <1>2. CASE Len(w) # 0
    <2>1. Len(w) \in Nat /\ 1 \in 1 .. Len(w) /\ w[1] \in Frame
      BY <1>2
    <2>2. DataLen(w[1]) \in Nat /\ Credit(w[1]) \in Nat
          /\ w[1].at \in Nat /\ w[1].credit \in Nat
      BY <2>1, FrameLens
    <2> QED
      BY <2>1, <2>2 DEF Tiling, Start, StartCredit
  <1> QED
    BY <1>1, <1>2

-----------------------------------------------------------------------------
\* A stream just opened satisfies the ledgers.
LEMMA InitCredit == Init => CreditInv
  <1> SUFFICES ASSUME Init PROVE CreditInv
    OBVIOUS
  <1> USE WindowAssumption, MaxDataAssumption
  <1>1. TypeOK
    <2>1. ControlTypes /\ FlagTypes
      BY DEF Init, Always, ControlTypes, FlagTypes, Reasons
    <2>2. CountTypes /\ HistoryTypes
      BY DEF Init, Always, CountTypes, HistoryTypes
    <2>3. wire \in [Ends -> Seq(Frame)]
      <3> DEFINE f == [type |-> "OPEN_OK", count |-> 0, reason |-> "Normal",
                       at |-> 0, credit |-> 0]
      <3>1. f \in Frame
        BY DEF Frame, FrameTypes, Reasons
      <3>2. <<f>> \in Seq(Frame) /\ <<>> \in Seq(Frame)
        BY <3>1
      <3>3. wire = [e \in Ends |-> IF e = "agent" THEN <<f>> ELSE <<>>]
        BY DEF Init
      <3> HIDE DEF f
      <3> QED
        BY <3>2, <3>3
    <2> QED
      BY <2>1, <2>2, <2>3 DEF TypeOK
  <1>2. CreditSafe
    BY DEF Init, Always, CreditSafe
  <1>3. ASSUME NEW e \in Ends
        PROVE  Tiled(e) /\ LocalLedger(e) /\ FlowBound(e) /\ WorkerCounts(e)
    <2>1. Tiled(e)
      BY PeerFacts DEF Init, Always, Tiled, Tiling, Start, StartCredit, DataLen, Credit, Ends
    <2>2. LocalLedger(e) /\ FlowBound(e) /\ WorkerCounts(e)
      BY PeerFacts DEF Init, Always, LocalLedger, FlowBound, WorkerCounts, InHand
    <2> QED
      BY <2>1, <2>2
  <1> QED
    BY <1>1, <1>2, <1>3 DEF CreditInv

-----------------------------------------------------------------------------
(* What CreditInv says of one end, in the form the arithmetic steps need.  *)

WireType == wire \in [Ends -> Seq(Frame)]
Parts(e) == Tiled(e) /\ LocalLedger(e) /\ FlowBound(e) /\ WorkerCounts(e)

\* CreditInv, in the parts the steps below work on.
LEMMA Unpack ==
    ASSUME CreditInv
    PROVE  /\ ControlTypes /\ FlagTypes /\ CountTypes /\ HistoryTypes /\ WireType
           /\ CreditSafe
           /\ \A e \in Ends : Parts(e)
  BY DEF CreditInv, TypeOK, Parts, WireType

\* The parts in the next state make CreditInv there.
LEMMA Pack ==
    ASSUME ControlTypes', FlagTypes', CountTypes', HistoryTypes', WireType', CreditSafe',
           \A e \in Ends : Parts(e)'
    PROVE  CreditInv'
  BY DEF CreditInv, TypeOK, Parts, WireType

\* The counters of one end are within the window.
LEMMA Counts ==
    ASSUME CountTypes, NEW e \in Ends
    PROVE  /\ inbound[e] \in 0 .. Window /\ outbound[e] \in 0 .. Window
           /\ returnedCredit[e] \in 0 .. Window /\ receiveCredit[e] \in 0 .. Window
           /\ available[e] \in 0 .. Window /\ outCount[e] \in 0 .. Window
           /\ creditCount[e] \in 0 .. Window /\ pendingOutbound[e] \in Nat
           /\ InHand(e) \in 0 .. Window
  BY WindowAssumption DEF CountTypes, InHand

\* The totals of one end are numbers.
LEMMA Totals ==
    ASSUME HistoryTypes, NEW e \in Ends
    PROVE  /\ written[e] \in Nat /\ sent[e] \in Nat /\ arrived[e] \in Nat
           /\ taken[e] \in Nat /\ granted[e] \in Nat /\ credited[e] \in Nat
  BY DEF HistoryTypes

\* What is in flight is never negative.
LEMMA InFlight ==
    ASSUME CreditInv, NEW e \in Ends
    PROVE  arrived[Peer(e)] <= sent[e] /\ credited[Peer(e)] <= granted[e]
  <1>1. Peer(e) \in Ends
    BY PeerFacts
  <1>2. HistoryTypes /\ WireType /\ Parts(e)
    BY Unpack
  <1>3. /\ sent[e] \in Nat /\ granted[e] \in Nat
        /\ arrived[Peer(e)] \in Nat /\ credited[Peer(e)] \in Nat
    BY <1>1, <1>2, Totals
  <1>4. wire[e] \in Seq(Frame)
    BY <1>2 DEF WireType
  <1> QED
    BY <1>2, <1>3, <1>4, TilingBounds DEF Parts, Tiled

\* A step that moves no byte and no credit keeps the ledgers.
LEMMA QuietParts ==
    ASSUME CreditInv,
           UNCHANGED <<wire, inbound, returnedCredit, receiveCredit, available, creditCount,
                       sent, arrived, granted, credited>>,
           \A e \in Ends : InHand(e)' \in Nat /\ InHand(e)' <= InHand(e),
           \A e \in Ends : WorkerCounts(e)'
    PROVE  \A e \in Ends : Parts(e)'
  <1> TAKE e \in Ends
  <1>1. Peer(e) \in Ends
    BY PeerFacts
  <1>2. CountTypes /\ HistoryTypes /\ Parts(e)
    BY Unpack
  <1>3. Tiled(e)' /\ LocalLedger(e)'
    BY <1>2 DEF Parts, Tiled, LocalLedger
  <1>4. FlowBound(e)'
    BY <1>1, <1>2, Counts, Totals, WindowAssumption DEF Parts, FlowBound
  <1> QED
    BY <1>3, <1>4 DEF Parts

\* Queueing one frame keeps both directions tiled.
LEMMA QueueTiled ==
    ASSUME CreditInv, NEW e \in Ends,
           NEW type \in FrameTypes, NEW n \in Nat, NEW reason \in Reasons,
           type = "WINDOW_UPDATE" => n # 0,
           Queue(e, type, n, reason),
           sent'[e] = sent[e] + (IF type = "DATA" THEN n ELSE 0),
           granted'[e] = granted[e] + (IF type = "WINDOW_UPDATE" THEN n ELSE 0),
           sent'[Peer(e)] = sent[Peer(e)], granted'[Peer(e)] = granted[Peer(e)],
           UNCHANGED <<arrived, credited>>
    PROVE  WireType' /\ \A f \in Ends : Tiled(f)'
  <1> DEFINE new == [type |-> type, count |-> n, reason |-> reason,
                     at |-> sent[e], credit |-> granted[e]]
  <1>1. Peer(e) \in Ends /\ Peer(e) # e /\ Peer(Peer(e)) = e
    BY PeerFacts
  <1>2. HistoryTypes /\ WireType /\ Parts(e) /\ Parts(Peer(e))
    BY <1>1, Unpack
  <1>3. /\ sent[e] \in Nat /\ granted[e] \in Nat
        /\ arrived[Peer(e)] \in Nat /\ credited[Peer(e)] \in Nat
    BY <1>1, <1>2, Totals
  <1>4. new \in Frame
    BY <1>3 DEF Frame
  <1>5. /\ DataLen(new) = (IF type = "DATA" THEN n ELSE 0)
        /\ Credit(new) = (IF type = "WINDOW_UPDATE" THEN n ELSE 0)
        /\ new.at = sent[e] /\ new.credit = granted[e]
        /\ new.type = "WINDOW_UPDATE" => new.count # 0
    BY DEF DataLen, Credit
  <1>6. wire' = [wire EXCEPT ![e] = Append(wire[e], new)]
    BY DEF Queue
  <1> HIDE DEF new
  <1>7. wire[e] \in Seq(Frame) /\ wire[Peer(e)] \in Seq(Frame)
    BY <1>1, <1>2 DEF WireType
  <1>8. wire'[e] = Append(wire[e], new) /\ wire'[Peer(e)] = wire[Peer(e)]
    BY <1>1, <1>2, <1>6 DEF WireType
  <1>9. WireType'
    BY <1>2, <1>4, <1>6, <1>7 DEF WireType
  <1>10. Tiling(Append(wire[e], new), sent[e] + DataLen(new), granted[e] + Credit(new),
                arrived[Peer(e)], credited[Peer(e)])
    BY <1>2, <1>3, <1>4, <1>5, <1>7, AppendTiling DEF Parts, Tiled
  <1>11. Tiled(e)'
    BY <1>5, <1>8, <1>10 DEF Tiled
  <1>12. Tiled(Peer(e))'
    BY <1>1, <1>2, <1>8 DEF Parts, Tiled
  <1> QED
    BY <1>9, <1>11, <1>12, PeerFacts

\* Handling the first frame keeps both directions tiled.
LEMMA PopTiled ==
    ASSUME CreditInv, NEW e \in Ends, NEW type, Receive(e, type), Pop(e)
    PROVE  /\ WireType' /\ HistoryTypes'
           /\ \A f \in Ends : Tiled(f)'
           /\ Head(wire[Peer(e)]) \in Frame
           /\ arrived'[e] = arrived[e] + DataLen(Head(wire[Peer(e)]))
           /\ credited'[e] = credited[e] + Credit(Head(wire[Peer(e)]))
           /\ arrived'[Peer(e)] = arrived[Peer(e)] /\ credited'[Peer(e)] = credited[Peer(e)]
           /\ arrived'[e] <= sent[Peer(e)] /\ credited'[e] <= granted[Peer(e)]
           /\ type = "WINDOW_UPDATE" => Head(wire[Peer(e)]).count # 0
  <1> DEFINE w == wire[Peer(e)]
  <1>1. Peer(e) \in Ends /\ Peer(e) # e /\ Peer(Peer(e)) = e
    BY PeerFacts
  <1>2. HistoryTypes /\ WireType /\ Parts(e) /\ Parts(Peer(e))
    BY <1>1, Unpack
  <1>3. w \in Seq(Frame) /\ w # <<>> /\ Head(w).type = type
    BY <1>1, <1>2 DEF WireType, Receive
  <1>4. Head(w) \in Frame /\ Tail(w) \in Seq(Frame)
    BY <1>3
  <1>5. DataLen(Head(w)) \in Nat /\ Credit(Head(w)) \in Nat
    BY <1>4, FrameLens
  <1>6. /\ sent[Peer(e)] \in Nat /\ granted[Peer(e)] \in Nat
        /\ arrived[e] \in Nat /\ credited[e] \in Nat
    BY <1>1, <1>2, Totals
  <1>7. wire' = [wire EXCEPT ![Peer(e)] = Tail(w)]
    BY DEF Pop
  <1>8. /\ arrived' = [arrived EXCEPT ![e] = arrived[e] + DataLen(Head(w))]
        /\ credited' = [credited EXCEPT ![e] = credited[e] + Credit(Head(w))]
        /\ UNCHANGED <<written, sent, taken, granted>>
    BY DEF Receive
  <1> HIDE DEF w
  <1>9. wire'[Peer(e)] = Tail(w) /\ wire'[e] = wire[e] /\ WireType'
    BY <1>1, <1>2, <1>4, <1>7 DEF WireType
  <1>10. /\ arrived'[e] = arrived[e] + DataLen(Head(w))
         /\ credited'[e] = credited[e] + Credit(Head(w))
         /\ arrived'[Peer(e)] = arrived[Peer(e)] /\ credited'[Peer(e)] = credited[Peer(e)]
         /\ HistoryTypes'
    BY <1>1, <1>2, <1>5, <1>6, <1>8 DEF HistoryTypes
  <1>11. Tiling(w, sent[Peer(e)], granted[Peer(e)], arrived[e], credited[e])
    BY <1>1, <1>2 DEF Parts, Tiled, w
  <1>12. /\ Tiling(Tail(w), sent[Peer(e)], granted[Peer(e)],
                   arrived[e] + DataLen(Head(w)), credited[e] + Credit(Head(w)))
         /\ arrived[e] + DataLen(Head(w)) <= sent[Peer(e)]
         /\ credited[e] + Credit(Head(w)) <= granted[Peer(e)]
         /\ Head(w).type = "WINDOW_UPDATE" => Head(w).count # 0
    BY <1>3, <1>6, <1>11, TailTiling
  <1>13. Tiled(Peer(e))'
    BY <1>1, <1>8, <1>9, <1>10, <1>12 DEF Tiled
  <1>14. Tiled(e)'
    BY <1>1, <1>2, <1>8, <1>9, <1>10 DEF Parts, Tiled
  <1> QED
    BY <1>3, <1>4, <1>9, <1>10, <1>12, <1>13, <1>14, PeerFacts DEF w

-----------------------------------------------------------------------------
(* The application's steps.                                                *)

\* Bytes read move from the buffer to the credit to be returned.
LEMMA PollReadStep ==
    ASSUME CreditInv, NEW e \in Ends, NEW n \in 1 .. Window, PollRead(e, n)
    PROVE  CreditInv'
  <1>1. /\ ControlTypes /\ FlagTypes /\ CountTypes /\ HistoryTypes /\ WireType /\ CreditSafe
        /\ \A f \in Ends : Parts(f)
    BY Unpack
  <1>2. ControlTypes' /\ FlagTypes' /\ CreditSafe' /\ WireType'
    BY <1>1 DEF PollRead, ControlTypes, FlagTypes, CreditSafe, WireType,
                driverVars, sendVars, closeVars, workerVars
  <1>3. /\ inbound[e] - n \in 0 .. Window
        /\ returnedCredit[e] + n \in 0 .. Window
        /\ taken[e] + n \in Nat
    BY <1>1, Counts, Totals, WindowAssumption DEF PollRead, Parts, LocalLedger
  <1>4. CountTypes' /\ HistoryTypes'
    BY <1>1, <1>3 DEF PollRead, CountTypes, HistoryTypes, sendVars, workerVars
  <1>5. ASSUME NEW f \in Ends
        PROVE  Parts(f)'
    <2>1. Tiled(f)'
      BY <1>1 DEF PollRead, Parts, Tiled
    <2>2. LocalLedger(f)'
      BY <1>1, Counts, WindowAssumption
      DEF PollRead, Parts, LocalLedger, CountTypes, workerVars
    <2>3. FlowBound(f)'
      BY <1>1 DEF PollRead, Parts, FlowBound, InHand, sendVars, workerVars
    <2>4. WorkerCounts(f)'
      BY <1>1, Counts, WindowAssumption
      DEF PollRead, Parts, WorkerCounts, CountTypes, workerVars
    <2> QED
      BY <2>1, <2>2, <2>3, <2>4 DEF Parts
  <1> QED
    BY <1>2, <1>4, <1>5, Pack

\* Bytes written enter the outbound buffer, against no credit yet.
LEMMA PollWriteStep ==
    ASSUME CreditInv, NEW e \in Ends, NEW n \in 1 .. Window, PollWrite(e, n)
    PROVE  CreditInv'
  <1>1. /\ ControlTypes /\ FlagTypes /\ CountTypes /\ HistoryTypes /\ WireType /\ CreditSafe
        /\ \A f \in Ends : Parts(f)
    BY Unpack
  <1>2. ControlTypes' /\ FlagTypes' /\ CreditSafe' /\ WireType'
    BY <1>1 DEF PollWrite, ControlTypes, FlagTypes, CreditSafe, WireType,
                driverVars, recvVars, closeVars, workerVars
  <1>3. /\ outbound[e] + n \in 0 .. Window
        /\ pendingOutbound[e] + n \in Nat
        /\ written[e] + n \in Nat
    BY <1>1, Counts, Totals, WindowAssumption DEF PollWrite
  <1>4. CountTypes' /\ HistoryTypes'
    BY <1>1, <1>3 DEF PollWrite, CountTypes, HistoryTypes, recvVars, workerVars
  <1>5. \A f \in Ends : Parts(f)'
    <2>1. \A f \in Ends : InHand(f)' = InHand(f) /\ InHand(f) \in Nat
      BY <1>1, Counts DEF PollWrite, InHand, workerVars
    <2>2. \A f \in Ends : WorkerCounts(f)'
      BY <1>1 DEF PollWrite, Parts, WorkerCounts, recvVars, workerVars
    <2> QED
      BY <2>1, <2>2, QuietParts DEF PollWrite, recvVars, workerVars
  <1> QED
    BY <1>2, <1>4, <1>5, Pack

\* A step that only sets flags, drops buffered output or moves a program counter.
LEMMA QuietStep ==
    ASSUME CreditInv, ControlTypes', FlagTypes', CountTypes', CreditSafe',
           UNCHANGED <<wire, inbound, returnedCredit, receiveCredit, available, creditCount,
                       history>>,
           \A f \in Ends : InHand(f)' \in Nat /\ InHand(f)' <= InHand(f),
           \A f \in Ends : WorkerCounts(f)'
    PROVE  CreditInv'
  <1>1. HistoryTypes /\ WireType
    BY Unpack
  <1>2. HistoryTypes' /\ WireType'
    BY <1>1 DEF HistoryTypes, WireType, history
  <1>3. \A f \in Ends : Parts(f)'
    BY QuietParts DEF history
  <1> QED
    BY <1>2, <1>3, Pack

\* An emptied counter is within its range.
LEMMA ZeroCount == 0 \in 0 .. Window /\ 0 \in Nat
  BY WindowAssumption

\* poll_shutdown only sets write_shutdown.
LEMMA PollShutdownStep ==
    ASSUME CreditInv, NEW e \in Ends, PollShutdown(e)
    PROVE  CreditInv'
  <1>1. /\ ControlTypes /\ FlagTypes /\ CountTypes /\ CreditSafe
        /\ \A f \in Ends : Parts(f)
    BY Unpack
  <1>2. ControlTypes' /\ FlagTypes' /\ CreditSafe'
    BY <1>1
    DEF PollShutdown, ControlTypes, FlagTypes, CreditSafe,
        driverVars, recvVars, sendVars, closeVars, workerVars
  <1>3. CountTypes'
    BY <1>1, ZeroCount DEF PollShutdown, CountTypes, recvVars, sendVars, workerVars
  <1>4. \A f \in Ends : InHand(f)' = InHand(f) /\ InHand(f) \in Nat
    BY <1>1, Counts DEF PollShutdown, InHand, workerVars
  <1>5. \A f \in Ends : WorkerCounts(f)'
    BY <1>1 DEF PollShutdown, Parts, WorkerCounts, recvVars, workerVars
  <1> QED
    BY <1>1, <1>2, <1>3, <1>4, <1>5, QuietStep, Counts
    DEF PollShutdown, recvVars, sendVars, workerVars

\* drop_local only discards what was not sent.
LEMMA DropLocalStep ==
    ASSUME CreditInv, NEW e \in Ends, NEW reason \in DropReasons, DropLocal(e, reason)
    PROVE  CreditInv'
  <1>1. /\ ControlTypes /\ FlagTypes /\ CountTypes /\ CreditSafe
        /\ \A f \in Ends : Parts(f)
    BY Unpack
  <1>2. ControlTypes' /\ FlagTypes' /\ CreditSafe'
    BY <1>1, BoundsAssumption
    DEF DropLocal, ControlTypes, FlagTypes, CreditSafe,
        driverVars, recvVars, sendVars, closeVars, workerVars
  <1>3. CountTypes'
    BY <1>1, ZeroCount DEF DropLocal, CountTypes, recvVars, sendVars, workerVars
  <1>4. \A f \in Ends : InHand(f)' = InHand(f) /\ InHand(f) \in Nat
    BY <1>1, Counts DEF DropLocal, InHand, workerVars
  <1>5. \A f \in Ends : WorkerCounts(f)'
    BY <1>1 DEF DropLocal, Parts, WorkerCounts, recvVars, workerVars
  <1> QED
    BY <1>1, <1>2, <1>3, <1>4, <1>5, QuietStep, Counts
    DEF DropLocal, recvVars, sendVars, workerVars

-----------------------------------------------------------------------------
(* outbound_worker, where no frame is queued and no credit taken.          *)

\* The decision of outbound_worker moves no credit.
LEMMA OutboundDecideStep ==
    ASSUME CreditInv, NEW e \in Ends, OutboundDecide(e)
    PROVE  CreditInv'
  <1>1. /\ ControlTypes /\ FlagTypes /\ CountTypes /\ CreditSafe
        /\ \A f \in Ends : Parts(f)
    BY Unpack
  <1>2. ControlTypes' /\ FlagTypes' /\ CreditSafe'
    BY <1>1
    DEF OutboundDecide, ControlTypes, FlagTypes, CreditSafe,
        driverVars, recvVars, sendVars, closeVars, workerVars
  <1>3. CountTypes'
    <2>1. Minimum(outbound[e], MaxData) \in 0 .. Window
      BY <1>1, Counts, WindowAssumption, MaxDataAssumption DEF Minimum
    <2> QED
      BY <1>1, <2>1 DEF OutboundDecide, CountTypes, recvVars, sendVars
  <1>4. \A f \in Ends : InHand(f)' \in Nat /\ InHand(f)' <= InHand(f)
    BY <1>1, Counts DEF OutboundDecide, InHand, ControlTypes, CountTypes, workerVars
  <1>5. \A f \in Ends : WorkerCounts(f)'
    BY <1>1 DEF OutboundDecide, Parts, WorkerCounts, recvVars, workerVars
  <1> QED
    BY <1>1, <1>2, <1>3, <1>4, <1>5, QuietStep, Counts
    DEF OutboundDecide, recvVars, sendVars, workerVars

\* What outbound_worker drains is at most the credit in its hand.
LEMMA DataLockGateStep ==
    ASSUME CreditInv, NEW e \in Ends, DataLockGate(e)
    PROVE  CreditInv'
  <1>1. /\ ControlTypes /\ FlagTypes /\ CountTypes /\ CreditSafe
        /\ \A f \in Ends : Parts(f)
    BY Unpack
  <1>2. ControlTypes' /\ FlagTypes' /\ CreditSafe'
    BY <1>1
    DEF DataLockGate, ControlTypes, FlagTypes, CreditSafe,
        driverVars, recvVars, sendVars, closeVars, workerVars
  <1>3. CountTypes'
    <2> DEFINE count == IF Live(e) THEN Minimum(outCount[e], outbound[e]) ELSE 0
    <2>1. count \in 0 .. Window /\ outbound[e] - count \in 0 .. Window
      BY <1>1, Counts, WindowAssumption DEF Minimum
    <2>2. /\ outbound' = [outbound EXCEPT ![e] = outbound[e] - count]
          /\ outCount' = [outCount EXCEPT ![e] = count]
      BY DEF DataLockGate
    <2> HIDE DEF count
    <2> QED
      BY <1>1, <2>1, <2>2 DEF DataLockGate, CountTypes, recvVars
  <1>4. \A f \in Ends : InHand(f)' \in Nat /\ InHand(f)' <= InHand(f)
    <2>1. \A f \in Ends : InHand(f) \in Nat /\ outCount[f] \in Nat /\ outbound[f] \in Nat
      BY <1>1, Counts
    <2> QED
      BY <1>1, <2>1 DEF DataLockGate, InHand, Minimum, ControlTypes, CountTypes
  <1>5. \A f \in Ends : WorkerCounts(f)'
    BY <1>1 DEF DataLockGate, Parts, WorkerCounts, recvVars, workerVars
  <1> QED
    BY <1>1, <1>2, <1>3, <1>4, <1>5, QuietStep, Counts
    DEF DataLockGate, recvVars, sendVars, workerVars

\* The credit in hand was spent when DATA was queued.
LEMMA DataMarkStep ==
    ASSUME CreditInv, NEW e \in Ends, DataMark(e)
    PROVE  CreditInv'
  <1>1. /\ ControlTypes /\ FlagTypes /\ CountTypes /\ CreditSafe
        /\ \A f \in Ends : Parts(f)
    BY Unpack
  <1>2. ControlTypes' /\ FlagTypes' /\ CreditSafe'
    BY <1>1
    DEF DataMark, ControlTypes, FlagTypes, CreditSafe,
        driverVars, recvVars, sendVars, closeVars, workerVars
  <1>3. CountTypes'
    <2>1. (IF pendingOutbound[e] > outCount[e] THEN pendingOutbound[e] - outCount[e] ELSE 0) \in Nat
      BY <1>1, Counts, WindowAssumption
    <2> QED
      BY <1>1, <2>1, ZeroCount DEF DataMark, CountTypes, recvVars
  <1>4. \A f \in Ends : InHand(f)' \in Nat /\ InHand(f)' <= InHand(f)
    BY <1>1, Counts DEF DataMark, InHand, ControlTypes, CountTypes, workerVars
  <1>5. \A f \in Ends : WorkerCounts(f)'
    BY <1>1 DEF DataMark, Parts, WorkerCounts, recvVars, workerVars
  <1> QED
    BY <1>1, <1>2, <1>3, <1>4, <1>5, QuietStep, Counts
    DEF DataMark, recvVars, sendVars, workerVars

\* Taking the gate for SHUTDOWN_WRITE moves a program counter.
LEMMA ShutdownLockGateStep ==
    ASSUME CreditInv, NEW e \in Ends, ShutdownLockGate(e)
    PROVE  CreditInv'
  <1>1. /\ ControlTypes /\ FlagTypes /\ CountTypes /\ CreditSafe
        /\ \A f \in Ends : Parts(f)
    BY Unpack
  <1>2. ControlTypes' /\ FlagTypes' /\ CreditSafe'
    BY <1>1
    DEF ShutdownLockGate, ControlTypes, FlagTypes, CreditSafe,
        driverVars, recvVars, sendVars, closeVars, workerVars
  <1>3. CountTypes'
    BY <1>1, ZeroCount DEF ShutdownLockGate, CountTypes, recvVars, sendVars, workerVars
  <1>4. \A f \in Ends : InHand(f)' \in Nat /\ InHand(f)' <= InHand(f)
    BY <1>1, Counts DEF ShutdownLockGate, InHand, ControlTypes, CountTypes, workerVars
  <1>5. \A f \in Ends : WorkerCounts(f)'
    BY <1>1 DEF ShutdownLockGate, Parts, WorkerCounts, recvVars, workerVars
  <1> QED
    BY <1>1, <1>2, <1>3, <1>4, <1>5, QuietStep, Counts
    DEF ShutdownLockGate, recvVars, sendVars, workerVars

\* shutdown_sent is a flag.
LEMMA ShutdownMarkStep ==
    ASSUME CreditInv, NEW e \in Ends, ShutdownMark(e)
    PROVE  CreditInv'
  <1>1. /\ ControlTypes /\ FlagTypes /\ CountTypes /\ CreditSafe
        /\ \A f \in Ends : Parts(f)
    BY Unpack
  <1>2. ControlTypes' /\ FlagTypes' /\ CreditSafe'
    BY <1>1
    DEF ShutdownMark, ControlTypes, FlagTypes, CreditSafe,
        driverVars, recvVars, sendVars, closeVars, workerVars
  <1>3. CountTypes'
    BY <1>1, ZeroCount DEF ShutdownMark, CountTypes, recvVars, sendVars, workerVars
  <1>4. \A f \in Ends : InHand(f)' \in Nat /\ InHand(f)' <= InHand(f)
    BY <1>1, Counts DEF ShutdownMark, InHand, ControlTypes, CountTypes, workerVars
  <1>5. \A f \in Ends : WorkerCounts(f)'
    BY <1>1 DEF ShutdownMark, Parts, WorkerCounts, recvVars, workerVars
  <1> QED
    BY <1>1, <1>2, <1>3, <1>4, <1>5, QuietStep, Counts
    DEF ShutdownMark, recvVars, sendVars, workerVars

\* close_queued is a flag.
LEMMA CloseLockGateStep ==
    ASSUME CreditInv, NEW e \in Ends, CloseLockGate(e)
    PROVE  CreditInv'
  <1>1. /\ ControlTypes /\ FlagTypes /\ CountTypes /\ CreditSafe
        /\ \A f \in Ends : Parts(f)
    BY Unpack
  <1>2. ControlTypes' /\ FlagTypes' /\ CreditSafe'
    BY <1>1
    DEF CloseLockGate, ControlTypes, FlagTypes, CreditSafe,
        driverVars, recvVars, sendVars, closeVars, workerVars
  <1>3. CountTypes'
    BY <1>1, ZeroCount DEF CloseLockGate, CountTypes, recvVars, sendVars, workerVars
  <1>4. \A f \in Ends : InHand(f)' \in Nat /\ InHand(f)' <= InHand(f)
    BY <1>1, Counts DEF CloseLockGate, InHand, ControlTypes, CountTypes, workerVars
  <1>5. \A f \in Ends : WorkerCounts(f)'
    BY <1>1 DEF CloseLockGate, Parts, WorkerCounts, recvVars, workerVars
  <1> QED
    BY <1>1, <1>2, <1>3, <1>4, <1>5, QuietStep, Counts
    DEF CloseLockGate, recvVars, sendVars, workerVars

-----------------------------------------------------------------------------
(* credit_worker and driver steps that move no credit.                     *)

\* The credit worker waits for the gate only with credit to return.
LEMMA CreditReserveStep ==
    ASSUME CreditInv, NEW e \in Ends, CreditReserve(e)
    PROVE  CreditInv'
  <1>1. /\ ControlTypes /\ FlagTypes /\ CountTypes /\ CreditSafe
        /\ \A f \in Ends : Parts(f)
    BY Unpack
  <1>2. ControlTypes' /\ FlagTypes' /\ CreditSafe'
    BY <1>1
    DEF CreditReserve, ControlTypes, FlagTypes, CreditSafe,
        driverVars, recvVars, sendVars, closeVars, workerVars
  <1>3. CountTypes'
    BY <1>1, ZeroCount DEF CreditReserve, CountTypes, recvVars, sendVars, workerVars
  <1>4. \A f \in Ends : InHand(f)' = InHand(f) /\ InHand(f) \in Nat
    BY <1>1, Counts DEF CreditReserve, InHand, workerVars
  <1>5. \A f \in Ends : WorkerCounts(f)'
    BY <1>1 DEF CreditReserve, Parts, WorkerCounts, ControlTypes, recvVars, workerVars
  <1> QED
    BY <1>1, <1>2, <1>3, <1>4, <1>5, QuietStep, Counts
    DEF CreditReserve, recvVars, sendVars, workerVars

\* A cancelled stream discards what was not sent.
LEMMA CancelOpenStep ==
    ASSUME CreditInv, NEW e \in Ends, CancelOpen(e)
    PROVE  CreditInv'
  <1>1. /\ ControlTypes /\ FlagTypes /\ CountTypes /\ CreditSafe
        /\ \A f \in Ends : Parts(f)
    BY Unpack
  <1>2. ControlTypes' /\ FlagTypes' /\ CreditSafe'
    BY <1>1
    DEF CancelOpen, ControlTypes, FlagTypes, CreditSafe,
        driverVars, recvVars, sendVars, closeVars, workerVars, RemoteClose, history
  <1>3. CountTypes'
    BY <1>1, ZeroCount DEF CancelOpen, CountTypes, recvVars, sendVars, workerVars, RemoteClose,
        history
  <1>4. \A f \in Ends : InHand(f)' = InHand(f) /\ InHand(f) \in Nat
    BY <1>1, Counts DEF CancelOpen, InHand, workerVars
  <1>5. \A f \in Ends : WorkerCounts(f)'
    BY <1>1 DEF CancelOpen, Parts, WorkerCounts, recvVars, workerVars, RemoteClose, history
  <1> QED
    BY <1>1, <1>2, <1>3, <1>4, <1>5, QuietStep, Counts
    DEF CancelOpen, recvVars, sendVars, workerVars, RemoteClose, history

\* The driver's close aborts the workers, never inside a commit.
LEMMA DriverLockGateStep ==
    ASSUME CreditInv, NEW e \in Ends, DriverLockGate(e)
    PROVE  CreditInv'
  <1>1. /\ ControlTypes /\ FlagTypes /\ CountTypes /\ CreditSafe
        /\ \A f \in Ends : Parts(f)
    BY Unpack
  <1>2. ControlTypes' /\ FlagTypes' /\ CreditSafe'
    BY <1>1
    DEF DriverLockGate, ControlTypes, FlagTypes, CreditSafe,
        driverVars, recvVars, sendVars, closeVars, workerVars, AbortWorkers
  <1>3. CountTypes'
    BY <1>1, ZeroCount DEF DriverLockGate, CountTypes, recvVars, sendVars, workerVars,
        AbortWorkers
  <1>4. \A f \in Ends : InHand(f)' \in Nat /\ InHand(f)' <= InHand(f)
    BY <1>1, Counts DEF DriverLockGate, InHand, ControlTypes, CountTypes, workerVars,
        AbortWorkers
  <1>5. \A f \in Ends : WorkerCounts(f)'
    BY <1>1 DEF DriverLockGate, Parts, WorkerCounts, ControlTypes, recvVars, workerVars,
        AbortWorkers
  <1> QED
    BY <1>1, <1>2, <1>3, <1>4, <1>5, QuietStep, Counts
    DEF DriverLockGate, recvVars, sendVars, workerVars, AbortWorkers

\* A worker event retires the entry and aborts the workers.
LEMMA WorkerEventStep ==
    ASSUME CreditInv, NEW e \in Ends, WorkerEvent(e)
    PROVE  CreditInv'
  <1>1. /\ ControlTypes /\ FlagTypes /\ CountTypes /\ CreditSafe
        /\ \A f \in Ends : Parts(f)
    BY Unpack
  <1>2. ControlTypes' /\ FlagTypes' /\ CreditSafe'
    BY <1>1
    DEF WorkerEvent, ControlTypes, FlagTypes, CreditSafe,
        driverVars, recvVars, sendVars, closeVars, workerVars, AbortWorkers
  <1>3. CountTypes'
    BY <1>1, ZeroCount DEF WorkerEvent, CountTypes, recvVars, sendVars, workerVars, AbortWorkers
  <1>4. \A f \in Ends : InHand(f)' \in Nat /\ InHand(f)' <= InHand(f)
    BY <1>1, Counts DEF WorkerEvent, InHand, ControlTypes, CountTypes, workerVars, AbortWorkers
  <1>5. \A f \in Ends : WorkerCounts(f)'
    BY <1>1 DEF WorkerEvent, Parts, WorkerCounts, ControlTypes, recvVars, workerVars,
        AbortWorkers
  <1> QED
    BY <1>1, <1>2, <1>3, <1>4, <1>5, QuietStep, Counts
    DEF WorkerEvent, recvVars, sendVars, workerVars, AbortWorkers

\* A session that ends aborts the workers and closes the stream.
LEMMA TearDownStep ==
    ASSUME CreditInv, NEW e \in Ends, TearDown(e)
    PROVE  CreditInv'
  <1>1. /\ ControlTypes /\ FlagTypes /\ CountTypes /\ CreditSafe
        /\ \A f \in Ends : Parts(f)
    BY Unpack
  <1>2. ControlTypes' /\ FlagTypes' /\ CreditSafe'
    BY <1>1
    DEF TearDown, ControlTypes, FlagTypes, CreditSafe,
        driverVars, recvVars, sendVars, closeVars, workerVars, AbortWorkers, RemoteClose
  <1>3. CountTypes'
    BY <1>1, ZeroCount DEF TearDown, CountTypes, recvVars, sendVars, workerVars, AbortWorkers,
        RemoteClose
  <1>4. \A f \in Ends : InHand(f)' \in Nat /\ InHand(f)' <= InHand(f)
    BY <1>1, Counts DEF TearDown, InHand, ControlTypes, CountTypes, workerVars, AbortWorkers,
        RemoteClose
  <1>5. \A f \in Ends : WorkerCounts(f)'
    BY <1>1 DEF TearDown, Parts, WorkerCounts, ControlTypes, recvVars, workerVars,
        AbortWorkers, RemoteClose
  <1> QED
    BY <1>1, <1>2, <1>3, <1>4, <1>5, QuietStep, Counts
    DEF TearDown, recvVars, sendVars, workerVars, AbortWorkers, RemoteClose

-----------------------------------------------------------------------------
(* Steps that move credit or queue a frame.                                *)

\* take_up_to moves credit from the window into the worker's hand.
LEMMA TakeUpToStep ==
    ASSUME CreditInv, NEW e \in Ends, TakeUpTo(e)
    PROVE  CreditInv'
  <1>1. /\ ControlTypes /\ FlagTypes /\ CountTypes /\ HistoryTypes /\ WireType /\ CreditSafe
        /\ \A f \in Ends : Parts(f)
    BY Unpack
  <1>2. ControlTypes' /\ FlagTypes' /\ CreditSafe' /\ WireType' /\ HistoryTypes'
    BY <1>1 DEF TakeUpTo, ControlTypes, FlagTypes, CreditSafe, WireType, HistoryTypes,
                driverVars, recvVars, closeVars, history
  <1> DEFINE count == IF Live(e) THEN Minimum(available[e], outCount[e]) ELSE 0
  <1>3. /\ count \in 0 .. Window
        /\ available[e] - count \in 0 .. Window
    BY <1>1, Counts, WindowAssumption DEF Minimum
  <1>4. /\ available' = [available EXCEPT ![e] = available[e] - count]
        /\ outCount' = [outCount EXCEPT ![e] = count]
        /\ outPc' = [outPc EXCEPT ![e] = IF Live(e) THEN "dataGate" ELSE "loop"]
    <2>1. CASE Live(e)
      BY <2>1 DEF TakeUpTo
    <2>2. CASE ~Live(e)
      <3>1. available[e] - 0 = available[e]
        BY <1>1, Counts
      <3>2. available' = [available EXCEPT ![e] = available[e]]
        BY <1>1, <2>2 DEF TakeUpTo, CountTypes
      <3> QED
        BY <2>2, <3>1, <3>2 DEF TakeUpTo
    <2> QED
      BY <2>1, <2>2
  <1>5. ~Live(e) => count = 0
    OBVIOUS
  <1> HIDE DEF count
  <1>6. CountTypes'
    BY <1>1, <1>3, <1>4 DEF TakeUpTo, CountTypes, recvVars
  <1>7. ASSUME NEW f \in Ends
        PROVE  Parts(f)'
    <2>1. Tiled(f)' /\ LocalLedger(f)' /\ WorkerCounts(f)'
      BY <1>1 DEF TakeUpTo, Parts, Tiled, LocalLedger, WorkerCounts, recvVars, history
    <2>2. available[f]' + InHand(f)' = available[f] + InHand(f)
      <3>1. InHand(f) \in Nat /\ available[f] \in Nat
        BY <1>1, Counts
      <3>2. CASE f = e
        <4>1. InHand(e) = 0 /\ InHand(e)' = count /\ available'[e] = available[e] - count
          BY <1>1, <1>4, <1>5 DEF TakeUpTo, InHand, ControlTypes, CountTypes
        <4> QED
          BY <1>1, <1>3, <3>1, <3>2, <4>1, Counts
      <3>3. CASE f # e
        BY <1>1, <1>4, <3>3 DEF InHand, ControlTypes, CountTypes
      <3> QED
        BY <3>2, <3>3
    <2>3. Peer(f) \in Ends
      BY PeerFacts
    <2>4. InHand(f)' \in Nat /\ available[f]' \in Nat
      BY <1>6, WindowAssumption DEF InHand, CountTypes
    <2>5. FlowBound(f)'
      BY <1>1, <2>2, <2>3, <2>4, Counts, Totals, WindowAssumption
      DEF TakeUpTo, Parts, FlowBound, recvVars, history
    <2> QED
      BY <2>1, <2>5 DEF Parts
  <1> QED
    BY <1>2, <1>6, <1>7, Pack

\* DATA carries exactly the credit in the worker's hand.
LEMMA DataSendStep ==
    ASSUME CreditInv, NEW e \in Ends, DataSend(e)
    PROVE  CreditInv'
  <1>1. /\ ControlTypes /\ FlagTypes /\ CountTypes /\ HistoryTypes /\ WireType /\ CreditSafe
        /\ \A f \in Ends : Parts(f)
    BY Unpack
  <1>2. ControlTypes' /\ FlagTypes' /\ CreditSafe' /\ CountTypes'
    BY <1>1 DEF DataSend, ControlTypes, FlagTypes, CreditSafe, CountTypes,
                driverVars, recvVars, sendVars, closeVars
  <1>3. outCount[e] \in Nat /\ sent[e] + outCount[e] \in Nat
    BY <1>1, Counts, Totals
  <1>4. HistoryTypes'
    BY <1>1, <1>3 DEF DataSend, HistoryTypes
  <1>5. /\ Peer(e) \in Ends /\ Peer(e) # e
        /\ "DATA" \in FrameTypes /\ "Normal" \in Reasons
    BY PeerFacts DEF FrameTypes, Reasons
  <1>6. /\ sent'[e] = sent[e] + outCount[e] /\ sent'[Peer(e)] = sent[Peer(e)]
        /\ granted'[e] = granted[e] + 0 /\ granted'[Peer(e)] = granted[Peer(e)]
    BY <1>1, <1>5, Totals DEF DataSend, HistoryTypes
  <1>7. WireType' /\ \A f \in Ends : Tiled(f)'
    BY <1>3, <1>5, <1>6, QueueTiled DEF DataSend
  <1>8. ASSUME NEW f \in Ends
        PROVE  Parts(f)'
    <2>1. LocalLedger(f)' /\ WorkerCounts(f)'
      BY <1>1 DEF DataSend, Parts, LocalLedger, WorkerCounts, recvVars
    <2>2. InHand(f)' + sent'[f] = InHand(f) + sent[f] /\ InHand(f)' \in Nat /\ sent'[f] \in Nat
      <3>1. CASE f = e
        BY <1>1, <1>3, <1>6, <3>1, Totals DEF DataSend, InHand, ControlTypes
      <3>2. CASE f # e
        BY <1>1, <3>2, Counts, Totals DEF DataSend, InHand, ControlTypes, HistoryTypes
      <3> QED
        BY <3>1, <3>2
    <2>3. Peer(f) \in Ends
      BY PeerFacts
    <2>4. FlowBound(f)'
      BY <1>1, <2>2, <2>3, Counts, Totals, WindowAssumption
      DEF DataSend, Parts, FlowBound, recvVars, sendVars
    <2> QED
      BY <1>7, <2>1, <2>4 DEF Parts
  <1> QED
    BY <1>2, <1>4, <1>7, <1>8, Pack

\* A frame that carries neither bytes nor credit.
LEMMA QueueEmptyStep ==
    ASSUME CreditInv, NEW e \in Ends, NEW type \in {"SHUTDOWN_WRITE", "CLOSE"},
           NEW reason \in Reasons, Queue(e, type, 0, reason),
           ControlTypes', FlagTypes', CreditSafe', CountTypes',
           UNCHANGED <<inbound, returnedCredit, receiveCredit, available, creditCount, history>>,
           \A f \in Ends : InHand(f)' \in Nat /\ InHand(f)' <= InHand(f),
           \A f \in Ends : WorkerCounts(f)'
    PROVE  CreditInv'
  <1>1. /\ ControlTypes /\ FlagTypes /\ CountTypes /\ HistoryTypes /\ WireType /\ CreditSafe
        /\ \A f \in Ends : Parts(f)
    BY Unpack
  <1>2. HistoryTypes'
    BY <1>1 DEF HistoryTypes, history
  <1>3. /\ Peer(e) \in Ends
        /\ type \in FrameTypes /\ type # "DATA" /\ type # "WINDOW_UPDATE"
    BY PeerFacts DEF FrameTypes
  <1>4. /\ sent'[e] = sent[e] + 0 /\ sent'[Peer(e)] = sent[Peer(e)]
        /\ granted'[e] = granted[e] + 0 /\ granted'[Peer(e)] = granted[Peer(e)]
    BY <1>1, <1>3, Totals DEF history
  <1>5. WireType' /\ \A f \in Ends : Tiled(f)'
    BY <1>3, <1>4, QueueTiled DEF history
  <1>6. ASSUME NEW f \in Ends
        PROVE  Parts(f)'
    <2>1. Peer(f) \in Ends
      BY PeerFacts
    <2>2. LocalLedger(f)'
      BY <1>1 DEF Parts, LocalLedger
    <2>3. FlowBound(f)'
      BY <1>1, <2>1, Counts, Totals, WindowAssumption DEF Parts, FlowBound, history
    <2> QED
      BY <1>5, <2>2, <2>3 DEF Parts
  <1> QED
    BY <1>2, <1>5, <1>6, Pack

\* SHUTDOWN_WRITE carries neither bytes nor credit.
LEMMA ShutdownSendStep ==
    ASSUME CreditInv, NEW e \in Ends, ShutdownSend(e)
    PROVE  CreditInv'
  <1>1. /\ ControlTypes /\ FlagTypes /\ CountTypes /\ HistoryTypes /\ WireType /\ CreditSafe
        /\ \A f \in Ends : Parts(f)
    BY Unpack
  <1>2. ControlTypes' /\ FlagTypes' /\ CreditSafe' /\ CountTypes'
    BY <1>1, ZeroCount DEF ShutdownSend, ControlTypes, FlagTypes, CreditSafe, CountTypes,
                driverVars, recvVars, sendVars, closeVars
  <1>3. \A f \in Ends : InHand(f)' \in Nat /\ InHand(f)' <= InHand(f)
    BY <1>1, Counts DEF ShutdownSend, InHand, ControlTypes, CountTypes
  <1>4. \A f \in Ends : WorkerCounts(f)'
    BY <1>1 DEF ShutdownSend, Parts, WorkerCounts, ControlTypes, recvVars
  <1>5. "Normal" \in Reasons
    BY <1>1 DEF ControlTypes, Reasons
  <1> QED
    BY <1>2, <1>3, <1>4, <1>5, QueueEmptyStep DEF ShutdownSend, recvVars, sendVars

\* The worker's CLOSE carries neither bytes nor credit.
LEMMA CloseSendStep ==
    ASSUME CreditInv, NEW e \in Ends, CloseSend(e)
    PROVE  CreditInv'
  <1>1. /\ ControlTypes /\ FlagTypes /\ CountTypes /\ HistoryTypes /\ WireType /\ CreditSafe
        /\ \A f \in Ends : Parts(f)
    BY Unpack
  <1>2. ControlTypes' /\ FlagTypes' /\ CreditSafe' /\ CountTypes'
    BY <1>1, ZeroCount DEF CloseSend, ControlTypes, FlagTypes, CreditSafe, CountTypes,
                driverVars, recvVars, sendVars, closeVars
  <1>3. \A f \in Ends : InHand(f)' \in Nat /\ InHand(f)' <= InHand(f)
    BY <1>1, Counts DEF CloseSend, InHand, ControlTypes, CountTypes
  <1>4. \A f \in Ends : WorkerCounts(f)'
    BY <1>1 DEF CloseSend, Parts, WorkerCounts, ControlTypes, recvVars
  <1>5. closeReason[e] \in Reasons
    BY <1>1 DEF ControlTypes, Reasons
  <1> QED
    BY <1>2, <1>3, <1>4, <1>5, QueueEmptyStep DEF CloseSend, recvVars, sendVars

\* The driver's CLOSE carries neither bytes nor credit.
LEMMA DriverSendCloseStep ==
    ASSUME CreditInv, NEW e \in Ends, DriverSendClose(e)
    PROVE  CreditInv'
  <1>1. /\ ControlTypes /\ FlagTypes /\ CountTypes /\ HistoryTypes /\ WireType /\ CreditSafe
        /\ \A f \in Ends : Parts(f)
    BY Unpack
  <1>2. ControlTypes' /\ FlagTypes' /\ CreditSafe' /\ CountTypes'
    BY <1>1, ZeroCount DEF DriverSendClose, ControlTypes, FlagTypes, CreditSafe, CountTypes,
                driverVars, recvVars, sendVars, closeVars, AbortWorkers
  <1>3. \A f \in Ends : InHand(f)' \in Nat /\ InHand(f)' <= InHand(f)
    BY <1>1, Counts DEF DriverSendClose, InHand, ControlTypes, CountTypes, AbortWorkers
  <1>4. \A f \in Ends : WorkerCounts(f)'
    BY <1>1 DEF DriverSendClose, Parts, WorkerCounts, ControlTypes, recvVars, AbortWorkers
  <1>5. (IF stream[e] = "Closing" THEN "Error" ELSE "Normal") \in Reasons
    BY <1>1 DEF ControlTypes, Reasons
  <1> QED
    BY <1>2, <1>3, <1>4, <1>5, QueueEmptyStep DEF DriverSendClose, recvVars, sendVars,
        AbortWorkers

\* WINDOW_UPDATE carries the returned credit, which is then being committed.
LEMMA CreditSendStep ==
    ASSUME CreditInv, NEW e \in Ends, CreditSend(e)
    PROVE  CreditInv'
  <1>1. /\ ControlTypes /\ FlagTypes /\ CountTypes /\ HistoryTypes /\ WireType /\ CreditSafe
        /\ \A f \in Ends : Parts(f)
    BY Unpack
  <1>2. ControlTypes' /\ FlagTypes' /\ CreditSafe'
    BY <1>1 DEF CreditSend, ControlTypes, FlagTypes, CreditSafe,
                driverVars, sendVars, closeVars
  <1>3. CASE ~Live(e)
    <2>1. CountTypes'
      BY <1>1, <1>3 DEF CreditSend, CountTypes, sendVars
    <2>2. \A f \in Ends : InHand(f)' = InHand(f) /\ InHand(f) \in Nat
      BY <1>1, Counts DEF CreditSend, InHand
    <2>3. \A f \in Ends : WorkerCounts(f)'
      BY <1>1, <1>3 DEF CreditSend, Parts, WorkerCounts, ControlTypes
    <2> QED
      BY <1>1, <1>2, <1>3, <2>1, <2>2, <2>3, QuietStep, Counts DEF CreditSend, sendVars, history
  <1>4. CASE Live(e)
    <2> DEFINE n == returnedCredit[e]
    <2>1. /\ Queue(e, "WINDOW_UPDATE", n, "Normal")
          /\ granted' = [granted EXCEPT ![e] = granted[e] + n]
          /\ creditCount' = [creditCount EXCEPT ![e] = n]
          /\ returnedCredit' = [returnedCredit EXCEPT ![e] = 0]
          /\ creditPc' = [creditPc EXCEPT ![e] = "commit"]
      BY <1>4 DEF CreditSend
    <2>2. n \in 0 .. Window /\ n # 0 /\ granted[e] + n \in Nat /\ creditCount[e] = 0
      BY <1>1, Counts, Totals DEF CreditSend, Parts, WorkerCounts
    <2> HIDE DEF n
    <2>3. CountTypes' /\ HistoryTypes'
      BY <1>1, <2>1, <2>2, ZeroCount DEF CreditSend, CountTypes, HistoryTypes, sendVars
    <2>4. /\ Peer(e) \in Ends /\ Peer(e) # e
          /\ "WINDOW_UPDATE" \in FrameTypes /\ "Normal" \in Reasons
      BY PeerFacts DEF FrameTypes, Reasons
    <2>5. /\ sent'[e] = sent[e] + 0 /\ sent'[Peer(e)] = sent[Peer(e)]
          /\ granted'[e] = granted[e] + n /\ granted'[Peer(e)] = granted[Peer(e)]
      BY <1>1, <2>1, <2>4, Totals DEF CreditSend, HistoryTypes
    <2>6. n \in Nat
      BY <2>2, WindowAssumption
    <2>7. WireType' /\ \A f \in Ends : Tiled(f)'
      BY <2>1, <2>2, <2>4, <2>5, <2>6, QueueTiled DEF CreditSend
    <2>8. ASSUME NEW f \in Ends
          PROVE  Parts(f)'
      <3>1. Peer(f) \in Ends /\ Peer(Peer(f)) = f
        BY PeerFacts
      <3>2. /\ returnedCredit'[e] = 0 /\ creditCount'[e] = n /\ creditPc'[e] = "commit"
            /\ \A x \in Ends : x # e => /\ returnedCredit'[x] = returnedCredit[x]
                                        /\ creditCount'[x] = creditCount[x]
                                        /\ creditPc'[x] = creditPc[x]
                                        /\ granted'[x] = granted[x]
        BY <1>1, <2>1 DEF CountTypes, ControlTypes, HistoryTypes
      <3>3. LocalLedger(f)'
        BY <1>1, <2>2, <2>6, <3>2, Counts, WindowAssumption
        DEF CreditSend, Parts, LocalLedger, n
      <3>4. WorkerCounts(f)'
        BY <1>1, <3>2 DEF Parts, WorkerCounts
      <3>5. FlowBound(f)'
        <4>1. CASE Peer(f) = e
          BY <1>1, <2>2, <2>5, <2>6, <3>1, <3>2, <4>1, Counts, Totals, WindowAssumption
          DEF CreditSend, Parts, FlowBound, InHand, sendVars
        <4>2. CASE Peer(f) # e
          BY <1>1, <3>1, <3>2, <4>2 DEF CreditSend, Parts, FlowBound, InHand, sendVars
        <4> QED
          BY <4>1, <4>2
      <3> QED
        BY <2>7, <3>3, <3>4, <3>5 DEF Parts
    <2> QED
      BY <1>2, <2>3, <2>7, <2>8, Pack
  <1> QED
    BY <1>3, <1>4

\* The commit raises receive_credit by what was queued, within the window.
LEMMA CreditCommitStep ==
    ASSUME CreditInv, NEW e \in Ends, CreditCommit(e)
    PROVE  CreditInv'
  <1>1. /\ ControlTypes /\ FlagTypes /\ CountTypes /\ HistoryTypes /\ WireType /\ CreditSafe
        /\ \A f \in Ends : Parts(f)
    BY Unpack
  <1>2. ControlTypes' /\ FlagTypes' /\ CreditSafe' /\ WireType' /\ HistoryTypes'
    BY <1>1 DEF CreditCommit, ControlTypes, FlagTypes, CreditSafe, WireType, HistoryTypes,
                driverVars, sendVars, closeVars, history
  <1>3. receiveCredit[e] + creditCount[e] \in 0 .. Window
    BY <1>1, Counts, WindowAssumption DEF Parts, LocalLedger
  <1>4. /\ receiveCredit' = [receiveCredit EXCEPT ![e] = receiveCredit[e] + creditCount[e]]
        /\ creditCount' = [creditCount EXCEPT ![e] = 0]
        /\ creditPc' = [creditPc EXCEPT ![e] = "loop"]
    BY <1>3, WindowAssumption DEF CreditCommit
  <1>5. CountTypes'
    BY <1>1, <1>3, <1>4, ZeroCount DEF CreditCommit, CountTypes, sendVars
  <1>6. ASSUME NEW f \in Ends
        PROVE  Parts(f)'
    <2>1. Peer(f) \in Ends
      BY PeerFacts
    <2>2. \A x \in Ends : /\ receiveCredit'[x] + creditCount'[x] = receiveCredit[x] + creditCount[x]
                          /\ receiveCredit'[x] \in Nat /\ creditCount'[x] \in Nat
                          /\ receiveCredit[x] \in Nat /\ creditCount[x] \in Nat
      BY <1>1, <1>3, <1>4, Counts, WindowAssumption DEF CountTypes
    <2>3. Tiled(f)'
      BY <1>1 DEF CreditCommit, Parts, Tiled, history
    <2>4. LocalLedger(f)'
      BY <1>1, <2>2, Counts DEF CreditCommit, Parts, LocalLedger
    <2>5. FlowBound(f)'
      BY <1>1, <2>1, <2>2, Counts, Totals
      DEF CreditCommit, Parts, FlowBound, InHand, sendVars, history
    <2>6. WorkerCounts(f)'
      BY <1>1, <1>4 DEF CreditCommit, Parts, WorkerCounts, ControlTypes, CountTypes
    <2> QED
      BY <2>3, <2>4, <2>5, <2>6 DEF Parts
  <1> QED
    BY <1>2, <1>5, <1>6, Pack

-----------------------------------------------------------------------------
(* The driver takes a frame off the wire.                                  *)

\* A frame whose handling touches no ledger: it may carry bytes or credit that
\* a closing stream ignores.
LEMMA ReceiveStep ==
    ASSUME CreditInv, NEW e \in Ends, NEW type, Receive(e, type), Pop(e),
           ControlTypes', FlagTypes', CreditSafe', CountTypes',
           UNCHANGED <<inbound, returnedCredit, receiveCredit, available, creditCount,
                       creditPc, outPc, outCount>>
    PROVE  CreditInv'
  <1>1. /\ ControlTypes /\ FlagTypes /\ CountTypes /\ HistoryTypes /\ WireType /\ CreditSafe
        /\ \A f \in Ends : Parts(f)
    BY Unpack
  <1> DEFINE h == Head(wire[Peer(e)])
  <1>2. /\ WireType' /\ HistoryTypes'
        /\ \A f \in Ends : Tiled(f)'
        /\ h \in Frame
        /\ arrived'[e] = arrived[e] + DataLen(h) /\ credited'[e] = credited[e] + Credit(h)
        /\ arrived'[Peer(e)] = arrived[Peer(e)] /\ credited'[Peer(e)] = credited[Peer(e)]
    BY PopTiled
  <1>3. DataLen(h) \in Nat /\ Credit(h) \in Nat
    BY <1>2, FrameLens
  <1> HIDE DEF h
  <1>4. ASSUME NEW f \in Ends
        PROVE  Parts(f)'
    <2>1. Peer(f) \in Ends
      BY PeerFacts
    <2>2. \A x \in Ends : /\ arrived[x] \in Nat /\ arrived'[x] \in Nat /\ arrived[x] <= arrived'[x]
                          /\ credited[x] \in Nat /\ credited'[x] \in Nat
                          /\ credited[x] <= credited'[x]
      BY <1>1, <1>2, <1>3, Totals, PeerFacts
    <2>3. LocalLedger(f)' /\ WorkerCounts(f)'
      BY <1>1 DEF Parts, LocalLedger, WorkerCounts
    <2>4. InHand(f)' = InHand(f) /\ sent' = sent /\ granted' = granted
      BY DEF Receive, InHand
    <2>5. FlowBound(f)'
      <3>1. FlowBound(f)
        BY <1>1 DEF Parts
      <3>2. /\ InHand(f) \in Nat /\ available[f] \in Nat /\ sent[f] \in Nat
            /\ granted[Peer(f)] \in Nat /\ receiveCredit[Peer(f)] \in Nat
            /\ creditCount[Peer(f)] \in Nat
        BY <1>1, <2>1, Counts, Totals, WindowAssumption
      <3> QED
        BY <2>1, <2>2, <2>4, <3>1, <3>2 DEF FlowBound
    <2> QED
      BY <1>2, <2>3, <2>5 DEF Parts
  <1> QED
    BY <1>2, <1>4, Pack

\* OPEN_OK carries neither bytes nor credit.
LEMMA RecvOpenOkStep ==
    ASSUME CreditInv, NEW e \in Ends, RecvOpenOk(e)
    PROVE  CreditInv'
  <1>1. /\ ControlTypes /\ FlagTypes /\ CountTypes /\ HistoryTypes /\ WireType /\ CreditSafe
        /\ \A f \in Ends : Parts(f)
    BY Unpack
  <1>2. ControlTypes' /\ FlagTypes' /\ CreditSafe' /\ CountTypes'
    BY <1>1 DEF RecvOpenOk, EndSession, ControlTypes, FlagTypes, CreditSafe, CountTypes,
                recvVars, sendVars, closeVars, workerVars
  <1> QED
    BY <1>2, ReceiveStep DEF RecvOpenOk, recvVars, sendVars, workerVars

\* SHUTDOWN_WRITE only sets inbound_eof.
LEMMA RecvShutdownWriteStep ==
    ASSUME CreditInv, NEW e \in Ends, RecvShutdownWrite(e)
    PROVE  CreditInv'
  <1>1. /\ ControlTypes /\ FlagTypes /\ CountTypes /\ HistoryTypes /\ WireType /\ CreditSafe
        /\ \A f \in Ends : Parts(f)
    BY Unpack
  <1>2. ControlTypes' /\ FlagTypes' /\ CreditSafe' /\ CountTypes'
    BY <1>1 DEF RecvShutdownWrite, EndSession, ControlTypes, FlagTypes, CreditSafe, CountTypes,
                recvVars, sendVars, closeVars, workerVars
  <1> QED
    BY <1>2, ReceiveStep DEF RecvShutdownWrite, sendVars, workerVars

\* DATA fits the credit and the buffer: push_inbound accepts it.
LEMMA RecvDataStep ==
    ASSUME CreditInv, NEW e \in Ends, RecvData(e)
    PROVE  CreditInv'
  <1>1. /\ ControlTypes /\ FlagTypes /\ CountTypes /\ HistoryTypes /\ WireType /\ CreditSafe
        /\ \A f \in Ends : Parts(f)
    BY Unpack
  <1> DEFINE h == Head(wire[Peer(e)])
             n == h.count
             verdict == CASE n <= MaxData /\ stream[e] = "Open" -> PushInbound(e, n)
                          [] n <= MaxData /\ stream[e] = "Closing" -> "ok"
                          [] OTHER -> "stateError"
             kept == IF stream[e] = "Open" /\ verdict = "ok" THEN n ELSE 0
  <1>2. Peer(e) \in Ends /\ Peer(e) # e /\ Peer(Peer(e)) = e
    BY PeerFacts
  <1>3. Receive(e, "DATA") /\ Pop(e) /\ h.type = "DATA"
    BY DEF RecvData, Receive
  <1>4. /\ WireType' /\ HistoryTypes'
        /\ \A f \in Ends : Tiled(f)'
        /\ h \in Frame
        /\ arrived'[e] = arrived[e] + DataLen(h) /\ credited'[e] = credited[e] + Credit(h)
        /\ arrived'[Peer(e)] = arrived[Peer(e)] /\ credited'[Peer(e)] = credited[Peer(e)]
        /\ arrived'[e] <= sent[Peer(e)]
    BY <1>3, PopTiled
  <1>5. n \in Nat /\ DataLen(h) = n /\ Credit(h) = 0
    BY <1>3, <1>4, FrameLens DEF DataLen, Credit
  <1>6. /\ session' = [session EXCEPT ![e] = IF verdict = "ok" THEN session[e] ELSE verdict]
        /\ receiveCredit' = [receiveCredit EXCEPT ![e] = receiveCredit[e] - kept]
        /\ inbound' = [inbound EXCEPT ![e] = inbound[e] + kept]
        /\ stream[e] = "Open" => creditPc[e] # "commit"
    BY DEF RecvData, EndSession, ReceiveCreditGateFree
  <1>7. stream[e] = "Open" => n <= receiveCredit[e] /\ n <= Window - inbound[e]
    <2> SUFFICES ASSUME stream[e] = "Open"
                 PROVE  n <= receiveCredit[e] /\ n <= Window - inbound[e]
      OBVIOUS
    <2>1. creditCount[e] = 0
      BY <1>1, <1>6 DEF Parts, WorkerCounts
    <2>2. arrived[e] + n <= sent[Peer(e)] /\ credited[Peer(e)] <= granted[e]
      BY <1>4, <1>5, InFlight
    <2>3. /\ available[Peer(e)] + InHand(Peer(e)) + sent[Peer(e)] + granted[e]
               <= receiveCredit[e] + creditCount[e] + arrived[e] + credited[Peer(e)]
          /\ receiveCredit[e] + creditCount[e] + inbound[e] + returnedCredit[e] = Window
      BY <1>1, <1>2 DEF Parts, FlowBound, LocalLedger
    <2>4. /\ available[Peer(e)] \in Nat /\ InHand(Peer(e)) \in Nat /\ sent[Peer(e)] \in Nat
          /\ granted[e] \in Nat /\ receiveCredit[e] \in Nat /\ arrived[e] \in Nat
          /\ credited[Peer(e)] \in Nat /\ inbound[e] \in Nat /\ returnedCredit[e] \in Nat
      BY <1>1, <1>2, Counts, Totals, WindowAssumption
    <2> QED
      BY <1>5, <2>1, <2>2, <2>3, <2>4, WindowAssumption
  <1>8. /\ kept \in Nat /\ kept <= n
        /\ kept <= receiveCredit[e] /\ inbound[e] + kept <= Window
        /\ verdict \in {"ok", "stateError"}
    BY <1>1, <1>5, <1>7, Counts, WindowAssumption, MaxDataAssumption DEF PushInbound
  <1> HIDE DEF h, n, verdict, kept
  <1>9. receiveCredit[e] - kept \in 0 .. Window /\ inbound[e] + kept \in 0 .. Window
    BY <1>1, <1>8, Counts, WindowAssumption
  <1>10. CountTypes'
    BY <1>1, <1>6, <1>9 DEF RecvData, CountTypes, sendVars, workerVars
  <1>11. ControlTypes' /\ CreditSafe'
    BY <1>1, <1>6, <1>8 DEF RecvData, ControlTypes, CreditSafe, closeVars, workerVars
  <1>12. FlagTypes'
    BY <1>1 DEF RecvData, FlagTypes, sendVars, closeVars
  <1>13. ASSUME NEW f \in Ends
         PROVE  Parts(f)'
    <2>1. Peer(f) \in Ends
      BY PeerFacts
    <2>2. WorkerCounts(f)'
      BY <1>1 DEF RecvData, Parts, WorkerCounts, workerVars
    <2>3. LocalLedger(f)'
      <3>1. CASE f = e
        BY <1>1, <1>6, <1>8, <3>1, Counts, WindowAssumption
        DEF RecvData, Parts, LocalLedger, CountTypes, workerVars
      <3>2. CASE f # e
        BY <1>1, <1>6, <3>2 DEF RecvData, Parts, LocalLedger, CountTypes, workerVars
      <3> QED
        BY <3>1, <3>2
    <2>4. InHand(f)' = InHand(f) /\ sent' = sent /\ granted' = granted
          /\ available' = available /\ creditCount' = creditCount
      BY DEF RecvData, Receive, InHand, sendVars, workerVars
    <2>5. FlowBound(f)'
      <3>1. FlowBound(f)
        BY <1>1 DEF Parts
      <3>2. \A x \in Ends :
               /\ InHand(x) \in Nat /\ available[x] \in Nat /\ sent[x] \in Nat
               /\ granted[x] \in Nat /\ receiveCredit[x] \in Nat /\ creditCount[x] \in Nat
               /\ arrived[x] \in Nat /\ credited[x] \in Nat
        BY <1>1, Counts, Totals, WindowAssumption
      <3>3. CASE Peer(f) = e
        <4>1. f = Peer(e) /\ f # e
          BY <1>2, <3>3, PeerFacts
        <4>2. /\ receiveCredit'[e] = receiveCredit[e] - kept
              /\ arrived'[e] = arrived[e] + n
              /\ credited'[f] = credited[f]
          BY <1>1, <1>4, <1>5, <1>6, <4>1 DEF CountTypes
        <4> QED
          BY <1>2, <1>5, <1>8, <2>4, <3>1, <3>2, <3>3, <4>1, <4>2 DEF FlowBound
      <3>4. CASE Peer(f) # e
        <4>1. f = e /\ Peer(f) = Peer(e)
          BY <2>1, <3>4, PeerFacts
        <4>2. /\ receiveCredit'[Peer(e)] = receiveCredit[Peer(e)]
              /\ arrived'[Peer(e)] = arrived[Peer(e)]
              /\ credited'[e] = credited[e] + 0
          BY <1>1, <1>2, <1>4, <1>5, <1>6 DEF CountTypes
        <4> QED
          BY <1>2, <2>4, <3>1, <3>2, <4>1, <4>2 DEF FlowBound
      <3> QED
        BY <3>3, <3>4
    <2> QED
      BY <1>4, <2>2, <2>3, <2>5 DEF Parts
  <1> QED
    BY <1>4, <1>10, <1>11, <1>12, <1>13, Pack

\* The credit fits the window: CreditWindow::add accepts it.
LEMMA RecvWindowUpdateStep ==
    ASSUME CreditInv, NEW e \in Ends, RecvWindowUpdate(e)
    PROVE  CreditInv'
  <1>1. /\ ControlTypes /\ FlagTypes /\ CountTypes /\ HistoryTypes /\ WireType /\ CreditSafe
        /\ \A f \in Ends : Parts(f)
    BY Unpack
  <1> DEFINE h == Head(wire[Peer(e)])
             n == h.count
             verdict == CASE stream[e] = "Open" ->
                               IF n = 0 \/ available[e] + n > Window THEN "creditError" ELSE "ok"
                          [] stream[e] = "Closing" -> "ok"
                          [] OTHER -> "stateError"
             kept == IF stream[e] = "Open" /\ verdict = "ok" THEN n ELSE 0
  <1>2. Peer(e) \in Ends /\ Peer(e) # e /\ Peer(Peer(e)) = e
    BY PeerFacts
  <1>3. Receive(e, "WINDOW_UPDATE") /\ Pop(e) /\ h.type = "WINDOW_UPDATE"
    BY DEF RecvWindowUpdate, Receive
  <1>4. /\ WireType' /\ HistoryTypes'
        /\ \A f \in Ends : Tiled(f)'
        /\ h \in Frame
        /\ arrived'[e] = arrived[e] + DataLen(h) /\ credited'[e] = credited[e] + Credit(h)
        /\ arrived'[Peer(e)] = arrived[Peer(e)] /\ credited'[Peer(e)] = credited[Peer(e)]
        /\ credited'[e] <= granted[Peer(e)]
        /\ n # 0
    BY <1>3, PopTiled
  <1>5. n \in Nat /\ DataLen(h) = 0 /\ Credit(h) = n
    BY <1>3, <1>4, FrameLens DEF DataLen, Credit
  <1>6. available[e] + n <= Window
    <2>1. credited[e] + n <= granted[Peer(e)] /\ arrived[Peer(e)] <= sent[e]
      BY <1>4, <1>5, InFlight
    <2>2. /\ available[e] + InHand(e) + sent[e] + granted[Peer(e)]
               <= receiveCredit[Peer(e)] + creditCount[Peer(e)] + arrived[Peer(e)] + credited[e]
          /\ receiveCredit[Peer(e)] + creditCount[Peer(e)] + inbound[Peer(e)]
               + returnedCredit[Peer(e)] = Window
      BY <1>1, <1>2 DEF Parts, FlowBound, LocalLedger
    <2>3. /\ available[e] \in Nat /\ InHand(e) \in Nat /\ sent[e] \in Nat
          /\ granted[Peer(e)] \in Nat /\ receiveCredit[Peer(e)] \in Nat
          /\ creditCount[Peer(e)] \in Nat /\ arrived[Peer(e)] \in Nat /\ credited[e] \in Nat
          /\ inbound[Peer(e)] \in Nat /\ returnedCredit[Peer(e)] \in Nat
      BY <1>1, <1>2, Counts, Totals, WindowAssumption
    <2> QED
      BY <1>5, <2>1, <2>2, <2>3, WindowAssumption
  <1>7. verdict \in {"ok", "stateError"}
    BY <1>1, <1>4, <1>5, <1>6, Counts, WindowAssumption
  <1>8. kept \in Nat /\ kept <= n
    BY <1>5
  <1>9. /\ session' = [session EXCEPT ![e] = IF verdict = "ok" THEN session[e] ELSE verdict]
        /\ available' = [available EXCEPT ![e] = available[e] + kept]
    <2>1. session' = [session EXCEPT ![e] = IF verdict = "ok" THEN session[e] ELSE verdict]
      BY DEF RecvWindowUpdate, EndSession
    <2>2. available' = [available EXCEPT ![e] =
                           IF stream[e] = "Open" /\ verdict = "ok" THEN available[e] + n
                                                                   ELSE available[e]]
      BY DEF RecvWindowUpdate
    <2>3. available[e] + 0 = available[e]
      BY <1>1, Counts
    <2> QED
      BY <2>1, <2>2, <2>3
  <1> HIDE DEF h, n, verdict, kept
  <1>10. available[e] + kept \in 0 .. Window
    BY <1>1, <1>5, <1>6, <1>8, Counts, WindowAssumption
  <1>11. CountTypes'
    BY <1>1, <1>9, <1>10 DEF RecvWindowUpdate, CountTypes, recvVars, workerVars
  <1>12. ControlTypes' /\ CreditSafe' /\ FlagTypes'
    BY <1>1, <1>7, <1>9
    DEF RecvWindowUpdate, ControlTypes, CreditSafe, FlagTypes, recvVars, closeVars, workerVars
  <1>13. ASSUME NEW f \in Ends
         PROVE  Parts(f)'
    <2>1. Peer(f) \in Ends
      BY PeerFacts
    <2>2. WorkerCounts(f)' /\ LocalLedger(f)'
      BY <1>1 DEF RecvWindowUpdate, Parts, WorkerCounts, LocalLedger, recvVars, workerVars
    <2>3. InHand(f)' = InHand(f) /\ sent' = sent /\ granted' = granted
          /\ receiveCredit' = receiveCredit /\ creditCount' = creditCount
      BY DEF RecvWindowUpdate, Receive, InHand, recvVars, workerVars
    <2>4. FlowBound(f)'
      <3>1. FlowBound(f)
        BY <1>1 DEF Parts
      <3>2. \A x \in Ends :
               /\ InHand(x) \in Nat /\ available[x] \in Nat /\ sent[x] \in Nat
               /\ granted[x] \in Nat /\ receiveCredit[x] \in Nat /\ creditCount[x] \in Nat
               /\ arrived[x] \in Nat /\ credited[x] \in Nat
        BY <1>1, Counts, Totals, WindowAssumption
      <3>3. CASE f = e
        <4>1. /\ available'[e] = available[e] + kept
              /\ arrived'[Peer(e)] = arrived[Peer(e)]
              /\ credited'[e] = credited[e] + n
          BY <1>1, <1>4, <1>5, <1>9 DEF CountTypes
        <4> QED
          BY <1>2, <1>5, <1>8, <2>3, <3>1, <3>2, <3>3, <4>1 DEF FlowBound
      <3>4. CASE f # e
        <4>1. f = Peer(e) /\ Peer(f) = e
          BY <1>2, <3>4, PeerFacts
        <4>2. /\ available'[f] = available[f]
              /\ arrived'[e] = arrived[e] + 0
              /\ credited'[f] = credited[f]
          BY <1>1, <1>4, <1>5, <1>9, <3>4, <4>1 DEF CountTypes
        <4> QED
          BY <1>2, <2>3, <3>1, <3>2, <4>1, <4>2 DEF FlowBound
      <3> QED
        BY <3>3, <3>4
    <2> QED
      BY <1>4, <2>2, <2>4 DEF Parts
  <1> QED
    BY <1>4, <1>11, <1>12, <1>13, Pack

\* CLOSE taken off the wire and acknowledged at once: neither frame carries bytes.
LEMMA AckCloseStep ==
    ASSUME CreditInv, NEW e \in Ends, Receive(e, "CLOSE"),
           wire' = [wire EXCEPT
               ![Peer(e)] = Tail(@),
               ![e] = Append(@, [type |-> "CLOSE", count |-> 0, reason |-> "Normal",
                                 at |-> sent[e], credit |-> granted[e]])],
           ControlTypes', FlagTypes', CreditSafe', CountTypes',
           UNCHANGED <<inbound, returnedCredit, receiveCredit, available, creditCount,
                       creditPc, outPc, outCount>>
    PROVE  CreditInv'
  <1> DEFINE w == wire[Peer(e)]
             new == [type |-> "CLOSE", count |-> 0, reason |-> "Normal",
                     at |-> sent[e], credit |-> granted[e]]
  <1>1. /\ HistoryTypes /\ WireType
        /\ \A f \in Ends : Parts(f)
    BY Unpack
  <1>2. Peer(e) \in Ends /\ Peer(e) # e /\ Peer(Peer(e)) = e
    BY PeerFacts
  <1>3. \A f \in Ends : /\ sent[f] \in Nat /\ granted[f] \in Nat
                        /\ arrived[f] \in Nat /\ credited[f] \in Nat
    BY <1>1, Totals
  <1>4. w \in Seq(Frame) /\ w # <<>> /\ Head(w).type = "CLOSE" /\ wire[e] \in Seq(Frame)
    BY <1>1, <1>2 DEF WireType, Receive
  <1>5. DataLen(Head(w)) = 0 /\ Credit(Head(w)) = 0
    BY <1>4 DEF DataLen, Credit
  <1>6. new \in Frame
    BY <1>3 DEF Frame, FrameTypes, Reasons
  <1>7. /\ DataLen(new) = 0 /\ Credit(new) = 0
        /\ new.at = sent[e] /\ new.credit = granted[e] /\ new.type # "WINDOW_UPDATE"
    BY DEF DataLen, Credit
  <1>8. wire' = [wire EXCEPT ![Peer(e)] = Tail(w), ![e] = Append(wire[e], new)]
    BY <1>1, <1>2 DEF WireType
  <1>9. /\ \A f \in Ends : arrived'[f] = arrived[f] /\ credited'[f] = credited[f]
        /\ UNCHANGED <<written, sent, taken, granted>>
        /\ HistoryTypes'
    <2>1. arrived[e] + 0 = arrived[e] /\ credited[e] + 0 = credited[e]
      BY <1>3
    <2>2. /\ arrived' = [arrived EXCEPT ![e] = arrived[e]]
          /\ credited' = [credited EXCEPT ![e] = credited[e]]
          /\ UNCHANGED <<written, sent, taken, granted>>
      BY <1>5, <2>1 DEF Receive
    <2> QED
      BY <1>1, <2>2 DEF HistoryTypes
  <1> HIDE DEF w, new
  <1>10. Tail(w) \in Seq(Frame) /\ Append(wire[e], new) \in Seq(Frame)
    BY <1>4, <1>6
  <1>11. /\ wire'[e] = Append(wire[e], new) /\ wire'[Peer(e)] = Tail(w)
         /\ WireType'
    BY <1>1, <1>2, <1>8, <1>10 DEF WireType
  <1>12. Tiling(w, sent[Peer(e)], granted[Peer(e)], arrived[e], credited[e])
    BY <1>1, <1>2 DEF Parts, Tiled, w
  <1>13. Tiling(Tail(w), sent[Peer(e)], granted[Peer(e)], arrived[e] + 0, credited[e] + 0)
    BY <1>2, <1>3, <1>4, <1>5, <1>12, TailTiling
  <1>14. Tiling(wire[e], sent[e], granted[e], arrived[Peer(e)], credited[Peer(e)])
    BY <1>1 DEF Parts, Tiled
  <1>15. Tiling(Append(wire[e], new), sent[e] + 0, granted[e] + 0,
                arrived[Peer(e)], credited[Peer(e)])
    BY <1>2, <1>3, <1>4, <1>6, <1>7, <1>14, AppendTiling
  <1>16. \A f \in Ends : /\ sent[f] + 0 = sent[f] /\ granted[f] + 0 = granted[f]
                         /\ arrived[f] + 0 = arrived[f] /\ credited[f] + 0 = credited[f]
    BY <1>3
  <1>17. Tiled(e)' /\ Tiled(Peer(e))'
    BY <1>2, <1>9, <1>11, <1>13, <1>15, <1>16 DEF Tiled
  <1>18. ASSUME NEW f \in Ends
         PROVE  Parts(f)'
    <2>1. Tiled(f)' /\ Peer(f) \in Ends
      BY <1>17, PeerFacts
    <2>2. LocalLedger(f)' /\ FlowBound(f)' /\ WorkerCounts(f)'
      BY <1>1, <1>9, <2>1 DEF Parts, LocalLedger, FlowBound, InHand, WorkerCounts
    <2> QED
      BY <2>1, <2>2 DEF Parts
  <1> QED
    BY <1>9, <1>11, <1>18, Pack

\* CLOSE retires the stream, answered by the driver or at once.
LEMMA RecvCloseStep ==
    ASSUME CreditInv, NEW e \in Ends, RecvClose(e)
    PROVE  CreditInv'
  <1>1. /\ ControlTypes /\ FlagTypes /\ CountTypes /\ HistoryTypes /\ WireType /\ CreditSafe
        /\ \A f \in Ends : Parts(f)
    BY Unpack
  <1>2. /\ Receive(e, "CLOSE")
        /\ stream' = [stream EXCEPT ![e] = "Gone"]
        /\ UNCHANGED <<inbound, returnedCredit, receiveCredit, writeShutdown, shutdownSent,
                       available, dropped, closeQueued, closeReason, outPc, outCount,
                       creditPc, creditCount>>
    BY DEF RecvClose, workerVars
  <1>3. CASE stream[e] = "Open"
    <2>1. /\ Pop(e) /\ UNCHANGED session
          /\ RemoteClose(e, Head(wire[Peer(e)]).reason # "Normal")
          /\ driver' = [driver EXCEPT ![e] = "gate"]
      BY <1>3 DEF RecvClose
    <2>2. ControlTypes' /\ CreditSafe'
      BY <1>1, <1>2, <2>1 DEF ControlTypes, CreditSafe
    <2>3. FlagTypes'
      BY <1>1, <1>2, <2>1 DEF FlagTypes, RemoteClose
    <2>4. CountTypes'
      BY <1>1, <1>2, <2>1, ZeroCount DEF CountTypes, RemoteClose
    <2> QED
      BY <1>2, <2>1, <2>2, <2>3, <2>4, ReceiveStep
  <1>4. CASE stream[e] # "Open"
    <2> DEFINE acked == stream[e] = "Opening" \/ (e = "agent" /\ stream[e] = "Gone")
    <2>1. /\ EndSession(e, IF e = "client" /\ stream[e] = "Gone" THEN "stateError" ELSE "ok")
          /\ UNCHANGED <<driver, remoteClosed, inboundEof, failure, outbound, pendingOutbound>>
          /\ ~acked => Pop(e)
          /\ acked => wire' = [wire EXCEPT
                 ![Peer(e)] = Tail(@),
                 ![e] = Append(@, [type |-> "CLOSE", count |-> 0, reason |-> "Normal",
                                   at |-> sent[e], credit |-> granted[e]])]
      BY <1>4 DEF RecvClose
    <2>2. ControlTypes' /\ CreditSafe'
      BY <1>1, <1>2, <2>1 DEF ControlTypes, CreditSafe, EndSession
    <2>3. FlagTypes' /\ CountTypes'
      BY <1>1, <1>2, <2>1 DEF FlagTypes, CountTypes
    <2> HIDE DEF acked
    <2>4. CASE acked
      BY <1>2, <2>1, <2>2, <2>3, <2>4, AckCloseStep
    <2>5. CASE ~acked
      BY <1>2, <2>1, <2>2, <2>3, <2>5, ReceiveStep
    <2> QED
      BY <2>4, <2>5
  <1> QED
    BY <1>3, <1>4

-----------------------------------------------------------------------------
\* CreditInv is inductive: one step per actor, one lemma per action.
LEMMA CreditInvStep == CreditInv /\ [Next]_vars => CreditInv'
  <1> SUFFICES ASSUME CreditInv, [Next]_vars PROVE CreditInv'
    OBVIOUS
  <1>1. CASE UNCHANGED vars
    <2>1. UNCHANGED <<driverVars, wire, recvVars, sendVars, closeVars, workerVars, history>>
      BY <1>1 DEF vars
    <2>2. /\ ControlTypes /\ FlagTypes /\ CountTypes /\ HistoryTypes /\ WireType /\ CreditSafe
          /\ \A f \in Ends : Parts(f)
      BY Unpack
    <2>3. ControlTypes' /\ FlagTypes' /\ CreditSafe' /\ CountTypes'
      BY <2>1, <2>2 DEF ControlTypes, FlagTypes, CountTypes, CreditSafe, driverVars, recvVars,
                        sendVars, closeVars, workerVars
    <2>4. \A f \in Ends : InHand(f)' = InHand(f) /\ InHand(f) \in Nat
      BY <2>1, <2>2, Counts DEF InHand, workerVars
    <2>5. \A f \in Ends : WorkerCounts(f)'
      BY <2>1, <2>2 DEF Parts, WorkerCounts, workerVars, recvVars
    <2> QED
      BY <2>1, <2>3, <2>4, <2>5, QuietStep DEF recvVars, sendVars, workerVars
  <1>2. ASSUME NEW e \in Ends, Application(e) PROVE CreditInv'
    <2>1. CASE \E n \in 1 .. Window : PollRead(e, n) \/ PollWrite(e, n)
      BY <2>1, PollReadStep, PollWriteStep
    <2>2. CASE PollShutdown(e)
      BY <2>2, PollShutdownStep
    <2>3. CASE \E reason \in DropReasons : DropLocal(e, reason)
      BY <2>3, DropLocalStep
    <2> QED
      BY <1>2, <2>1, <2>2, <2>3 DEF Application
  <1>3. ASSUME NEW e \in Ends, OutboundWorker(e) PROVE CreditInv'
    BY <1>3, OutboundDecideStep, TakeUpToStep, DataLockGateStep, DataSendStep, DataMarkStep,
       ShutdownLockGateStep, ShutdownSendStep, ShutdownMarkStep, CloseLockGateStep,
       CloseSendStep DEF OutboundWorker
  <1>4. ASSUME NEW e \in Ends, CreditWorker(e) PROVE CreditInv'
    BY <1>4, CreditReserveStep, CreditSendStep, CreditCommitStep DEF CreditWorker
  <1>5. ASSUME NEW e \in Ends, Driver(e) PROVE CreditInv'
    BY <1>5, RecvOpenOkStep, RecvDataStep, RecvShutdownWriteStep, RecvWindowUpdateStep,
       RecvCloseStep, DriverLockGateStep, DriverSendCloseStep, WorkerEventStep DEF Driver
  <1>6. ASSUME NEW e \in Ends, CancelOpen(e) PROVE CreditInv'
    BY <1>6, CancelOpenStep
  <1>7. ASSUME NEW e \in Ends, TearDown(e) PROVE CreditInv'
    BY <1>7, TearDownStep
  <1>8. CASE Next
    BY <1>8, <1>2, <1>3, <1>4, <1>5, <1>6, <1>7 DEF Next
  <1> QED
    BY <1>1, <1>8

(***************************************************************************)
(* In every reachable state, for every window, frame size and amount of    *)
(* data: the frames in flight tile what was queued and not yet handled,    *)
(* each receiver's window is split exactly between credit, buffer and      *)
(* bytes to return, and no sender holds more credit than was advertised.   *)
(***************************************************************************)
THEOREM CreditInvariant == Spec => []CreditInv
  BY InitCredit, CreditInvStep, PTL DEF Spec

(***************************************************************************)
(* The buffers and counters of StreamState never leave their ranges; none  *)
(* of the subtractions in poll_read, take_up_to, push_inbound underflows   *)
(* and no buffer outgrows the negotiated window.                           *)
(***************************************************************************)
THEOREM TypeCorrect == Spec => []TypeOK
  <1>1. CreditInv => TypeOK
    BY DEF CreditInv
  <1> QED
    BY <1>1, CreditInvariant, PTL

(***************************************************************************)
(* push_inbound and CreditWindow::add never reject a frame of an honest    *)
(* peer, whatever the window, the frame size and the interleaving.         *)
(***************************************************************************)
THEOREM CreditSafety == Spec => []CreditSafe
  <1>1. CreditInv => CreditSafe
    BY DEF CreditInv
  <1> QED
    BY <1>1, CreditInvariant, PTL
-----------------------------------------------------------------------------
(* The life of the stream: the inductive invariant behind FramesLawful,    *)
(* NothingLost and CreditConserved.                                        *)

DataStages == {"dataSend", "dataMark"}
ShutStages == {"shutSend", "shutMark"}
TakenStages == {"take", "dataGate", "dataSend", "dataMark"}

\* Once close_queued is set no other frame is on its way into the queue, and
\* the worker that set it for a stream not remotely closed has no way back.
CloseOnce(e) ==
    /\ closeQueued[e] => ~Live(e) /\ outPc[e] \notin DataStages \cup ShutStages
    /\ closeQueued[e] /\ ~remoteClosed[e] => outPc[e] \in {"closeSend", "queued", "end"}
    /\ closeQueued[e] /\ ~dropped[e] => stream[e] = "Gone"
    /\ driver[e] = "send" => closeQueued[e] /\ outPc[e] # "closeSend"
    /\ outPc[e] = "closeGate" => dropped[e]
    /\ outPc[e] \in {"closeSend", "queued"} => dropped[e] /\ closeQueued[e]

\* The driver's map agrees with the state the actors share.
Recorded(e) ==
    /\ driver[e] \in {"gate", "send"} =>
          /\ remoteClosed[e]
          /\ stream[e] = "Gone" \/ (stream[e] = "Closing" /\ dropped[e])
    /\ outPc[e] = "stopped" => remoteClosed[e]
    /\ remoteClosed[e] => stream[e] \in {"Closing", "Gone"} \/ driver[e] = "ended"
    /\ remoteClosed[e] /\ ~failure[e] => stream[e] = "Gone"
    /\ stream[e] = "Closing" => dropped[e]
    /\ stream[e] = "Gone" => ~Live(e)

\* Before OPEN_OK nothing of the client's stream is in use.
Untouched(e) ==
    stream[e] = "Opening" =>
        /\ e = "client"
        /\ Live(e) /\ ~closeQueued[e] /\ ~inboundEof[e] /\ ~writeShutdown[e]
        /\ outPc[e] \in {"loop", "end"} /\ creditPc[e] \in {"loop", "end"}
        /\ driver[e] \in {"idle", "ended"}

\* Every byte that was accepted is sent, buffered or in the worker's hand, and
\* pending_outbound counts those a flush waits for.
OutboundLedger(e) ==
    /\ Live(e) =>
          /\ written[e] = sent[e] + outbound[e] + (IF outPc[e] = "dataSend" THEN outCount[e] ELSE 0)
          /\ pendingOutbound[e] = outbound[e] + (IF outPc[e] \in DataStages THEN outCount[e] ELSE 0)
          /\ outPc[e] \in {"take", "dataGate"} => outCount[e] <= outbound[e]
    /\ outPc[e] \in TakenStages => outCount[e] # 0 /\ outCount[e] <= MaxData

\* The half-close is behind the last byte.
ShutLast(e) ==
    /\ shutdownSent[e] \/ outPc[e] \in ShutStages =>
          written[e] = sent[e] /\ writeShutdown[e] /\ outbound[e] = 0
    /\ shutdownSent[e] => outPc[e] \notin TakenStages \cup ShutStages \cup {"shutGate"}
    /\ outPc[e] = "shutGate" => writeShutdown[e] /\ outbound[e] = 0

\* What arrived was read or is buffered, until the application lets go.
InboundLedger(e) == dropped[e] \/ arrived[e] = taken[e] + inbound[e]

\* CLOSE was queued, or never will be.
CloseDone(e) == closeQueued[e] /\ outPc[e] # "closeSend" /\ driver[e] # "send"

\* SHUTDOWN_WRITE was queued, and every accepted byte before it.
ShutDone(e) ==
    /\ written[e] = sent[e] /\ writeShutdown[e] /\ outbound[e] = 0
    /\ shutdownSent[e] \/ outPc[e] \in {"shutMark", "end"}

\* The frames of e that its peer has not handled, against the states of both.
CloseFrames(e) ==
    /\ \A i \in 1 .. Len(wire[e]) :
          wire[e][i].type = "CLOSE" => i = Len(wire[e]) /\ CloseDone(e)
    /\ stream[Peer(e)] = "Gone" => wire[e] = <<>> /\ CloseDone(e)

OpenFrames(e) ==
    /\ \A i \in 1 .. Len(wire[e]) :
          wire[e][i].type = "OPEN_OK" => i = 1 /\ stream[Peer(e)] = "Opening"
    /\ stream[Peer(e)] = "Opening" => wire[e] # <<>> /\ wire[e][1].type = "OPEN_OK"

DataFrames(e) ==
    /\ \A i \in 1 .. Len(wire[e]) :
          /\ wire[e][i].type = "DATA" => wire[e][i].count <= MaxData
          /\ wire[e][i].type = "SHUTDOWN_WRITE" =>
                /\ wire[e][i].at = sent[e] /\ ShutDone(e)
                /\ \A j \in 1 .. Len(wire[e]) :
                      j > i => wire[e][j].type \notin {"DATA", "SHUTDOWN_WRITE"}
    /\ inboundEof[Peer(e)] /\ ~remoteClosed[Peer(e)] =>
          /\ arrived[Peer(e)] = sent[e] /\ ShutDone(e)
          /\ \A i \in 1 .. Len(wire[e]) : wire[e][i].type \notin {"DATA", "SHUTDOWN_WRITE"}

\* A stream is closed under an application only by an application.
ClosedByPeer(e) == stream[e] = "Gone" /\ ~dropped[e] => dropped[Peer(e)]

\* CreditConserved, of one direction.
Conserved(e) ==
    Live(e) /\ Live(Peer(e)) =>
        available[e] + InHand(e) + sent[e] + inbound[Peer(e)] + returnedCredit[Peer(e)]
            + granted[Peer(e)]
        = Window + arrived[Peer(e)] + credited[e]

Local(e) ==
    /\ CloseOnce(e) /\ Recorded(e) /\ Untouched(e)
    /\ OutboundLedger(e) /\ ShutLast(e) /\ InboundLedger(e)

Frames(e) == CloseFrames(e) /\ OpenFrames(e) /\ DataFrames(e)

(***************************************************************************)
(* The life of the stream, at both ends.                                   *)
(***************************************************************************)
StreamInv ==
    /\ CreditInv /\ StateSafe
    /\ \A e \in Ends : Local(e) /\ Frames(e) /\ ClosedByPeer(e) /\ Conserved(e)

-----------------------------------------------------------------------------
(* The steps of one end e against StreamInv.  Its peer keeps everything    *)
(* but the frames that e takes off the wire.                               *)

ControlSame(f) ==
    /\ stream'[f] = stream[f] /\ driver'[f] = driver[f] /\ session'[f] = session[f]
    /\ outPc'[f] = outPc[f] /\ creditPc'[f] = creditPc[f]
    /\ dropped'[f] = dropped[f] /\ closeQueued'[f] = closeQueued[f]
    /\ remoteClosed'[f] = remoteClosed[f] /\ failure'[f] = failure[f]

SendSame(f) ==
    /\ written'[f] = written[f] /\ sent'[f] = sent[f] /\ outbound'[f] = outbound[f]
    /\ pendingOutbound'[f] = pendingOutbound[f] /\ outCount'[f] = outCount[f]
    /\ writeShutdown'[f] = writeShutdown[f] /\ shutdownSent'[f] = shutdownSent[f]

RecvSame(f) ==
    /\ inbound'[f] = inbound[f] /\ inboundEof'[f] = inboundEof[f]
    /\ arrived'[f] = arrived[f] /\ taken'[f] = taken[f]

CreditSame(f) ==
    /\ available'[f] = available[f] /\ returnedCredit'[f] = returnedCredit[f]
    /\ granted'[f] = granted[f] /\ credited'[f] = credited[f]

Same(f) == ControlSame(f) /\ SendSame(f) /\ RecvSame(f) /\ CreditSame(f)

\* What the arithmetic of an end needs to know of its counters.
Numbers(f) ==
    /\ inbound[f] \in Nat /\ outbound[f] \in Nat /\ returnedCredit[f] \in Nat
    /\ available[f] \in Nat /\ outCount[f] \in Nat /\ pendingOutbound[f] \in Nat
    /\ written[f] \in Nat /\ sent[f] \in Nat /\ arrived[f] \in Nat
    /\ taken[f] \in Nat /\ granted[f] \in Nat /\ credited[f] \in Nat
    /\ InHand(f) \in Nat

\* An end's counters and totals are numbers.
LEMMA AllNumbers ==
    ASSUME CountTypes, HistoryTypes
    PROVE  \A f \in Ends : Numbers(f)
  <1> TAKE f \in Ends
  <1>1. /\ inbound[f] \in Nat /\ outbound[f] \in Nat /\ returnedCredit[f] \in Nat
        /\ available[f] \in Nat /\ outCount[f] \in Nat /\ pendingOutbound[f] \in Nat
        /\ InHand(f) \in Nat
    BY Counts, WindowAssumption
  <1>2. /\ written[f] \in Nat /\ sent[f] \in Nat /\ arrived[f] \in Nat
        /\ taken[f] \in Nat /\ granted[f] \in Nat /\ credited[f] \in Nat
    BY Totals
  <1> QED
    BY <1>1, <1>2 DEF Numbers

\* StreamInv, in the parts the steps below work on.
LEMMA Opened ==
    ASSUME StreamInv, NEW e \in Ends
    PROVE  /\ CreditInv /\ ControlTypes /\ FlagTypes /\ CountTypes /\ HistoryTypes /\ WireType
           /\ Peer(e) \in Ends /\ Peer(e) # e /\ Peer(Peer(e)) = e
           /\ Numbers(e) /\ Numbers(Peer(e))
           /\ CloseOnce(e) /\ Recorded(e) /\ Untouched(e)
           /\ OutboundLedger(e) /\ ShutLast(e) /\ InboundLedger(e)
           /\ Frames(e) /\ Frames(Peer(e))
           /\ wire[e] \in Seq(Frame) /\ wire[Peer(e)] \in Seq(Frame)
           /\ session[e] # "stateError"
  <1>1. Peer(e) \in Ends /\ Peer(e) # e /\ Peer(Peer(e)) = e
    BY PeerFacts
  <1>2. CreditInv
    BY DEF StreamInv
  <1>3. ControlTypes /\ FlagTypes /\ CountTypes /\ HistoryTypes /\ WireType
    BY <1>2, Unpack
  <1>4. Numbers(e) /\ Numbers(Peer(e))
    BY <1>1, <1>3, AllNumbers
  <1> QED
    BY <1>1, <1>2, <1>3, <1>4 DEF StreamInv, StateSafe, Local, WireType

\* An end at which nothing happens keeps its own part of the invariant.
LEMMA LocalSame ==
    ASSUME NEW f \in Ends, Local(f), Same(f)
    PROVE  Local(f)'
  <1>1. CloseOnce(f)' /\ Recorded(f)' /\ Untouched(f)'
    BY DEF Local, Same, ControlSame, SendSame, RecvSame, CloseOnce, Recorded, Untouched, Live
  <1>2. OutboundLedger(f)' /\ ShutLast(f)' /\ InboundLedger(f)'
    BY DEF Local, Same, ControlSame, SendSame, RecvSame, OutboundLedger, ShutLast,
           InboundLedger, Live
  <1> QED
    BY <1>1, <1>2 DEF Local

\* The frames of f stay lawful when none of them moves, what was said of f stays
\* said, and its peer neither opens nor retires the stream nor reaches EOF.
LEMMA FramesKept ==
    ASSUME NEW f \in Ends, Frames(f),
           wire'[f] = wire[f], sent'[f] = sent[f], arrived'[Peer(f)] = arrived[Peer(f)],
           CloseDone(f) => CloseDone(f)', ShutDone(f) => ShutDone(f)',
           stream'[Peer(f)] = "Gone" => stream[Peer(f)] = "Gone",
           stream'[Peer(f)] = "Opening" <=> stream[Peer(f)] = "Opening",
           inboundEof'[Peer(f)] /\ ~remoteClosed'[Peer(f)]
               => inboundEof[Peer(f)] /\ ~remoteClosed[Peer(f)]
    PROVE  Frames(f)'
  <1>1. CloseFrames(f)'
    BY DEF Frames, CloseFrames
  <1>2. OpenFrames(f)'
    BY DEF Frames, OpenFrames
  <1>3. DataFrames(f)'
    BY DEF Frames, DataFrames
  <1> QED
    BY <1>1, <1>2, <1>3 DEF Frames

\* One frame queued by e behind the others keeps them lawful if e has queued no
\* CLOSE and, for DATA and SHUTDOWN_WRITE, no SHUTDOWN_WRITE.
LEMMA FramesQueued ==
    ASSUME NEW e \in Ends, Frames(e), wire[e] \in Seq(Frame), NEW new \in Frame,
           wire'[e] = Append(wire[e], new),
           ~CloseDone(e),
           new.type # "OPEN_OK",
           new.type = "CLOSE" => CloseDone(e)',
           new.type = "DATA" => new.count <= MaxData,
           new.type \in {"DATA", "SHUTDOWN_WRITE"} => ~ShutDone(e),
           new.type = "SHUTDOWN_WRITE" => new.at = sent'[e] /\ ShutDone(e)',
           ShutDone(e) => ShutDone(e)' /\ sent'[e] = sent[e],
           stream'[Peer(e)] = stream[Peer(e)], arrived'[Peer(e)] = arrived[Peer(e)],
           inboundEof'[Peer(e)] = inboundEof[Peer(e)],
           remoteClosed'[Peer(e)] = remoteClosed[Peer(e)]
    PROVE  Frames(e)'
  <1> DEFINE w == wire[e]
             v == Append(w, new)
  <1>1. /\ Len(w) \in Nat /\ Len(v) = Len(w) + 1 /\ v # <<>>
        /\ \A i \in 1 .. Len(w) : v[i] = w[i]
        /\ v[Len(w) + 1] = new
    OBVIOUS
  <1>2. wire'[e] = v
    OBVIOUS
  <1>3. \A i \in 1 .. Len(v) : i \in 1 .. Len(w) \/ i = Len(v)
    BY <1>1
  <1>4. /\ \A i \in 1 .. Len(w) : w[i].type # "CLOSE"
        /\ stream[Peer(e)] # "Gone"
    BY DEF Frames, CloseFrames
  <1>5. /\ \A i \in 1 .. Len(w) :
              w[i].type = "OPEN_OK" => i = 1 /\ stream[Peer(e)] = "Opening"
        /\ stream[Peer(e)] = "Opening" => w # <<>> /\ w[1].type = "OPEN_OK"
    BY DEF Frames, OpenFrames
  <1>6. /\ \A i \in 1 .. Len(w) :
              /\ w[i].type = "DATA" => w[i].count <= MaxData
              /\ w[i].type = "SHUTDOWN_WRITE" =>
                    /\ w[i].at = sent[e] /\ ShutDone(e)
                    /\ \A j \in 1 .. Len(w) :
                          j > i => w[j].type \notin {"DATA", "SHUTDOWN_WRITE"}
        /\ inboundEof[Peer(e)] /\ ~remoteClosed[Peer(e)] =>
              /\ arrived[Peer(e)] = sent[e] /\ ShutDone(e)
              /\ \A i \in 1 .. Len(w) : w[i].type \notin {"DATA", "SHUTDOWN_WRITE"}
    BY DEF Frames, DataFrames
  <1>7. w # <<>> => 1 \in 1 .. Len(w)
    OBVIOUS
  <1> HIDE DEF v, w
  <1>8. CloseFrames(e)'
    BY <1>1, <1>2, <1>3, <1>4 DEF CloseFrames
  <1>9. OpenFrames(e)'
    BY <1>1, <1>2, <1>3, <1>5, <1>7 DEF OpenFrames
  <1>10. ASSUME NEW i \in 1 .. Len(v)
         PROVE  /\ v[i].type = "DATA" => v[i].count <= MaxData
                /\ v[i].type = "SHUTDOWN_WRITE" =>
                      /\ v[i].at = sent'[e] /\ ShutDone(e)'
                      /\ \A j \in 1 .. Len(v) :
                            j > i => v[j].type \notin {"DATA", "SHUTDOWN_WRITE"}
    <2>1. CASE i \in 1 .. Len(w)
      BY <1>1, <1>3, <1>6, <2>1
    <2>2. CASE i = Len(v)
      BY <1>1, <2>2
    <2> QED
      BY <1>3, <2>1, <2>2
  <1>11. inboundEof[Peer(e)] /\ ~remoteClosed[Peer(e)] =>
            /\ arrived[Peer(e)] = sent'[e] /\ ShutDone(e)'
            /\ \A i \in 1 .. Len(v) : v[i].type \notin {"DATA", "SHUTDOWN_WRITE"}
    BY <1>1, <1>3, <1>6
  <1>12. DataFrames(e)'
    BY <1>2, <1>10, <1>11 DEF DataFrames
  <1> QED
    BY <1>8, <1>9, <1>12 DEF Frames

\* The first frame of e handled by its peer: the rest stays lawful.
LEMMA FramesPopped ==
    ASSUME NEW e \in Ends, Frames(e), wire[e] \in Seq(Frame), wire[e] # <<>>,
           wire'[e] = Tail(wire[e]), sent'[e] = sent[e],
           CloseDone(e) => CloseDone(e)', ShutDone(e) => ShutDone(e)',
           stream'[Peer(e)] # "Opening",
           stream'[Peer(e)] = "Gone" => Head(wire[e]).type = "CLOSE",
           inboundEof'[Peer(e)] /\ ~remoteClosed'[Peer(e)] =>
               /\ arrived'[Peer(e)] = sent[e]
               /\ \/ inboundEof[Peer(e)] /\ ~remoteClosed[Peer(e)]
                  \/ Head(wire[e]).type = "SHUTDOWN_WRITE"
    PROVE  Frames(e)'
  <1> DEFINE w == wire[e]
             v == Tail(w)
  <1>1. /\ Len(w) \in Nat /\ Len(w) >= 1 /\ Len(v) = Len(w) - 1
        /\ \A i \in 1 .. Len(v) : v[i] = w[i + 1]
        /\ Head(w) = w[1] /\ 1 \in 1 .. Len(w)
    OBVIOUS
  <1>2. wire'[e] = v /\ v \in Seq(Frame)
    OBVIOUS
  <1>3. \A i \in 1 .. Len(v) : i + 1 \in 1 .. Len(w) /\ i + 1 # 1
    BY <1>1
  <1> HIDE DEF v
  <1>10. Len(w) = 1 => v = <<>>
    BY <1>1, <1>2
  <1>4. CloseFrames(e)'
    <2>1. \A i \in 1 .. Len(w) : w[i].type = "CLOSE" => i = Len(w) /\ CloseDone(e)
      BY DEF Frames, CloseFrames
    <2> QED
      BY <1>1, <1>2, <1>3, <1>10, <2>1 DEF CloseFrames
  <1>5. OpenFrames(e)'
    <2>1. \A i \in 1 .. Len(w) : w[i].type = "OPEN_OK" => i = 1
      BY DEF Frames, OpenFrames
    <2> QED
      BY <1>1, <1>2, <1>3, <2>1 DEF OpenFrames
  <1>6. /\ \A i \in 1 .. Len(w) :
              /\ w[i].type = "DATA" => w[i].count <= MaxData
              /\ w[i].type = "SHUTDOWN_WRITE" =>
                    /\ w[i].at = sent[e] /\ ShutDone(e)
                    /\ \A j \in 1 .. Len(w) :
                          j > i => w[j].type \notin {"DATA", "SHUTDOWN_WRITE"}
        /\ inboundEof[Peer(e)] /\ ~remoteClosed[Peer(e)] =>
              /\ ShutDone(e)
              /\ \A i \in 1 .. Len(w) : w[i].type \notin {"DATA", "SHUTDOWN_WRITE"}
    BY DEF Frames, DataFrames
  <1> HIDE DEF w
  <1>7. ASSUME NEW i \in 1 .. Len(v)
        PROVE  /\ v[i].type = "DATA" => v[i].count <= MaxData
               /\ v[i].type = "SHUTDOWN_WRITE" =>
                     /\ v[i].at = sent[e] /\ ShutDone(e)
                     /\ \A j \in 1 .. Len(v) :
                           j > i => v[j].type \notin {"DATA", "SHUTDOWN_WRITE"}
    <2>1. i + 1 \in 1 .. Len(w) /\ v[i] = w[i + 1]
      BY <1>1, <1>3
    <2>2. \A j \in 1 .. Len(v) : j > i =>
             /\ j + 1 \in 1 .. Len(w) /\ v[j] = w[j + 1]
             /\ j + 1 > i + 1
      BY <1>1, <1>3
    <2> QED
      BY <1>6, <2>1, <2>2
  <1>8. ASSUME inboundEof'[Peer(e)], ~remoteClosed'[Peer(e)]
        PROVE  /\ arrived'[Peer(e)] = sent[e] /\ ShutDone(e)
               /\ \A i \in 1 .. Len(v) : v[i].type \notin {"DATA", "SHUTDOWN_WRITE"}
    <2>1. CASE inboundEof[Peer(e)] /\ ~remoteClosed[Peer(e)]
      BY <1>1, <1>3, <1>6, <1>8, <2>1
    <2>2. CASE Head(w).type = "SHUTDOWN_WRITE"
      <3>1. \A i \in 1 .. Len(v) : i + 1 \in 1 .. Len(w) /\ i + 1 > 1
        BY <1>1
      <3> QED
        BY <1>1, <1>6, <1>8, <2>2, <3>1
    <2> QED
      BY <1>8, <2>1, <2>2 DEF w
  <1>9. DataFrames(e)'
    BY <1>2, <1>7, <1>8 DEF DataFrames
  <1> QED
    BY <1>4, <1>5, <1>9 DEF Frames

-----------------------------------------------------------------------------
(* Steps that queue and handle no frame.                                   *)

\* What a step of e that leaves the wire alone must keep.
Settled(e) ==
    /\ stream'[e] = "Gone" => stream[e] = "Gone"
    /\ stream'[e] = "Opening" <=> stream[e] = "Opening"
    /\ dropped[e] => dropped'[e]
    /\ CloseDone(e) => CloseDone(e)'
    /\ ShutDone(e) => ShutDone(e)'
    /\ sent'[e] = sent[e] /\ arrived'[e] = arrived[e]
    /\ granted'[e] = granted[e] /\ credited'[e] = credited[e]
    /\ inboundEof'[e] /\ ~remoteClosed'[e] => inboundEof[e] /\ ~remoteClosed[e]
    /\ Live(e)' =>
          /\ Live(e)
          /\ available'[e] + InHand(e)' = available[e] + InHand(e)
          /\ inbound'[e] + returnedCredit'[e] = inbound[e] + returnedCredit[e]

\* In the next state too, counters and totals are numbers.
LEMMA NumbersNext ==
    ASSUME CreditInv'
    PROVE  \A f \in Ends : Numbers(f)'
  <1> TAKE f \in Ends
  <1>1. CountTypes' /\ HistoryTypes'
    BY DEF CreditInv, TypeOK
  <1>2. 0 .. Window \subseteq Nat
    BY WindowAssumption
  <1>3. /\ inbound'[f] \in Nat /\ outbound'[f] \in Nat /\ returnedCredit'[f] \in Nat
        /\ available'[f] \in Nat /\ outCount'[f] \in Nat /\ pendingOutbound'[f] \in Nat
    BY <1>1, <1>2 DEF CountTypes
  <1>4. /\ written'[f] \in Nat /\ sent'[f] \in Nat /\ arrived'[f] \in Nat
        /\ taken'[f] \in Nat /\ granted'[f] \in Nat /\ credited'[f] \in Nat
    BY <1>1 DEF HistoryTypes
  <1>5. InHand(f)' \in Nat
    BY <1>3 DEF InHand
  <1> QED
    BY <1>3, <1>4, <1>5 DEF Numbers

\* The parts at both ends make StreamInv in the next state.
LEMMA Closed ==
    ASSUME StreamInv, CreditInv', NEW e \in Ends, Same(Peer(e)),
           session'[e] # "stateError", Local(e)', Frames(e)', Frames(Peer(e))',
           ClosedByPeer(e)', ClosedByPeer(Peer(e))', Conserved(e)', Conserved(Peer(e))'
    PROVE  StreamInv'
  <1>1. Peer(e) \in Ends /\ \A f \in Ends : f = e \/ f = Peer(e)
    BY PeerFacts
  <1>2. Local(Peer(e))'
    BY <1>1, LocalSame DEF StreamInv
  <1>3. StateSafe'
    BY <1>1 DEF StreamInv, StateSafe, Same, ControlSame
  <1>4. \A f \in Ends : Local(f)' /\ Frames(f)' /\ ClosedByPeer(f)' /\ Conserved(f)'
    BY <1>1, <1>2
  <1> QED
    BY <1>3, <1>4 DEF StreamInv

\* A step of e that leaves the wire alone keeps the invariant.
LEMMA QuietLife ==
    ASSUME StreamInv, CreditInv', NEW e \in Ends, wire' = wire, Same(Peer(e)),
           session'[e] # "stateError", Local(e)', Settled(e)
    PROVE  StreamInv'
  <1>1. /\ Peer(e) \in Ends /\ Peer(Peer(e)) = e
        /\ Frames(e) /\ Frames(Peer(e))
        /\ Numbers(e) /\ Numbers(Peer(e))
    BY Opened
  <1>2. /\ CloseDone(Peer(e))' = CloseDone(Peer(e))
        /\ ShutDone(Peer(e))' = ShutDone(Peer(e))
        /\ Live(Peer(e))' = Live(Peer(e))
        /\ InHand(Peer(e))' = InHand(Peer(e))
    BY DEF Same, ControlSame, SendSame, CloseDone, ShutDone, Live, InHand
  <1>3. Frames(e)'
    BY <1>1, FramesKept DEF Same, ControlSame, RecvSame, Settled
  <1>4. Frames(Peer(e))'
    BY <1>1, <1>2, FramesKept DEF Same, SendSame, Settled
  <1>5. ClosedByPeer(e)' /\ ClosedByPeer(Peer(e))'
    BY <1>1 DEF StreamInv, ClosedByPeer, Settled, Same, ControlSame
  <1>6. Conserved(e)' /\ Conserved(Peer(e))'
    <2>1. Conserved(e) /\ Conserved(Peer(e))
      BY <1>1 DEF StreamInv
    <2>2. Numbers(e)' /\ Numbers(Peer(e))'
      BY <1>1, NumbersNext
    <2>3. /\ available'[Peer(e)] = available[Peer(e)] /\ sent'[Peer(e)] = sent[Peer(e)]
          /\ inbound'[Peer(e)] = inbound[Peer(e)] /\ arrived'[Peer(e)] = arrived[Peer(e)]
          /\ returnedCredit'[Peer(e)] = returnedCredit[Peer(e)]
          /\ granted'[Peer(e)] = granted[Peer(e)] /\ credited'[Peer(e)] = credited[Peer(e)]
      BY DEF Same, SendSame, RecvSame, CreditSame
    <2>4. /\ sent'[e] = sent[e] /\ arrived'[e] = arrived[e]
          /\ granted'[e] = granted[e] /\ credited'[e] = credited[e]
          /\ Live(e)' => /\ Live(e)
                         /\ available'[e] + InHand(e)' = available[e] + InHand(e)
                         /\ inbound'[e] + returnedCredit'[e] = inbound[e] + returnedCredit[e]
      BY DEF Settled
    <2>5. Conserved(e)'
      BY <1>1, <1>2, <2>1, <2>2, <2>3, <2>4, WindowAssumption DEF Conserved, Numbers
    <2>6. Conserved(Peer(e))'
      BY <1>1, <1>2, <2>1, <2>2, <2>3, <2>4, WindowAssumption DEF Conserved, Numbers
    <2> QED
      BY <2>5, <2>6
  <1> QED
    BY <1>3, <1>4, <1>5, <1>6, Closed

\* Bytes read leave the buffer for the credit to be returned.
LEMMA PollReadLife ==
    ASSUME StreamInv, NEW e \in Ends, NEW n \in 1 .. Window, PollRead(e, n)
    PROVE  StreamInv'
  <1> USE DEF driverVars, recvVars, sendVars, closeVars, workerVars, history
  <1>1. /\ CreditInv /\ ControlTypes /\ FlagTypes /\ CountTypes /\ HistoryTypes
        /\ Peer(e) \in Ends /\ Peer(e) # e
        /\ Numbers(e)
        /\ CloseOnce(e) /\ Recorded(e) /\ Untouched(e)
        /\ OutboundLedger(e) /\ ShutLast(e) /\ InboundLedger(e)
        /\ session[e] # "stateError"
    BY Opened
  <1>2. CreditInv'
    BY <1>1, PollReadStep
  <1>3. Same(Peer(e))
    BY <1>1 DEF PollRead, HoldsStream, Same, ControlSame, SendSame, RecvSame, CreditSame,
                ControlTypes, FlagTypes, CountTypes, HistoryTypes
  <1>4. /\ inbound'[e] = inbound[e] - n
        /\ taken'[e] = taken[e] + n
        /\ returnedCredit'[e] = returnedCredit[e] + n
        /\ ControlSame(e) /\ SendSame(e) /\ inboundEof'[e] = inboundEof[e]
        /\ arrived'[e] = arrived[e] /\ available'[e] = available[e]
        /\ granted'[e] = granted[e] /\ credited'[e] = credited[e]
    BY <1>1 DEF PollRead, HoldsStream, ControlSame, SendSame, RecvSame, CreditSame,
                ControlTypes, FlagTypes, CountTypes, HistoryTypes
  <1>5. n \in Nat /\ stream[e] # "Opening" /\ ~dropped[e]
    BY DEF PollRead, HoldsStream
  <1>6. CloseOnce(e)' /\ Recorded(e)' /\ Untouched(e)'
    BY <1>1, <1>4, <1>5
    DEF ControlSame, SendSame, RecvSame, Live, CloseOnce, Recorded, Untouched,
        DataStages, ShutStages
  <1>7. OutboundLedger(e)' /\ ShutLast(e)' /\ InboundLedger(e)'
    BY <1>1, <1>4, <1>5, MaxDataAssumption
    DEF ControlSame, SendSame, RecvSame, Live, OutboundLedger, ShutLast, InboundLedger,
        DataStages, ShutStages, TakenStages, Numbers
  <1>8. Settled(e)
    BY <1>1, <1>4, <1>5
    DEF ControlSame, SendSame, RecvSame, Live, CreditSame, Settled, CloseDone, ShutDone,
        InHand, OutboundLedger, ShutLast, CloseOnce, Recorded, DataStages, ShutStages,
        TakenStages, Numbers
  <1>9. wire' = wire /\ session'[e] # "stateError"
    BY <1>1, <1>4 DEF PollRead, HoldsStream, ControlSame
  <1> QED
    BY <1>2, <1>3, <1>6, <1>7, <1>8, <1>9, QuietLife DEF Local

\* Bytes written are buffered and wait for a flush.
LEMMA PollWriteLife ==
    ASSUME StreamInv, NEW e \in Ends, NEW n \in 1 .. Window, PollWrite(e, n)
    PROVE  StreamInv'
  <1> USE DEF driverVars, recvVars, sendVars, closeVars, workerVars, history
  <1>1. /\ CreditInv /\ ControlTypes /\ FlagTypes /\ CountTypes /\ HistoryTypes
        /\ Peer(e) \in Ends /\ Peer(e) # e
        /\ Numbers(e)
        /\ CloseOnce(e) /\ Recorded(e) /\ Untouched(e)
        /\ OutboundLedger(e) /\ ShutLast(e) /\ InboundLedger(e)
        /\ session[e] # "stateError"
    BY Opened
  <1>2. CreditInv'
    BY <1>1, PollWriteStep
  <1>3. Same(Peer(e))
    BY <1>1 DEF PollWrite, HoldsStream, Same, ControlSame, SendSame, RecvSame, CreditSame,
                ControlTypes, FlagTypes, CountTypes, HistoryTypes
  <1>4. /\ outbound'[e] = outbound[e] + n
        /\ pendingOutbound'[e] = pendingOutbound[e] + n
        /\ written'[e] = written[e] + n
        /\ ControlSame(e) /\ RecvSame(e) /\ CreditSame(e) /\ sent'[e] = sent[e]
        /\ outCount'[e] = outCount[e] /\ writeShutdown'[e] = writeShutdown[e]
        /\ shutdownSent'[e] = shutdownSent[e]
    BY <1>1 DEF PollWrite, HoldsStream, ControlSame, SendSame, RecvSame, CreditSame,
                ControlTypes, FlagTypes, CountTypes, HistoryTypes
  <1>5. n \in Nat /\ stream[e] # "Opening" /\ ~dropped[e] /\ ~remoteClosed[e] /\ ~writeShutdown[e]
    BY DEF PollWrite, HoldsStream
  <1>6. CloseOnce(e)' /\ Recorded(e)' /\ Untouched(e)'
    BY <1>1, <1>4, <1>5
    DEF ControlSame, SendSame, RecvSame, Live, CloseOnce, Recorded, Untouched,
        DataStages, ShutStages
  <1>7. OutboundLedger(e)' /\ ShutLast(e)' /\ InboundLedger(e)'
    BY <1>1, <1>4, <1>5, MaxDataAssumption
    DEF ControlSame, SendSame, RecvSame, Live, OutboundLedger, ShutLast, InboundLedger,
        DataStages, ShutStages, TakenStages, Numbers
  <1>8. Settled(e)
    BY <1>1, <1>4, <1>5
    DEF ControlSame, SendSame, RecvSame, Live, CreditSame, Settled, CloseDone, ShutDone,
        InHand, OutboundLedger, ShutLast, CloseOnce, Recorded, DataStages, ShutStages,
        TakenStages, Numbers
  <1>9. wire' = wire /\ session'[e] # "stateError"
    BY <1>1, <1>4 DEF PollWrite, HoldsStream, ControlSame
  <1> QED
    BY <1>2, <1>3, <1>6, <1>7, <1>8, <1>9, QuietLife DEF Local

\* The half-close is asked for while the stream is live.
LEMMA PollShutdownLife ==
    ASSUME StreamInv, NEW e \in Ends, PollShutdown(e)
    PROVE  StreamInv'
  <1> USE DEF driverVars, recvVars, sendVars, closeVars, workerVars, history
  <1>1. /\ CreditInv /\ ControlTypes /\ FlagTypes /\ CountTypes /\ HistoryTypes
        /\ Peer(e) \in Ends /\ Peer(e) # e
        /\ Numbers(e)
        /\ CloseOnce(e) /\ Recorded(e) /\ Untouched(e)
        /\ OutboundLedger(e) /\ ShutLast(e) /\ InboundLedger(e)
        /\ session[e] # "stateError"
    BY Opened
  <1>2. CreditInv'
    BY <1>1, PollShutdownStep
  <1>3. Same(Peer(e))
    BY <1>1 DEF PollShutdown, HoldsStream, Same, ControlSame, SendSame, RecvSame, CreditSame,
                ControlTypes, FlagTypes, CountTypes, HistoryTypes
  <1>4. /\ writeShutdown'[e] = TRUE
        /\ ControlSame(e) /\ RecvSame(e) /\ CreditSame(e) /\ written'[e] = written[e]
        /\ sent'[e] = sent[e] /\ outbound'[e] = outbound[e]
        /\ pendingOutbound'[e] = pendingOutbound[e] /\ outCount'[e] = outCount[e]
        /\ shutdownSent'[e] = shutdownSent[e]
    BY <1>1 DEF PollShutdown, HoldsStream, ControlSame, SendSame, RecvSame, CreditSame,
                ControlTypes, FlagTypes, CountTypes, HistoryTypes
  <1>5. stream[e] # "Opening" /\ ~dropped[e] /\ ~remoteClosed[e] /\ ~writeShutdown[e]
    BY DEF PollShutdown, HoldsStream
  <1>6. CloseOnce(e)' /\ Recorded(e)' /\ Untouched(e)'
    BY <1>1, <1>4, <1>5
    DEF ControlSame, SendSame, RecvSame, Live, CloseOnce, Recorded, Untouched,
        DataStages, ShutStages
  <1>7. OutboundLedger(e)' /\ ShutLast(e)' /\ InboundLedger(e)'
    BY <1>1, <1>4, <1>5, MaxDataAssumption
    DEF ControlSame, SendSame, RecvSame, Live, OutboundLedger, ShutLast, InboundLedger,
        DataStages, ShutStages, TakenStages, Numbers
  <1>8. Settled(e)
    BY <1>1, <1>4, <1>5
    DEF ControlSame, SendSame, RecvSame, Live, CreditSame, Settled, CloseDone, ShutDone,
        InHand, OutboundLedger, ShutLast, CloseOnce, Recorded, DataStages, ShutStages,
        TakenStages, Numbers
  <1>9. wire' = wire /\ session'[e] # "stateError"
    BY <1>1, <1>4 DEF PollShutdown, HoldsStream, ControlSame
  <1> QED
    BY <1>2, <1>3, <1>6, <1>7, <1>8, <1>9, QuietLife DEF Local

\* A dropped stream is not live.
LEMMA DropLocalLife ==
    ASSUME StreamInv, NEW e \in Ends, NEW reason \in DropReasons, DropLocal(e, reason)
    PROVE  StreamInv'
  <1> USE DEF driverVars, recvVars, sendVars, closeVars, workerVars, history
  <1>1. /\ CreditInv /\ ControlTypes /\ FlagTypes /\ CountTypes /\ HistoryTypes
        /\ Peer(e) \in Ends /\ Peer(e) # e
        /\ Numbers(e)
        /\ CloseOnce(e) /\ Recorded(e) /\ Untouched(e)
        /\ OutboundLedger(e) /\ ShutLast(e) /\ InboundLedger(e)
        /\ session[e] # "stateError"
    BY Opened
  <1>2. CreditInv'
    BY <1>1, DropLocalStep
  <1>3. Same(Peer(e))
    BY <1>1 DEF DropLocal, HoldsStream, Same, ControlSame, SendSame, RecvSame, CreditSame,
                ControlTypes, FlagTypes, CountTypes, HistoryTypes
  <1>4. /\ dropped'[e] = TRUE
        /\ outbound'[e] = 0
        /\ pendingOutbound'[e] = 0
        /\ RecvSame(e) /\ CreditSame(e) /\ stream'[e] = stream[e] /\ driver'[e] = driver[e]
        /\ session'[e] = session[e] /\ outPc'[e] = outPc[e] /\ creditPc'[e] = creditPc[e]
        /\ closeQueued'[e] = closeQueued[e] /\ remoteClosed'[e] = remoteClosed[e]
        /\ failure'[e] = failure[e] /\ written'[e] = written[e] /\ sent'[e] = sent[e]
        /\ outCount'[e] = outCount[e] /\ writeShutdown'[e] = writeShutdown[e]
        /\ shutdownSent'[e] = shutdownSent[e]
    BY <1>1 DEF DropLocal, HoldsStream, ControlSame, SendSame, RecvSame, CreditSame,
                ControlTypes, FlagTypes, CountTypes, HistoryTypes
  <1>5. stream[e] # "Opening" /\ ~dropped[e]
    BY DEF DropLocal, HoldsStream
  <1>6. CloseOnce(e)' /\ Recorded(e)' /\ Untouched(e)'
    BY <1>1, <1>4, <1>5
    DEF ControlSame, SendSame, RecvSame, Live, CloseOnce, Recorded, Untouched,
        DataStages, ShutStages
  <1>7. OutboundLedger(e)' /\ ShutLast(e)' /\ InboundLedger(e)'
    BY <1>1, <1>4, <1>5, MaxDataAssumption
    DEF ControlSame, SendSame, RecvSame, Live, OutboundLedger, ShutLast, InboundLedger,
        DataStages, ShutStages, TakenStages, Numbers
  <1>8. Settled(e)
    BY <1>1, <1>4, <1>5
    DEF ControlSame, SendSame, RecvSame, Live, CreditSame, Settled, CloseDone, ShutDone,
        InHand, OutboundLedger, ShutLast, CloseOnce, Recorded, DataStages, ShutStages,
        TakenStages, Numbers
  <1>9. wire' = wire /\ session'[e] # "stateError"
    BY <1>1, <1>4 DEF DropLocal, HoldsStream, ControlSame
  <1> QED
    BY <1>2, <1>3, <1>6, <1>7, <1>8, <1>9, QuietLife DEF Local

\* The worker stops, closes, takes bytes or half-closes as the state says.
LEMMA OutboundDecideLife ==
    ASSUME StreamInv, NEW e \in Ends, OutboundDecide(e)
    PROVE  StreamInv'
  <1> USE DEF driverVars, recvVars, sendVars, closeVars, workerVars, history
  <1>1. /\ CreditInv /\ ControlTypes /\ FlagTypes /\ CountTypes /\ HistoryTypes
        /\ Peer(e) \in Ends /\ Peer(e) # e
        /\ Numbers(e)
        /\ CloseOnce(e) /\ Recorded(e) /\ Untouched(e)
        /\ OutboundLedger(e) /\ ShutLast(e) /\ InboundLedger(e)
        /\ session[e] # "stateError"
    BY Opened
  <1>2. CreditInv'
    BY <1>1, OutboundDecideStep
  <1>3. Same(Peer(e))
    BY <1>1 DEF OutboundDecide, Same, ControlSame, SendSame, RecvSame, CreditSame,
                ControlTypes, FlagTypes, CountTypes, HistoryTypes
  <1>4. /\ \/ outPc'[e] = "stopped" /\ remoteClosed[e] /\ outCount'[e] = outCount[e]
           \/ outPc'[e] = "closeGate" /\ ~remoteClosed[e] /\ dropped[e] /\ outCount'[e] = outCount[e]
           \/ /\ outPc'[e] = "take" /\ Live(e) /\ outbound[e] > 0
              /\ outCount'[e] = Minimum(outbound[e], MaxData)
           \/ /\ outPc'[e] = "shutGate" /\ Live(e) /\ outbound[e] = 0
              /\ writeShutdown[e] /\ ~shutdownSent[e] /\ outCount'[e] = outCount[e]
        /\ RecvSame(e) /\ CreditSame(e) /\ stream'[e] = stream[e] /\ driver'[e] = driver[e]
        /\ session'[e] = session[e] /\ creditPc'[e] = creditPc[e]
        /\ dropped'[e] = dropped[e] /\ closeQueued'[e] = closeQueued[e]
        /\ remoteClosed'[e] = remoteClosed[e] /\ failure'[e] = failure[e]
        /\ written'[e] = written[e] /\ sent'[e] = sent[e] /\ outbound'[e] = outbound[e]
        /\ pendingOutbound'[e] = pendingOutbound[e] /\ writeShutdown'[e] = writeShutdown[e]
        /\ shutdownSent'[e] = shutdownSent[e]
    BY <1>1 DEF OutboundDecide, ControlSame, SendSame, RecvSame, CreditSame,
                ControlTypes, FlagTypes, CountTypes, HistoryTypes
  <1>5. stream[e] # "Opening" /\ outPc[e] = "loop"
    BY DEF OutboundDecide
  <1>6. CloseOnce(e)' /\ Recorded(e)' /\ Untouched(e)'
    BY <1>1, <1>4, <1>5
    DEF ControlSame, SendSame, RecvSame, Live, CloseOnce, Recorded, Untouched,
        DataStages, ShutStages
  <1>7. OutboundLedger(e)' /\ ShutLast(e)' /\ InboundLedger(e)'
    BY <1>1, <1>4, <1>5, MaxDataAssumption
    DEF ControlSame, SendSame, RecvSame, Live, OutboundLedger, ShutLast, InboundLedger,
        DataStages, ShutStages, TakenStages, Numbers, Minimum
  <1>8. Settled(e)
    BY <1>1, <1>4, <1>5
    DEF ControlSame, SendSame, RecvSame, Live, CreditSame, Settled, CloseDone, ShutDone,
        InHand, OutboundLedger, ShutLast, CloseOnce, Recorded, DataStages, ShutStages,
        TakenStages, Numbers, Minimum
  <1>9. wire' = wire /\ session'[e] # "stateError"
    BY <1>1, <1>4 DEF OutboundDecide, ControlSame
  <1> QED
    BY <1>2, <1>3, <1>6, <1>7, <1>8, <1>9, QuietLife DEF Local

\* The credit taken is at most the bytes buffered for it.
LEMMA TakeUpToLife ==
    ASSUME StreamInv, NEW e \in Ends, TakeUpTo(e)
    PROVE  StreamInv'
  <1> USE DEF driverVars, recvVars, sendVars, closeVars, workerVars, history
  <1>1. /\ CreditInv /\ ControlTypes /\ FlagTypes /\ CountTypes /\ HistoryTypes
        /\ Peer(e) \in Ends /\ Peer(e) # e
        /\ Numbers(e)
        /\ CloseOnce(e) /\ Recorded(e) /\ Untouched(e)
        /\ OutboundLedger(e) /\ ShutLast(e) /\ InboundLedger(e)
        /\ session[e] # "stateError"
    BY Opened
  <1>2. CreditInv'
    BY <1>1, TakeUpToStep
  <1>3. Same(Peer(e))
    BY <1>1 DEF TakeUpTo, Same, ControlSame, SendSame, RecvSame, CreditSame,
                ControlTypes, FlagTypes, CountTypes, HistoryTypes
  <1>4. /\ \/ outPc'[e] = "loop" /\ ~Live(e) /\ outCount'[e] = 0 /\ available'[e] = available[e]
           \/ /\ outPc'[e] = "dataGate" /\ Live(e) /\ available[e] # 0
              /\ outCount'[e] = Minimum(available[e], outCount[e])
              /\ available'[e] = available[e] - Minimum(available[e], outCount[e])
        /\ RecvSame(e) /\ stream'[e] = stream[e] /\ driver'[e] = driver[e]
        /\ session'[e] = session[e] /\ creditPc'[e] = creditPc[e]
        /\ dropped'[e] = dropped[e] /\ closeQueued'[e] = closeQueued[e]
        /\ remoteClosed'[e] = remoteClosed[e] /\ failure'[e] = failure[e]
        /\ written'[e] = written[e] /\ sent'[e] = sent[e] /\ outbound'[e] = outbound[e]
        /\ pendingOutbound'[e] = pendingOutbound[e] /\ writeShutdown'[e] = writeShutdown[e]
        /\ shutdownSent'[e] = shutdownSent[e] /\ returnedCredit'[e] = returnedCredit[e]
        /\ granted'[e] = granted[e] /\ credited'[e] = credited[e]
    BY <1>1 DEF TakeUpTo, ControlSame, SendSame, RecvSame, CreditSame,
                ControlTypes, FlagTypes, CountTypes, HistoryTypes
  <1>5. outPc[e] = "take"
    BY DEF TakeUpTo
  <1>6. CloseOnce(e)' /\ Recorded(e)' /\ Untouched(e)'
    BY <1>1, <1>4, <1>5
    DEF ControlSame, SendSame, RecvSame, Live, CloseOnce, Recorded, Untouched,
        DataStages, ShutStages
  <1>7. OutboundLedger(e)' /\ ShutLast(e)' /\ InboundLedger(e)'
    BY <1>1, <1>4, <1>5, MaxDataAssumption
    DEF ControlSame, SendSame, RecvSame, Live, OutboundLedger, ShutLast, InboundLedger,
        DataStages, ShutStages, TakenStages, Numbers, Minimum
  <1>8. Settled(e)
    BY <1>1, <1>4, <1>5
    DEF ControlSame, SendSame, RecvSame, Live, CreditSame, Settled, CloseDone, ShutDone,
        InHand, OutboundLedger, ShutLast, CloseOnce, Recorded, DataStages, ShutStages,
        TakenStages, Numbers, Minimum
  <1>9. wire' = wire /\ session'[e] # "stateError"
    BY <1>1, <1>4 DEF TakeUpTo, ControlSame
  <1> QED
    BY <1>2, <1>3, <1>6, <1>7, <1>8, <1>9, QuietLife DEF Local

\* A live worker drains all it took credit for; otherwise it gives up.
LEMMA DataLockGateLife ==
    ASSUME StreamInv, NEW e \in Ends, DataLockGate(e)
    PROVE  StreamInv'
  <1> USE DEF driverVars, recvVars, sendVars, closeVars, workerVars, history
  <1>1. /\ CreditInv /\ ControlTypes /\ FlagTypes /\ CountTypes /\ HistoryTypes
        /\ Peer(e) \in Ends /\ Peer(e) # e
        /\ Numbers(e)
        /\ CloseOnce(e) /\ Recorded(e) /\ Untouched(e)
        /\ OutboundLedger(e) /\ ShutLast(e) /\ InboundLedger(e)
        /\ session[e] # "stateError"
    BY Opened
  <1>2. CreditInv'
    BY <1>1, DataLockGateStep
  <1>3. Same(Peer(e))
    BY <1>1 DEF DataLockGate, Same, ControlSame, SendSame, RecvSame, CreditSame,
                ControlTypes, FlagTypes, CountTypes, HistoryTypes
  <1>10. LET count == IF Live(e) THEN Minimum(outCount[e], outbound[e]) ELSE 0
         IN  /\ Live(e) => count = outCount[e] /\ count # 0
             /\ ~Live(e) => count = 0 /\ outbound[e] - count = outbound[e]
    BY <1>1 DEF DataLockGate, OutboundLedger, TakenStages, Minimum, Numbers
  <1>4. /\ \/ /\ outPc'[e] = "loop" /\ ~Live(e) /\ outCount'[e] = 0
              /\ outbound'[e] = outbound[e]
           \/ /\ outPc'[e] = "dataSend" /\ Live(e) /\ outCount'[e] = outCount[e]
              /\ outbound'[e] = outbound[e] - outCount[e]
        /\ RecvSame(e) /\ CreditSame(e) /\ stream'[e] = stream[e] /\ driver'[e] = driver[e]
        /\ session'[e] = session[e] /\ creditPc'[e] = creditPc[e]
        /\ dropped'[e] = dropped[e] /\ closeQueued'[e] = closeQueued[e]
        /\ remoteClosed'[e] = remoteClosed[e] /\ failure'[e] = failure[e]
        /\ written'[e] = written[e] /\ sent'[e] = sent[e]
        /\ pendingOutbound'[e] = pendingOutbound[e] /\ writeShutdown'[e] = writeShutdown[e]
        /\ shutdownSent'[e] = shutdownSent[e]
    BY <1>1, <1>10 DEF DataLockGate, ControlSame, SendSame, RecvSame, CreditSame,
                ControlTypes, FlagTypes, CountTypes, HistoryTypes
  <1>5. outPc[e] = "dataGate"
    BY DEF DataLockGate
  <1>6. CloseOnce(e)' /\ Recorded(e)' /\ Untouched(e)'
    BY <1>1, <1>4, <1>5
    DEF ControlSame, SendSame, RecvSame, Live, CloseOnce, Recorded, Untouched,
        DataStages, ShutStages
  <1>7. OutboundLedger(e)' /\ ShutLast(e)' /\ InboundLedger(e)'
    BY <1>1, <1>4, <1>5, MaxDataAssumption
    DEF ControlSame, SendSame, RecvSame, Live, OutboundLedger, ShutLast, InboundLedger,
        DataStages, ShutStages, TakenStages, Numbers
  <1>8. Settled(e)
    BY <1>1, <1>4, <1>5
    DEF ControlSame, SendSame, RecvSame, Live, CreditSame, Settled, CloseDone, ShutDone,
        InHand, OutboundLedger, ShutLast, CloseOnce, Recorded, DataStages, ShutStages,
        TakenStages, Numbers
  <1>9. wire' = wire /\ session'[e] # "stateError"
    BY <1>1, <1>4 DEF DataLockGate, ControlSame
  <1> QED
    BY <1>2, <1>3, <1>6, <1>7, <1>8, <1>9, QuietLife DEF Local

\* The bytes of the frame just queued no longer delay a flush.
LEMMA DataMarkLife ==
    ASSUME StreamInv, NEW e \in Ends, DataMark(e)
    PROVE  StreamInv'
  <1> USE DEF driverVars, recvVars, sendVars, closeVars, workerVars, history
  <1>1. /\ CreditInv /\ ControlTypes /\ FlagTypes /\ CountTypes /\ HistoryTypes
        /\ Peer(e) \in Ends /\ Peer(e) # e
        /\ Numbers(e)
        /\ CloseOnce(e) /\ Recorded(e) /\ Untouched(e)
        /\ OutboundLedger(e) /\ ShutLast(e) /\ InboundLedger(e)
        /\ session[e] # "stateError"
    BY Opened
  <1>2. CreditInv'
    BY <1>1, DataMarkStep
  <1>3. Same(Peer(e))
    BY <1>1 DEF DataMark, Same, ControlSame, SendSame, RecvSame, CreditSame,
                ControlTypes, FlagTypes, CountTypes, HistoryTypes
  <1>4. /\ outPc'[e] = "loop" /\ outCount'[e] = 0
        /\ pendingOutbound'[e] = IF pendingOutbound[e] > outCount[e]
                                 THEN pendingOutbound[e] - outCount[e] ELSE 0
        /\ RecvSame(e) /\ CreditSame(e) /\ stream'[e] = stream[e] /\ driver'[e] = driver[e]
        /\ session'[e] = session[e] /\ creditPc'[e] = creditPc[e]
        /\ dropped'[e] = dropped[e] /\ closeQueued'[e] = closeQueued[e]
        /\ remoteClosed'[e] = remoteClosed[e] /\ failure'[e] = failure[e]
        /\ written'[e] = written[e] /\ sent'[e] = sent[e] /\ outbound'[e] = outbound[e]
        /\ writeShutdown'[e] = writeShutdown[e] /\ shutdownSent'[e] = shutdownSent[e]
    BY <1>1 DEF DataMark, ControlSame, SendSame, RecvSame, CreditSame,
                ControlTypes, FlagTypes, CountTypes, HistoryTypes
  <1>5. outPc[e] = "dataMark"
    BY DEF DataMark
  <1>6. CloseOnce(e)' /\ Recorded(e)' /\ Untouched(e)'
    BY <1>1, <1>4, <1>5
    DEF ControlSame, SendSame, RecvSame, Live, CloseOnce, Recorded, Untouched,
        DataStages, ShutStages
  <1>7. OutboundLedger(e)' /\ ShutLast(e)' /\ InboundLedger(e)'
    BY <1>1, <1>4, <1>5, MaxDataAssumption
    DEF ControlSame, SendSame, RecvSame, Live, OutboundLedger, ShutLast, InboundLedger,
        DataStages, ShutStages, TakenStages, Numbers
  <1>8. Settled(e)
    BY <1>1, <1>4, <1>5
    DEF ControlSame, SendSame, RecvSame, Live, CreditSame, Settled, CloseDone, ShutDone,
        InHand, OutboundLedger, ShutLast, CloseOnce, Recorded, DataStages, ShutStages,
        TakenStages, Numbers
  <1>9. wire' = wire /\ session'[e] # "stateError"
    BY <1>1, <1>4 DEF DataMark, ControlSame
  <1> QED
    BY <1>2, <1>3, <1>6, <1>7, <1>8, <1>9, QuietLife DEF Local

\* SHUTDOWN_WRITE is sent only while the stream is live and all bytes are.
LEMMA ShutdownLockGateLife ==
    ASSUME StreamInv, NEW e \in Ends, ShutdownLockGate(e)
    PROVE  StreamInv'
  <1> USE DEF driverVars, recvVars, sendVars, closeVars, workerVars, history
  <1>1. /\ CreditInv /\ ControlTypes /\ FlagTypes /\ CountTypes /\ HistoryTypes
        /\ Peer(e) \in Ends /\ Peer(e) # e
        /\ Numbers(e)
        /\ CloseOnce(e) /\ Recorded(e) /\ Untouched(e)
        /\ OutboundLedger(e) /\ ShutLast(e) /\ InboundLedger(e)
        /\ session[e] # "stateError"
    BY Opened
  <1>2. CreditInv'
    BY <1>1, ShutdownLockGateStep
  <1>3. Same(Peer(e))
    BY <1>1 DEF ShutdownLockGate, Same, ControlSame, SendSame, RecvSame, CreditSame,
                ControlTypes, FlagTypes, CountTypes, HistoryTypes
  <1>4. /\ \/ outPc'[e] = "shutSend" /\ Live(e) /\ writeShutdown[e] /\ ~shutdownSent[e]
           \/ outPc'[e] = "loop"
        /\ SendSame(e) /\ RecvSame(e) /\ CreditSame(e) /\ stream'[e] = stream[e]
        /\ driver'[e] = driver[e] /\ session'[e] = session[e] /\ creditPc'[e] = creditPc[e]
        /\ dropped'[e] = dropped[e] /\ closeQueued'[e] = closeQueued[e]
        /\ remoteClosed'[e] = remoteClosed[e] /\ failure'[e] = failure[e]
    BY <1>1 DEF ShutdownLockGate, ControlSame, SendSame, RecvSame, CreditSame,
                ControlTypes, FlagTypes, CountTypes, HistoryTypes
  <1>5. outPc[e] = "shutGate"
    BY DEF ShutdownLockGate
  <1>6. CloseOnce(e)' /\ Recorded(e)' /\ Untouched(e)'
    BY <1>1, <1>4, <1>5
    DEF ControlSame, SendSame, RecvSame, Live, CloseOnce, Recorded, Untouched,
        DataStages, ShutStages
  <1>7. OutboundLedger(e)' /\ ShutLast(e)' /\ InboundLedger(e)'
    BY <1>1, <1>4, <1>5, MaxDataAssumption
    DEF ControlSame, SendSame, RecvSame, Live, OutboundLedger, ShutLast, InboundLedger,
        DataStages, ShutStages, TakenStages, Numbers
  <1>8. Settled(e)
    BY <1>1, <1>4, <1>5
    DEF ControlSame, SendSame, RecvSame, Live, CreditSame, Settled, CloseDone, ShutDone,
        InHand, OutboundLedger, ShutLast, CloseOnce, Recorded, DataStages, ShutStages,
        TakenStages, Numbers
  <1>9. wire' = wire /\ session'[e] # "stateError"
    BY <1>1, <1>4 DEF ShutdownLockGate, ControlSame
  <1> QED
    BY <1>2, <1>3, <1>6, <1>7, <1>8, <1>9, QuietLife DEF Local

\* shutdown_sent records that SHUTDOWN_WRITE is queued.
LEMMA ShutdownMarkLife ==
    ASSUME StreamInv, NEW e \in Ends, ShutdownMark(e)
    PROVE  StreamInv'
  <1> USE DEF driverVars, recvVars, sendVars, closeVars, workerVars, history
  <1>1. /\ CreditInv /\ ControlTypes /\ FlagTypes /\ CountTypes /\ HistoryTypes
        /\ Peer(e) \in Ends /\ Peer(e) # e
        /\ Numbers(e)
        /\ CloseOnce(e) /\ Recorded(e) /\ Untouched(e)
        /\ OutboundLedger(e) /\ ShutLast(e) /\ InboundLedger(e)
        /\ session[e] # "stateError"
    BY Opened
  <1>2. CreditInv'
    BY <1>1, ShutdownMarkStep
  <1>3. Same(Peer(e))
    BY <1>1 DEF ShutdownMark, Same, ControlSame, SendSame, RecvSame, CreditSame,
                ControlTypes, FlagTypes, CountTypes, HistoryTypes
  <1>4. /\ outPc'[e] = "loop" /\ shutdownSent'[e] = TRUE
        /\ RecvSame(e) /\ CreditSame(e) /\ stream'[e] = stream[e] /\ driver'[e] = driver[e]
        /\ session'[e] = session[e] /\ creditPc'[e] = creditPc[e]
        /\ dropped'[e] = dropped[e] /\ closeQueued'[e] = closeQueued[e]
        /\ remoteClosed'[e] = remoteClosed[e] /\ failure'[e] = failure[e]
        /\ written'[e] = written[e] /\ sent'[e] = sent[e] /\ outbound'[e] = outbound[e]
        /\ pendingOutbound'[e] = pendingOutbound[e] /\ outCount'[e] = outCount[e]
        /\ writeShutdown'[e] = writeShutdown[e]
    BY <1>1 DEF ShutdownMark, ControlSame, SendSame, RecvSame, CreditSame,
                ControlTypes, FlagTypes, CountTypes, HistoryTypes
  <1>5. outPc[e] = "shutMark"
    BY DEF ShutdownMark
  <1>6. CloseOnce(e)' /\ Recorded(e)' /\ Untouched(e)'
    BY <1>1, <1>4, <1>5
    DEF ControlSame, SendSame, RecvSame, Live, CloseOnce, Recorded, Untouched,
        DataStages, ShutStages
  <1>7. OutboundLedger(e)' /\ ShutLast(e)' /\ InboundLedger(e)'
    BY <1>1, <1>4, <1>5, MaxDataAssumption
    DEF ControlSame, SendSame, RecvSame, Live, OutboundLedger, ShutLast, InboundLedger,
        DataStages, ShutStages, TakenStages, Numbers
  <1>8. Settled(e)
    BY <1>1, <1>4, <1>5
    DEF ControlSame, SendSame, RecvSame, Live, CreditSame, Settled, CloseDone, ShutDone,
        InHand, OutboundLedger, ShutLast, CloseOnce, Recorded, DataStages, ShutStages,
        TakenStages, Numbers
  <1>9. wire' = wire /\ session'[e] # "stateError"
    BY <1>1, <1>4 DEF ShutdownMark, ControlSame
  <1> QED
    BY <1>2, <1>3, <1>6, <1>7, <1>8, <1>9, QuietLife DEF Local

\* Under the gate the worker finds whether CLOSE was queued already.
LEMMA CloseLockGateLife ==
    ASSUME StreamInv, NEW e \in Ends, CloseLockGate(e)
    PROVE  StreamInv'
  <1> USE DEF driverVars, recvVars, sendVars, closeVars, workerVars, history
  <1>1. /\ CreditInv /\ ControlTypes /\ FlagTypes /\ CountTypes /\ HistoryTypes
        /\ Peer(e) \in Ends /\ Peer(e) # e
        /\ Numbers(e)
        /\ CloseOnce(e) /\ Recorded(e) /\ Untouched(e)
        /\ OutboundLedger(e) /\ ShutLast(e) /\ InboundLedger(e)
        /\ session[e] # "stateError"
    BY Opened
  <1>2. CreditInv'
    BY <1>1, CloseLockGateStep
  <1>3. Same(Peer(e))
    BY <1>1 DEF CloseLockGate, Same, ControlSame, SendSame, RecvSame, CreditSame,
                ControlTypes, FlagTypes, CountTypes, HistoryTypes
  <1>4. /\ closeQueued'[e] = TRUE
        /\ outPc'[e] = IF closeQueued[e] THEN "stopped" ELSE "closeSend"
        /\ SendSame(e) /\ RecvSame(e) /\ CreditSame(e) /\ stream'[e] = stream[e]
        /\ driver'[e] = driver[e] /\ session'[e] = session[e] /\ creditPc'[e] = creditPc[e]
        /\ dropped'[e] = dropped[e] /\ remoteClosed'[e] = remoteClosed[e]
        /\ failure'[e] = failure[e]
    BY <1>1 DEF CloseLockGate, ControlSame, SendSame, RecvSame, CreditSame,
                ControlTypes, FlagTypes, CountTypes, HistoryTypes
  <1>5. outPc[e] = "closeGate" /\ SendGateFree(e)
    BY DEF CloseLockGate
  <1>6. CloseOnce(e)' /\ Recorded(e)' /\ Untouched(e)'
    BY <1>1, <1>4, <1>5
    DEF ControlSame, SendSame, RecvSame, Live, CloseOnce, Recorded, Untouched,
        DataStages, ShutStages
  <1>7. OutboundLedger(e)' /\ ShutLast(e)' /\ InboundLedger(e)'
    BY <1>1, <1>4, <1>5, MaxDataAssumption
    DEF ControlSame, SendSame, RecvSame, Live, OutboundLedger, ShutLast, InboundLedger,
        DataStages, ShutStages, TakenStages, Numbers
  <1>8. Settled(e)
    BY <1>1, <1>4, <1>5
    DEF ControlSame, SendSame, RecvSame, Live, CreditSame, Settled, CloseDone, ShutDone,
        InHand, OutboundLedger, ShutLast, CloseOnce, Recorded, DataStages, ShutStages,
        TakenStages, Numbers
  <1>9. wire' = wire /\ session'[e] # "stateError"
    BY <1>1, <1>4 DEF CloseLockGate, ControlSame
  <1> QED
    BY <1>2, <1>3, <1>6, <1>7, <1>8, <1>9, QuietLife DEF Local

\* The credit worker does not touch what the others share.
LEMMA CreditReserveLife ==
    ASSUME StreamInv, NEW e \in Ends, CreditReserve(e)
    PROVE  StreamInv'
  <1> USE DEF driverVars, recvVars, sendVars, closeVars, workerVars, history
  <1>1. /\ CreditInv /\ ControlTypes /\ FlagTypes /\ CountTypes /\ HistoryTypes
        /\ Peer(e) \in Ends /\ Peer(e) # e
        /\ Numbers(e)
        /\ CloseOnce(e) /\ Recorded(e) /\ Untouched(e)
        /\ OutboundLedger(e) /\ ShutLast(e) /\ InboundLedger(e)
        /\ session[e] # "stateError"
    BY Opened
  <1>2. CreditInv'
    BY <1>1, CreditReserveStep
  <1>3. Same(Peer(e))
    BY <1>1 DEF CreditReserve, Same, ControlSame, SendSame, RecvSame, CreditSame,
                ControlTypes, FlagTypes, CountTypes, HistoryTypes
  <1>4. /\ SendSame(e) /\ RecvSame(e) /\ CreditSame(e) /\ stream'[e] = stream[e]
        /\ driver'[e] = driver[e] /\ session'[e] = session[e] /\ outPc'[e] = outPc[e]
        /\ dropped'[e] = dropped[e] /\ closeQueued'[e] = closeQueued[e]
        /\ remoteClosed'[e] = remoteClosed[e] /\ failure'[e] = failure[e]
    BY <1>1 DEF CreditReserve, ControlSame, SendSame, RecvSame, CreditSame,
                ControlTypes, FlagTypes, CountTypes, HistoryTypes
  <1>5. stream[e] # "Opening"
    BY DEF CreditReserve
  <1>6. CloseOnce(e)' /\ Recorded(e)' /\ Untouched(e)'
    BY <1>1, <1>4, <1>5
    DEF ControlSame, SendSame, RecvSame, Live, CloseOnce, Recorded, Untouched,
        DataStages, ShutStages
  <1>7. OutboundLedger(e)' /\ ShutLast(e)' /\ InboundLedger(e)'
    BY <1>1, <1>4, <1>5, MaxDataAssumption
    DEF ControlSame, SendSame, RecvSame, Live, OutboundLedger, ShutLast, InboundLedger,
        DataStages, ShutStages, TakenStages, Numbers
  <1>8. Settled(e)
    BY <1>1, <1>4, <1>5
    DEF ControlSame, SendSame, RecvSame, Live, CreditSame, Settled, CloseDone, ShutDone,
        InHand, OutboundLedger, ShutLast, CloseOnce, Recorded, DataStages, ShutStages,
        TakenStages, Numbers
  <1>9. wire' = wire /\ session'[e] # "stateError"
    BY <1>1, <1>4 DEF CreditReserve, ControlSame
  <1> QED
    BY <1>2, <1>3, <1>6, <1>7, <1>8, <1>9, QuietLife DEF Local

\* Committing credit does not touch what the others share.
LEMMA CreditCommitLife ==
    ASSUME StreamInv, NEW e \in Ends, CreditCommit(e)
    PROVE  StreamInv'
  <1> USE DEF driverVars, recvVars, sendVars, closeVars, workerVars, history
  <1>1. /\ CreditInv /\ ControlTypes /\ FlagTypes /\ CountTypes /\ HistoryTypes
        /\ Peer(e) \in Ends /\ Peer(e) # e
        /\ Numbers(e)
        /\ CloseOnce(e) /\ Recorded(e) /\ Untouched(e)
        /\ OutboundLedger(e) /\ ShutLast(e) /\ InboundLedger(e)
        /\ session[e] # "stateError"
    BY Opened
  <1>2. CreditInv'
    BY <1>1, CreditCommitStep
  <1>3. Same(Peer(e))
    BY <1>1 DEF CreditCommit, Same, ControlSame, SendSame, RecvSame, CreditSame,
                ControlTypes, FlagTypes, CountTypes, HistoryTypes
  <1>4. /\ SendSame(e) /\ RecvSame(e) /\ CreditSame(e) /\ stream'[e] = stream[e]
        /\ driver'[e] = driver[e] /\ session'[e] = session[e] /\ outPc'[e] = outPc[e]
        /\ dropped'[e] = dropped[e] /\ closeQueued'[e] = closeQueued[e]
        /\ remoteClosed'[e] = remoteClosed[e] /\ failure'[e] = failure[e]
    BY <1>1 DEF CreditCommit, ControlSame, SendSame, RecvSame, CreditSame,
                ControlTypes, FlagTypes, CountTypes, HistoryTypes
  <1>5. creditPc[e] = "commit"
    BY DEF CreditCommit
  <1>6. CloseOnce(e)' /\ Recorded(e)' /\ Untouched(e)'
    BY <1>1, <1>4, <1>5
    DEF ControlSame, SendSame, RecvSame, Live, CloseOnce, Recorded, Untouched,
        DataStages, ShutStages
  <1>7. OutboundLedger(e)' /\ ShutLast(e)' /\ InboundLedger(e)'
    BY <1>1, <1>4, <1>5, MaxDataAssumption
    DEF ControlSame, SendSame, RecvSame, Live, OutboundLedger, ShutLast, InboundLedger,
        DataStages, ShutStages, TakenStages, Numbers
  <1>8. Settled(e)
    BY <1>1, <1>4, <1>5
    DEF ControlSame, SendSame, RecvSame, Live, CreditSame, Settled, CloseDone, ShutDone,
        InHand, OutboundLedger, ShutLast, CloseOnce, Recorded, DataStages, ShutStages,
        TakenStages, Numbers
  <1>9. wire' = wire /\ session'[e] # "stateError"
    BY <1>1, <1>4 DEF CreditCommit, ControlSame
  <1> QED
    BY <1>2, <1>3, <1>6, <1>7, <1>8, <1>9, QuietLife DEF Local

\* Under the gate the driver finds whether CLOSE was queued already.
LEMMA DriverLockGateLife ==
    ASSUME StreamInv, NEW e \in Ends, DriverLockGate(e)
    PROVE  StreamInv'
  <1> USE DEF driverVars, recvVars, sendVars, closeVars, workerVars, history
  <1>1. /\ CreditInv /\ ControlTypes /\ FlagTypes /\ CountTypes /\ HistoryTypes
        /\ Peer(e) \in Ends /\ Peer(e) # e
        /\ Numbers(e)
        /\ CloseOnce(e) /\ Recorded(e) /\ Untouched(e)
        /\ OutboundLedger(e) /\ ShutLast(e) /\ InboundLedger(e)
        /\ session[e] # "stateError"
    BY Opened
  <1>2. CreditInv'
    BY <1>1, DriverLockGateStep
  <1>3. Same(Peer(e))
    BY <1>1 DEF DriverLockGate, AbortWorkers, Same, ControlSame, SendSame, RecvSame, CreditSame,
                ControlTypes, FlagTypes, CountTypes, HistoryTypes
  <1>4. /\ closeQueued'[e] = TRUE
        /\ \/ /\ closeQueued[e] /\ driver'[e] = "idle"
              /\ outPc'[e] = "end" /\ creditPc'[e] = "end" /\ outCount'[e] = 0
           \/ /\ ~closeQueued[e] /\ driver'[e] = "send"
              /\ outPc'[e] = outPc[e] /\ creditPc'[e] = creditPc[e] /\ outCount'[e] = outCount[e]
        /\ RecvSame(e) /\ CreditSame(e) /\ stream'[e] = stream[e]
        /\ session'[e] = session[e] /\ dropped'[e] = dropped[e]
        /\ remoteClosed'[e] = remoteClosed[e] /\ failure'[e] = failure[e]
        /\ written'[e] = written[e] /\ sent'[e] = sent[e] /\ outbound'[e] = outbound[e]
        /\ pendingOutbound'[e] = pendingOutbound[e] /\ writeShutdown'[e] = writeShutdown[e]
        /\ shutdownSent'[e] = shutdownSent[e]
    BY <1>1 DEF DriverLockGate, AbortWorkers, ControlSame, SendSame, RecvSame, CreditSame,
                ControlTypes, FlagTypes, CountTypes, HistoryTypes
  <1>5. driver[e] = "gate" /\ SendGateFree(e)
    BY DEF DriverLockGate, AbortWorkers
  <1>6. CloseOnce(e)' /\ Recorded(e)' /\ Untouched(e)'
    BY <1>1, <1>4, <1>5
    DEF ControlSame, SendSame, RecvSame, Live, CloseOnce, Recorded, Untouched,
        DataStages, ShutStages, SendGateFree
  <1>7. OutboundLedger(e)' /\ ShutLast(e)' /\ InboundLedger(e)'
    BY <1>1, <1>4, <1>5, MaxDataAssumption
    DEF ControlSame, SendSame, RecvSame, Live, OutboundLedger, ShutLast, InboundLedger,
        DataStages, ShutStages, TakenStages, Numbers, Recorded
  <1>8. Settled(e)
    BY <1>1, <1>4, <1>5
    DEF ControlSame, SendSame, RecvSame, Live, CreditSame, Settled, CloseDone, ShutDone,
        InHand, OutboundLedger, ShutLast, CloseOnce, Recorded, DataStages, ShutStages,
        TakenStages, Numbers, Recorded
  <1>9. wire' = wire /\ session'[e] # "stateError"
    BY <1>1, <1>4 DEF DriverLockGate, AbortWorkers, ControlSame
  <1> QED
    BY <1>2, <1>3, <1>6, <1>7, <1>8, <1>9, QuietLife DEF Local

\* A worker that stopped by itself retires the stream with it.
LEMMA WorkerEventLife ==
    ASSUME StreamInv, NEW e \in Ends, WorkerEvent(e)
    PROVE  StreamInv'
  <1> USE DEF driverVars, recvVars, sendVars, closeVars, workerVars, history
  <1>1. /\ CreditInv /\ ControlTypes /\ FlagTypes /\ CountTypes /\ HistoryTypes
        /\ Peer(e) \in Ends /\ Peer(e) # e
        /\ Numbers(e)
        /\ CloseOnce(e) /\ Recorded(e) /\ Untouched(e)
        /\ OutboundLedger(e) /\ ShutLast(e) /\ InboundLedger(e)
        /\ session[e] # "stateError"
    BY Opened
  <1>2. CreditInv'
    BY <1>1, WorkerEventStep
  <1>3. Same(Peer(e))
    BY <1>1 DEF WorkerEvent, AbortWorkers, Same, ControlSame, SendSame, RecvSame, CreditSame,
                ControlTypes, FlagTypes, CountTypes, HistoryTypes
  <1>10. ~(outPc[e] = "stopped" /\ stream[e] = "Open")
    BY <1>1 DEF WorkerEvent, Recorded
  <1>4. /\ stream'[e] = stream[e] \/ (stream[e] = "Open" /\ stream'[e] = "Closing" /\ outPc[e] = "queued")
        /\ outPc'[e] = "end"
        /\ creditPc'[e] \in {creditPc[e], "end"}
        /\ RecvSame(e) /\ CreditSame(e) /\ driver'[e] = driver[e]
        /\ session'[e] = session[e] /\ dropped'[e] = dropped[e]
        /\ closeQueued'[e] = closeQueued[e] /\ remoteClosed'[e] = remoteClosed[e]
        /\ failure'[e] = failure[e] /\ written'[e] = written[e] /\ sent'[e] = sent[e]
        /\ outbound'[e] = outbound[e] /\ pendingOutbound'[e] = pendingOutbound[e]
        /\ writeShutdown'[e] = writeShutdown[e] /\ shutdownSent'[e] = shutdownSent[e]
    BY <1>1, <1>10 DEF WorkerEvent, AbortWorkers, ControlSame, SendSame, RecvSame, CreditSame,
                ControlTypes, FlagTypes, CountTypes, HistoryTypes
  <1>5. driver[e] = "idle" /\ outPc[e] \in {"queued", "stopped"}
    BY DEF WorkerEvent, AbortWorkers
  <1>6. CloseOnce(e)' /\ Recorded(e)' /\ Untouched(e)'
    BY <1>1, <1>4, <1>5
    DEF ControlSame, SendSame, RecvSame, Live, CloseOnce, Recorded, Untouched,
        DataStages, ShutStages
  <1>7. OutboundLedger(e)' /\ ShutLast(e)' /\ InboundLedger(e)'
    BY <1>1, <1>4, <1>5, MaxDataAssumption
    DEF ControlSame, SendSame, RecvSame, Live, OutboundLedger, ShutLast, InboundLedger,
        DataStages, ShutStages, TakenStages, Numbers
  <1>8. Settled(e)
    BY <1>1, <1>4, <1>5
    DEF ControlSame, SendSame, RecvSame, Live, CreditSame, Settled, CloseDone, ShutDone,
        InHand, OutboundLedger, ShutLast, CloseOnce, Recorded, DataStages, ShutStages,
        TakenStages, Numbers
  <1>9. wire' = wire /\ session'[e] # "stateError"
    BY <1>1, <1>4 DEF WorkerEvent, AbortWorkers, ControlSame
  <1> QED
    BY <1>2, <1>3, <1>6, <1>7, <1>8, <1>9, QuietLife DEF Local

\* A cancelled stream waits in the map for the answer to its CLOSE.
LEMMA CancelOpenLife ==
    ASSUME StreamInv, NEW e \in Ends, CancelOpen(e)
    PROVE  StreamInv'
  <1> USE DEF driverVars, recvVars, sendVars, closeVars, workerVars, history
  <1>1. /\ CreditInv /\ ControlTypes /\ FlagTypes /\ CountTypes /\ HistoryTypes
        /\ Peer(e) \in Ends /\ Peer(e) # e
        /\ Numbers(e)
        /\ CloseOnce(e) /\ Recorded(e) /\ Untouched(e)
        /\ OutboundLedger(e) /\ ShutLast(e) /\ InboundLedger(e)
        /\ session[e] # "stateError"
    BY Opened
  <1>2. CreditInv'
    BY <1>1, CancelOpenStep
  <1>3. Same(Peer(e))
    BY <1>1 DEF CancelOpen, RemoteClose, Same, ControlSame, SendSame, RecvSame, CreditSame,
                ControlTypes, FlagTypes, CountTypes, HistoryTypes
  <1>4. /\ stream'[e] = "Closing" /\ driver'[e] = "gate"
        /\ remoteClosed'[e] = TRUE /\ failure'[e] = TRUE /\ inboundEof'[e] = TRUE
        /\ outbound'[e] = 0 /\ pendingOutbound'[e] = 0
        /\ CreditSame(e) /\ session'[e] = session[e] /\ outPc'[e] = outPc[e]
        /\ creditPc'[e] = creditPc[e] /\ dropped'[e] = dropped[e]
        /\ closeQueued'[e] = closeQueued[e] /\ written'[e] = written[e]
        /\ sent'[e] = sent[e] /\ outCount'[e] = outCount[e]
        /\ writeShutdown'[e] = writeShutdown[e] /\ shutdownSent'[e] = shutdownSent[e]
        /\ inbound'[e] = inbound[e] /\ arrived'[e] = arrived[e] /\ taken'[e] = taken[e]
    BY <1>1 DEF CancelOpen, RemoteClose, ControlSame, SendSame, RecvSame, CreditSame,
                ControlTypes, FlagTypes, CountTypes, HistoryTypes
  <1>5. driver[e] = "idle" /\ stream[e] = "Open" /\ dropped[e]
    BY DEF CancelOpen, RemoteClose
  <1>6. CloseOnce(e)' /\ Recorded(e)' /\ Untouched(e)'
    BY <1>1, <1>4, <1>5
    DEF ControlSame, SendSame, RecvSame, Live, CloseOnce, Recorded, Untouched,
        DataStages, ShutStages
  <1>7. OutboundLedger(e)' /\ ShutLast(e)' /\ InboundLedger(e)'
    BY <1>1, <1>4, <1>5, MaxDataAssumption
    DEF ControlSame, SendSame, RecvSame, Live, OutboundLedger, ShutLast, InboundLedger,
        DataStages, ShutStages, TakenStages, Numbers
  <1>8. Settled(e)
    BY <1>1, <1>4, <1>5
    DEF ControlSame, SendSame, RecvSame, Live, CreditSame, Settled, CloseDone, ShutDone,
        InHand, OutboundLedger, ShutLast, CloseOnce, Recorded, DataStages, ShutStages,
        TakenStages, Numbers
  <1>9. wire' = wire /\ session'[e] # "stateError"
    BY <1>1, <1>4 DEF CancelOpen, RemoteClose, ControlSame
  <1> QED
    BY <1>2, <1>3, <1>6, <1>7, <1>8, <1>9, QuietLife DEF Local

\* The streams of a lost session fail; what was queued stays queued.
LEMMA TearDownLife ==
    ASSUME StreamInv, NEW e \in Ends, TearDown(e)
    PROVE  StreamInv'
  <1> USE DEF driverVars, recvVars, sendVars, closeVars, workerVars, history
  <1>1. /\ CreditInv /\ ControlTypes /\ FlagTypes /\ CountTypes /\ HistoryTypes
        /\ Peer(e) \in Ends /\ Peer(e) # e
        /\ Numbers(e)
        /\ CloseOnce(e) /\ Recorded(e) /\ Untouched(e)
        /\ OutboundLedger(e) /\ ShutLast(e) /\ InboundLedger(e)
        /\ session[e] # "stateError"
    BY Opened
  <1>2. CreditInv'
    BY <1>1, TearDownStep
  <1>3. Same(Peer(e))
    BY <1>1 DEF TearDown, AbortWorkers, RemoteClose, Same, ControlSame, SendSame, RecvSame,
        CreditSame,
                ControlTypes, FlagTypes, CountTypes, HistoryTypes
  <1>10. (IF session[e] = "up" THEN "lost" ELSE session[e]) # "stateError"
    BY <1>1
  <1>4. /\ session'[e] # "stateError" /\ driver'[e] = "ended"
        /\ outPc'[e] = "end" /\ creditPc'[e] = "end" /\ outCount'[e] = 0
        /\ \/ /\ stream[e] = "Open" /\ remoteClosed'[e] = TRUE /\ failure'[e] = TRUE
              /\ inboundEof'[e] = TRUE /\ outbound'[e] = 0 /\ pendingOutbound'[e] = 0
           \/ /\ stream[e] # "Open" /\ remoteClosed'[e] = remoteClosed[e] /\ failure'[e] = failure[e]
              /\ inboundEof'[e] = inboundEof[e] /\ outbound'[e] = outbound[e]
              /\ pendingOutbound'[e] = pendingOutbound[e]
        /\ CreditSame(e) /\ stream'[e] = stream[e] /\ dropped'[e] = dropped[e]
        /\ closeQueued'[e] = closeQueued[e] /\ written'[e] = written[e]
        /\ sent'[e] = sent[e] /\ writeShutdown'[e] = writeShutdown[e]
        /\ shutdownSent'[e] = shutdownSent[e] /\ inbound'[e] = inbound[e]
        /\ arrived'[e] = arrived[e] /\ taken'[e] = taken[e]
    <2>1. session'[e] # "stateError" /\ driver'[e] = "ended"
      BY <1>1, <1>10 DEF TearDown, ControlTypes
    <2>2. outPc'[e] = "end" /\ creditPc'[e] = "end" /\ outCount'[e] = 0
      BY <1>1 DEF TearDown, AbortWorkers, ControlTypes, CountTypes
    <2>3. \/ /\ stream[e] = "Open" /\ remoteClosed'[e] = TRUE /\ failure'[e] = TRUE
             /\ inboundEof'[e] = TRUE /\ outbound'[e] = 0 /\ pendingOutbound'[e] = 0
          \/ /\ stream[e] # "Open"
             /\ UNCHANGED <<remoteClosed, failure, inboundEof, outbound, pendingOutbound>>
      <3>1. CASE stream[e] = "Open"
        <4>1. RemoteClose(e, TRUE)
          BY <3>1 DEF TearDown
        <4> QED
          BY <1>1, <3>1, <4>1 DEF RemoteClose, FlagTypes, CountTypes
      <3>2. CASE stream[e] # "Open"
        BY <3>2 DEF TearDown
      <3> QED
        BY <3>1, <3>2
    <2> QED
      BY <2>1, <2>2, <2>3 DEF TearDown, CreditSame
  <1>6. CloseOnce(e)' /\ Recorded(e)' /\ Untouched(e)'
    BY <1>1, <1>4
    DEF ControlSame, SendSame, RecvSame, Live, CloseOnce, Recorded, Untouched,
        DataStages, ShutStages
  <1>7. OutboundLedger(e)' /\ ShutLast(e)' /\ InboundLedger(e)'
    BY <1>1, <1>4, MaxDataAssumption
    DEF ControlSame, SendSame, RecvSame, Live, OutboundLedger, ShutLast, InboundLedger,
        DataStages, ShutStages, TakenStages, Numbers, Recorded, Untouched, ControlTypes
  <1>8. Settled(e)
    BY <1>1, <1>4
    DEF ControlSame, SendSame, RecvSame, Live, CreditSame, Settled, CloseDone, ShutDone,
        InHand, OutboundLedger, ShutLast, CloseOnce, Recorded, DataStages, ShutStages,
        TakenStages, Numbers, Recorded, Untouched, ControlTypes
  <1>9. wire' = wire /\ session'[e] # "stateError"
    BY <1>1, <1>4 DEF TearDown, AbortWorkers, RemoteClose, ControlSame
  <1> QED
    BY <1>2, <1>3, <1>6, <1>7, <1>8, <1>9, QuietLife DEF Local

-----------------------------------------------------------------------------
(* Steps that queue a frame.                                               *)

\* What a step of e that queues the frame new must keep.
Appended(e, new) ==
    /\ wire' = [wire EXCEPT ![e] = Append(wire[e], new)]
    /\ ~CloseDone(e)
    /\ new.type # "OPEN_OK"
    /\ new.type = "CLOSE" => CloseDone(e)'
    /\ new.type = "DATA" => new.count <= MaxData
    /\ new.type \in {"DATA", "SHUTDOWN_WRITE"} => ~ShutDone(e)
    /\ new.type = "SHUTDOWN_WRITE" => new.at = sent'[e] /\ ShutDone(e)'
    /\ ShutDone(e) => ShutDone(e)' /\ sent'[e] = sent[e]
    /\ stream'[e] = stream[e] /\ dropped'[e] = dropped[e]
    /\ inboundEof'[e] = inboundEof[e] /\ remoteClosed'[e] = remoteClosed[e]
    /\ arrived'[e] = arrived[e] /\ credited'[e] = credited[e]
    /\ Live(e) =>
          /\ available'[e] + InHand(e)' + sent'[e] = available[e] + InHand(e) + sent[e]
          /\ inbound'[e] + returnedCredit'[e] + granted'[e]
               = inbound[e] + returnedCredit[e] + granted[e]

\* A step of e that queues one lawful frame keeps the invariant.
LEMMA QueueLife ==
    ASSUME StreamInv, CreditInv', NEW e \in Ends, NEW new \in Frame, Same(Peer(e)),
           session'[e] # "stateError", Local(e)', Appended(e, new)
    PROVE  StreamInv'
  <1>1. /\ Peer(e) \in Ends /\ Peer(e) # e /\ Peer(Peer(e)) = e
        /\ Frames(e) /\ Frames(Peer(e)) /\ WireType
        /\ Numbers(e) /\ Numbers(Peer(e)) /\ wire[e] \in Seq(Frame)
    BY Opened
  <1>2. /\ CloseDone(Peer(e))' = CloseDone(Peer(e))
        /\ ShutDone(Peer(e))' = ShutDone(Peer(e))
        /\ Live(Peer(e))' = Live(Peer(e))
        /\ InHand(Peer(e))' = InHand(Peer(e))
    BY DEF Same, ControlSame, SendSame, CloseDone, ShutDone, Live, InHand
  <1>3. wire'[e] = Append(wire[e], new) /\ wire'[Peer(e)] = wire[Peer(e)]
    BY <1>1 DEF Appended, WireType
  <1>4. Frames(e)'
    BY <1>1, <1>3, FramesQueued DEF Same, ControlSame, RecvSame, Appended
  <1>5. Frames(Peer(e))'
    BY <1>1, <1>2, <1>3, FramesKept DEF Same, SendSame, Appended
  <1>6. ClosedByPeer(e)' /\ ClosedByPeer(Peer(e))'
    BY <1>1 DEF StreamInv, ClosedByPeer, Appended, Same, ControlSame
  <1>7. Conserved(e)' /\ Conserved(Peer(e))'
    <2>1. Conserved(e) /\ Conserved(Peer(e))
      BY <1>1 DEF StreamInv
    <2>2. Numbers(e)' /\ Numbers(Peer(e))'
      BY <1>1, NumbersNext
    <2>3. /\ available'[Peer(e)] = available[Peer(e)] /\ sent'[Peer(e)] = sent[Peer(e)]
          /\ inbound'[Peer(e)] = inbound[Peer(e)] /\ arrived'[Peer(e)] = arrived[Peer(e)]
          /\ returnedCredit'[Peer(e)] = returnedCredit[Peer(e)]
          /\ granted'[Peer(e)] = granted[Peer(e)] /\ credited'[Peer(e)] = credited[Peer(e)]
      BY DEF Same, SendSame, RecvSame, CreditSame
    <2>4. /\ arrived'[e] = arrived[e] /\ credited'[e] = credited[e]
          /\ Live(e)' => /\ Live(e)
                         /\ available'[e] + InHand(e)' + sent'[e]
                              = available[e] + InHand(e) + sent[e]
                         /\ inbound'[e] + returnedCredit'[e] + granted'[e]
                              = inbound[e] + returnedCredit[e] + granted[e]
      BY DEF Appended, Live
    <2>5. Conserved(e)'
      BY <1>1, <1>2, <2>1, <2>2, <2>3, <2>4, WindowAssumption DEF Conserved, Numbers
    <2>6. Conserved(Peer(e))'
      <3> SUFFICES ASSUME Live(Peer(e))', Live(e)'
                   PROVE  available'[Peer(e)] + InHand(Peer(e))' + sent'[Peer(e)] + inbound'[e]
                            + returnedCredit'[e] + granted'[e]
                          = Window + arrived'[e] + credited'[Peer(e)]
        BY <1>1 DEF Conserved
      <3>1. available[Peer(e)] + InHand(Peer(e)) + sent[Peer(e)] + inbound[e]
              + returnedCredit[e] + granted[e]
            = Window + arrived[e] + credited[Peer(e)]
        BY <1>1, <1>2, <2>1, <2>4 DEF Conserved
      <3>2. inbound'[e] + returnedCredit'[e] + granted'[e]
            = inbound[e] + returnedCredit[e] + granted[e]
        BY <2>4
      <3>3. /\ available[Peer(e)] \in Nat /\ InHand(Peer(e)) \in Nat /\ sent[Peer(e)] \in Nat
            /\ inbound[e] \in Nat /\ returnedCredit[e] \in Nat /\ granted[e] \in Nat
            /\ inbound'[e] \in Nat /\ returnedCredit'[e] \in Nat /\ granted'[e] \in Nat
        BY <1>1, <2>2 DEF Numbers
      <3>4. available[Peer(e)] + InHand(Peer(e)) + sent[Peer(e)] + inbound'[e]
              + returnedCredit'[e] + granted'[e]
            = available[Peer(e)] + InHand(Peer(e)) + sent[Peer(e)] + inbound[e]
              + returnedCredit[e] + granted[e]
        BY <3>2, <3>3
      <3> QED
        BY <1>2, <2>3, <2>4, <3>1, <3>4
    <2> QED
      BY <2>5, <2>6
  <1> QED
    BY <1>4, <1>5, <1>6, <1>7, Closed

\* DATA is queued with all the bytes in hand, before any half-close or CLOSE.
LEMMA DataSendLife ==
    ASSUME StreamInv, NEW e \in Ends, DataSend(e)
    PROVE  StreamInv'
  <1> USE DEF driverVars, recvVars, sendVars, closeVars, workerVars, history
  <1> DEFINE new == [type |-> "DATA", count |-> outCount[e], reason |-> "Normal",
                     at |-> sent[e], credit |-> granted[e]]
  <1>1. /\ CreditInv /\ ControlTypes /\ FlagTypes /\ CountTypes /\ HistoryTypes
        /\ Peer(e) \in Ends /\ Peer(e) # e
        /\ Numbers(e)
        /\ CloseOnce(e) /\ Recorded(e) /\ Untouched(e)
        /\ OutboundLedger(e) /\ ShutLast(e) /\ InboundLedger(e)
        /\ session[e] # "stateError"
    BY Opened
  <1>2. CreditInv'
    BY <1>1, DataSendStep
  <1>3. Same(Peer(e))
    BY <1>1 DEF DataSend, Same, ControlSame, SendSame, RecvSame, CreditSame,
                ControlTypes, FlagTypes, CountTypes, HistoryTypes
  <1>4. /\ outPc'[e] = "dataMark"
        /\ sent'[e] = sent[e] + outCount[e]
        /\ RecvSame(e) /\ CreditSame(e) /\ stream'[e] = stream[e] /\ driver'[e] = driver[e]
        /\ session'[e] = session[e] /\ creditPc'[e] = creditPc[e]
        /\ dropped'[e] = dropped[e] /\ closeQueued'[e] = closeQueued[e]
        /\ remoteClosed'[e] = remoteClosed[e] /\ failure'[e] = failure[e]
        /\ written'[e] = written[e] /\ outbound'[e] = outbound[e]
        /\ pendingOutbound'[e] = pendingOutbound[e] /\ outCount'[e] = outCount[e]
        /\ writeShutdown'[e] = writeShutdown[e] /\ shutdownSent'[e] = shutdownSent[e]
    BY <1>1 DEF DataSend, ControlSame, SendSame, RecvSame, CreditSame,
                ControlTypes, FlagTypes, CountTypes, HistoryTypes
  <1>5. outPc[e] = "dataSend"
    BY DEF DataSend
  <1>6. CloseOnce(e)' /\ Recorded(e)' /\ Untouched(e)'
    BY <1>1, <1>4, <1>5
    DEF ControlSame, SendSame, RecvSame, Live, CloseOnce, Recorded, Untouched,
        DataStages, ShutStages
  <1>7. OutboundLedger(e)' /\ ShutLast(e)' /\ InboundLedger(e)'
    BY <1>1, <1>4, <1>5, MaxDataAssumption
    DEF ControlSame, SendSame, RecvSame, Live, OutboundLedger, ShutLast, InboundLedger,
        DataStages, ShutStages, TakenStages, Numbers
  <1>8. new \in Frame /\ new.type = "DATA" /\ new.count = outCount[e] /\ new.at = sent[e]
    BY <1>1 DEF Frame, FrameTypes, Reasons, Numbers, ControlTypes
  <1>9. wire' = [wire EXCEPT ![e] = Append(wire[e], new)]
    BY DEF DataSend, Queue
  <1> HIDE DEF new
  <1>10. Appended(e, new)
    BY <1>1, <1>4, <1>5, <1>8, <1>9
    DEF ControlSame, SendSame, RecvSame, Live, CreditSame, Appended, CloseDone, ShutDone,
        InHand,
        OutboundLedger, ShutLast, CloseOnce, Recorded, DataStages, ShutStages,
        TakenStages, Numbers
  <1> QED
    BY <1>1, <1>2, <1>3, <1>4, <1>6, <1>7, <1>8, <1>10, QueueLife DEF Local, ControlSame

\* SHUTDOWN_WRITE is queued behind the last byte.
LEMMA ShutdownSendLife ==
    ASSUME StreamInv, NEW e \in Ends, ShutdownSend(e)
    PROVE  StreamInv'
  <1> USE DEF driverVars, recvVars, sendVars, closeVars, workerVars, history
  <1> DEFINE new == [type |-> "SHUTDOWN_WRITE", count |-> 0, reason |-> "Normal",
                     at |-> sent[e], credit |-> granted[e]]
  <1>1. /\ CreditInv /\ ControlTypes /\ FlagTypes /\ CountTypes /\ HistoryTypes
        /\ Peer(e) \in Ends /\ Peer(e) # e
        /\ Numbers(e)
        /\ CloseOnce(e) /\ Recorded(e) /\ Untouched(e)
        /\ OutboundLedger(e) /\ ShutLast(e) /\ InboundLedger(e)
        /\ session[e] # "stateError"
    BY Opened
  <1>2. CreditInv'
    BY <1>1, ShutdownSendStep
  <1>3. Same(Peer(e))
    BY <1>1 DEF ShutdownSend, Same, ControlSame, SendSame, RecvSame, CreditSame,
                ControlTypes, FlagTypes, CountTypes, HistoryTypes
  <1>4. /\ outPc'[e] = "shutMark"
        /\ SendSame(e) /\ RecvSame(e) /\ CreditSame(e) /\ stream'[e] = stream[e]
        /\ driver'[e] = driver[e] /\ session'[e] = session[e] /\ creditPc'[e] = creditPc[e]
        /\ dropped'[e] = dropped[e] /\ closeQueued'[e] = closeQueued[e]
        /\ remoteClosed'[e] = remoteClosed[e] /\ failure'[e] = failure[e]
    BY <1>1 DEF ShutdownSend, ControlSame, SendSame, RecvSame, CreditSame,
                ControlTypes, FlagTypes, CountTypes, HistoryTypes
  <1>5. outPc[e] = "shutSend"
    BY DEF ShutdownSend
  <1>6. CloseOnce(e)' /\ Recorded(e)' /\ Untouched(e)'
    BY <1>1, <1>4, <1>5
    DEF ControlSame, SendSame, RecvSame, Live, CloseOnce, Recorded, Untouched,
        DataStages, ShutStages
  <1>7. OutboundLedger(e)' /\ ShutLast(e)' /\ InboundLedger(e)'
    BY <1>1, <1>4, <1>5, MaxDataAssumption
    DEF ControlSame, SendSame, RecvSame, Live, OutboundLedger, ShutLast, InboundLedger,
        DataStages, ShutStages, TakenStages, Numbers
  <1>8. new \in Frame /\ new.type = "SHUTDOWN_WRITE" /\ new.count = 0 /\ new.at = sent[e]
    BY <1>1 DEF Frame, FrameTypes, Reasons, Numbers, ControlTypes
  <1>9. wire' = [wire EXCEPT ![e] = Append(wire[e], new)]
    BY DEF ShutdownSend, Queue
  <1> HIDE DEF new
  <1>10. Appended(e, new)
    BY <1>1, <1>4, <1>5, <1>8, <1>9
    DEF ControlSame, SendSame, RecvSame, Live, CreditSame, Appended, CloseDone, ShutDone,
        InHand,
        OutboundLedger, ShutLast, CloseOnce, Recorded, DataStages, ShutStages,
        TakenStages, Numbers
  <1> QED
    BY <1>1, <1>2, <1>3, <1>4, <1>6, <1>7, <1>8, <1>10, QueueLife DEF Local, ControlSame

\* The worker queues the only CLOSE.
LEMMA CloseSendLife ==
    ASSUME StreamInv, NEW e \in Ends, CloseSend(e)
    PROVE  StreamInv'
  <1> USE DEF driverVars, recvVars, sendVars, closeVars, workerVars, history
  <1> DEFINE new == [type |-> "CLOSE", count |-> 0, reason |-> closeReason[e],
                     at |-> sent[e], credit |-> granted[e]]
  <1>1. /\ CreditInv /\ ControlTypes /\ FlagTypes /\ CountTypes /\ HistoryTypes
        /\ Peer(e) \in Ends /\ Peer(e) # e
        /\ Numbers(e)
        /\ CloseOnce(e) /\ Recorded(e) /\ Untouched(e)
        /\ OutboundLedger(e) /\ ShutLast(e) /\ InboundLedger(e)
        /\ session[e] # "stateError"
    BY Opened
  <1>2. CreditInv'
    BY <1>1, CloseSendStep
  <1>3. Same(Peer(e))
    BY <1>1 DEF CloseSend, Same, ControlSame, SendSame, RecvSame, CreditSame,
                ControlTypes, FlagTypes, CountTypes, HistoryTypes
  <1>4. /\ outPc'[e] = "queued"
        /\ SendSame(e) /\ RecvSame(e) /\ CreditSame(e) /\ stream'[e] = stream[e]
        /\ driver'[e] = driver[e] /\ session'[e] = session[e] /\ creditPc'[e] = creditPc[e]
        /\ dropped'[e] = dropped[e] /\ closeQueued'[e] = closeQueued[e]
        /\ remoteClosed'[e] = remoteClosed[e] /\ failure'[e] = failure[e]
    BY <1>1 DEF CloseSend, ControlSame, SendSame, RecvSame, CreditSame,
                ControlTypes, FlagTypes, CountTypes, HistoryTypes
  <1>5. outPc[e] = "closeSend"
    BY DEF CloseSend
  <1>6. CloseOnce(e)' /\ Recorded(e)' /\ Untouched(e)'
    BY <1>1, <1>4, <1>5
    DEF ControlSame, SendSame, RecvSame, Live, CloseOnce, Recorded, Untouched,
        DataStages, ShutStages
  <1>7. OutboundLedger(e)' /\ ShutLast(e)' /\ InboundLedger(e)'
    BY <1>1, <1>4, <1>5, MaxDataAssumption
    DEF ControlSame, SendSame, RecvSame, Live, OutboundLedger, ShutLast, InboundLedger,
        DataStages, ShutStages, TakenStages, Numbers
  <1>8. new \in Frame /\ new.type = "CLOSE" /\ new.count = 0 /\ new.at = sent[e]
    BY <1>1 DEF Frame, FrameTypes, Reasons, Numbers, ControlTypes
  <1>9. wire' = [wire EXCEPT ![e] = Append(wire[e], new)]
    BY DEF CloseSend, Queue
  <1> HIDE DEF new
  <1>10. Appended(e, new)
    BY <1>1, <1>4, <1>5, <1>8, <1>9
    DEF ControlSame, SendSame, RecvSame, Live, CreditSame, Appended, CloseDone, ShutDone,
        InHand,
        OutboundLedger, ShutLast, CloseOnce, Recorded, DataStages, ShutStages,
        TakenStages, Numbers
  <1> QED
    BY <1>1, <1>2, <1>3, <1>4, <1>6, <1>7, <1>8, <1>10, QueueLife DEF Local, ControlSame

\* The driver queues the only CLOSE, then the workers are gone.
LEMMA DriverSendCloseLife ==
    ASSUME StreamInv, NEW e \in Ends, DriverSendClose(e)
    PROVE  StreamInv'
  <1> USE DEF driverVars, recvVars, sendVars, closeVars, workerVars, history
  <1> DEFINE new == [type |-> "CLOSE", count |-> 0, reason |-> (IF stream[e] = "Closing" THEN "Error" ELSE "Normal"),
                     at |-> sent[e], credit |-> granted[e]]
  <1>1. /\ CreditInv /\ ControlTypes /\ FlagTypes /\ CountTypes /\ HistoryTypes
        /\ Peer(e) \in Ends /\ Peer(e) # e
        /\ Numbers(e)
        /\ CloseOnce(e) /\ Recorded(e) /\ Untouched(e)
        /\ OutboundLedger(e) /\ ShutLast(e) /\ InboundLedger(e)
        /\ session[e] # "stateError"
    BY Opened
  <1>2. CreditInv'
    BY <1>1, DriverSendCloseStep
  <1>3. Same(Peer(e))
    BY <1>1 DEF DriverSendClose, AbortWorkers, Same, ControlSame, SendSame, RecvSame,
        CreditSame,
                ControlTypes, FlagTypes, CountTypes, HistoryTypes
  <1>4. /\ driver'[e] = "idle"
        /\ outPc'[e] = "end" /\ creditPc'[e] = "end" /\ outCount'[e] = 0
        /\ RecvSame(e) /\ CreditSame(e) /\ stream'[e] = stream[e]
        /\ session'[e] = session[e] /\ dropped'[e] = dropped[e]
        /\ closeQueued'[e] = closeQueued[e] /\ remoteClosed'[e] = remoteClosed[e]
        /\ failure'[e] = failure[e] /\ written'[e] = written[e] /\ sent'[e] = sent[e]
        /\ outbound'[e] = outbound[e] /\ pendingOutbound'[e] = pendingOutbound[e]
        /\ writeShutdown'[e] = writeShutdown[e] /\ shutdownSent'[e] = shutdownSent[e]
    BY <1>1 DEF DriverSendClose, AbortWorkers, ControlSame, SendSame, RecvSame, CreditSame,
                ControlTypes, FlagTypes, CountTypes, HistoryTypes
  <1>5. driver[e] = "send"
    BY DEF DriverSendClose, AbortWorkers
  <1>6. CloseOnce(e)' /\ Recorded(e)' /\ Untouched(e)'
    BY <1>1, <1>4, <1>5
    DEF ControlSame, SendSame, RecvSame, Live, CloseOnce, Recorded, Untouched,
        DataStages, ShutStages
  <1>7. OutboundLedger(e)' /\ ShutLast(e)' /\ InboundLedger(e)'
    BY <1>1, <1>4, <1>5, MaxDataAssumption
    DEF ControlSame, SendSame, RecvSame, Live, OutboundLedger, ShutLast, InboundLedger,
        DataStages, ShutStages, TakenStages, Numbers, Recorded
  <1>8. new \in Frame /\ new.type = "CLOSE" /\ new.count = 0 /\ new.at = sent[e]
    BY <1>1 DEF Frame, FrameTypes, Reasons, Numbers, ControlTypes
  <1>9. wire' = [wire EXCEPT ![e] = Append(wire[e], new)]
    BY DEF DriverSendClose, AbortWorkers, Queue
  <1> HIDE DEF new
  <1>10. Appended(e, new)
    BY <1>1, <1>4, <1>5, <1>8, <1>9
    DEF ControlSame, SendSame, RecvSame, Live, CreditSame, Appended, CloseDone, ShutDone,
        InHand,
        OutboundLedger, ShutLast, CloseOnce, Recorded, DataStages, ShutStages,
        TakenStages, Numbers, Recorded
  <1> QED
    BY <1>1, <1>2, <1>3, <1>4, <1>6, <1>7, <1>8, <1>10, QueueLife DEF Local, ControlSame

\* Credit goes back to the peer while the stream is live.
LEMMA CreditSendLiveLife ==
    ASSUME StreamInv, NEW e \in Ends, CreditSend(e), Live(e)
    PROVE  StreamInv'
  <1> USE DEF driverVars, recvVars, sendVars, closeVars, workerVars, history
  <1> DEFINE new == [type |-> "WINDOW_UPDATE", count |-> returnedCredit[e], reason |-> "Normal",
                     at |-> sent[e], credit |-> granted[e]]
  <1>1. /\ CreditInv /\ ControlTypes /\ FlagTypes /\ CountTypes /\ HistoryTypes
        /\ Peer(e) \in Ends /\ Peer(e) # e
        /\ Numbers(e)
        /\ CloseOnce(e) /\ Recorded(e) /\ Untouched(e)
        /\ OutboundLedger(e) /\ ShutLast(e) /\ InboundLedger(e)
        /\ session[e] # "stateError"
    BY Opened
  <1>2. CreditInv'
    BY <1>1, CreditSendStep
  <1>3. Same(Peer(e))
    BY <1>1 DEF CreditSend, Same, ControlSame, SendSame, RecvSame, CreditSame,
                ControlTypes, FlagTypes, CountTypes, HistoryTypes
  <1>4. /\ creditPc'[e] = "commit"
        /\ returnedCredit'[e] = 0
        /\ granted'[e] = granted[e] + returnedCredit[e]
        /\ SendSame(e) /\ RecvSame(e) /\ stream'[e] = stream[e] /\ driver'[e] = driver[e]
        /\ session'[e] = session[e] /\ outPc'[e] = outPc[e] /\ dropped'[e] = dropped[e]
        /\ closeQueued'[e] = closeQueued[e] /\ remoteClosed'[e] = remoteClosed[e]
        /\ failure'[e] = failure[e] /\ available'[e] = available[e]
        /\ credited'[e] = credited[e]
    BY <1>1 DEF CreditSend, ControlSame, SendSame, RecvSame, CreditSame,
                ControlTypes, FlagTypes, CountTypes, HistoryTypes
  <1>5. creditPc[e] = "gate" /\ Live(e)
    BY DEF CreditSend, Live
  <1>6. CloseOnce(e)' /\ Recorded(e)' /\ Untouched(e)'
    BY <1>1, <1>4, <1>5
    DEF ControlSame, SendSame, RecvSame, Live, CloseOnce, Recorded, Untouched,
        DataStages, ShutStages
  <1>7. OutboundLedger(e)' /\ ShutLast(e)' /\ InboundLedger(e)'
    BY <1>1, <1>4, <1>5, MaxDataAssumption
    DEF ControlSame, SendSame, RecvSame, Live, OutboundLedger, ShutLast, InboundLedger,
        DataStages, ShutStages, TakenStages, Numbers
  <1>8. new \in Frame /\ new.type = "WINDOW_UPDATE" /\ new.count = returnedCredit[e] /\ new.at = sent[e]
    BY <1>1 DEF Frame, FrameTypes, Reasons, Numbers, ControlTypes
  <1>9. wire' = [wire EXCEPT ![e] = Append(wire[e], new)]
    BY <1>5 DEF CreditSend, Queue
  <1> HIDE DEF new
  <1>10. Appended(e, new)
    BY <1>1, <1>4, <1>5, <1>8, <1>9
    DEF ControlSame, SendSame, RecvSame, Live, CreditSame, Appended, CloseDone, ShutDone,
        InHand,
        OutboundLedger, ShutLast, CloseOnce, Recorded, DataStages, ShutStages,
        TakenStages, Numbers
  <1> QED
    BY <1>1, <1>2, <1>3, <1>4, <1>6, <1>7, <1>8, <1>10, QueueLife DEF Local, ControlSame

\* The credit worker of a stream that is closing ends.
LEMMA CreditSendDeadLife ==
    ASSUME StreamInv, NEW e \in Ends, CreditSend(e), ~Live(e)
    PROVE  StreamInv'
  <1> USE DEF driverVars, recvVars, sendVars, closeVars, workerVars, history
  <1>1. /\ CreditInv /\ ControlTypes /\ FlagTypes /\ CountTypes /\ HistoryTypes
        /\ Peer(e) \in Ends /\ Peer(e) # e
        /\ Numbers(e)
        /\ CloseOnce(e) /\ Recorded(e) /\ Untouched(e)
        /\ OutboundLedger(e) /\ ShutLast(e) /\ InboundLedger(e)
        /\ session[e] # "stateError"
    BY Opened
  <1>2. CreditInv'
    BY <1>1, CreditSendStep
  <1>3. Same(Peer(e))
    BY <1>1 DEF CreditSend, Same, ControlSame, SendSame, RecvSame, CreditSame,
                ControlTypes, FlagTypes, CountTypes, HistoryTypes
  <1>4. /\ creditPc'[e] = "end"
        /\ SendSame(e) /\ RecvSame(e) /\ CreditSame(e) /\ stream'[e] = stream[e]
        /\ driver'[e] = driver[e] /\ session'[e] = session[e] /\ outPc'[e] = outPc[e]
        /\ dropped'[e] = dropped[e] /\ closeQueued'[e] = closeQueued[e]
        /\ remoteClosed'[e] = remoteClosed[e] /\ failure'[e] = failure[e]
    BY <1>1 DEF CreditSend, ControlSame, SendSame, RecvSame, CreditSame,
                ControlTypes, FlagTypes, CountTypes, HistoryTypes
  <1>5. creditPc[e] = "gate"
    BY DEF CreditSend
  <1>6. CloseOnce(e)' /\ Recorded(e)' /\ Untouched(e)'
    BY <1>1, <1>4, <1>5
    DEF ControlSame, SendSame, RecvSame, Live, CloseOnce, Recorded, Untouched,
        DataStages, ShutStages
  <1>7. OutboundLedger(e)' /\ ShutLast(e)' /\ InboundLedger(e)'
    BY <1>1, <1>4, <1>5, MaxDataAssumption
    DEF ControlSame, SendSame, RecvSame, Live, OutboundLedger, ShutLast, InboundLedger,
        DataStages, ShutStages, TakenStages, Numbers
  <1>8. Settled(e)
    BY <1>1, <1>4, <1>5
    DEF ControlSame, SendSame, RecvSame, Live, CreditSame, Settled, CloseDone, ShutDone,
        InHand, OutboundLedger, ShutLast, CloseOnce, Recorded, DataStages, ShutStages,
        TakenStages, Numbers
  <1>9. wire' = wire /\ session'[e] # "stateError"
    BY <1>1, <1>4 DEF CreditSend, ControlSame
  <1> QED
    BY <1>2, <1>3, <1>6, <1>7, <1>8, <1>9, QuietLife DEF Local

\* The credit worker under the gate, whether or not the stream is still live.
LEMMA CreditSendLife ==
    ASSUME StreamInv, NEW e \in Ends, CreditSend(e)
    PROVE  StreamInv'
  BY CreditSendLiveLife, CreditSendDeadLife

-----------------------------------------------------------------------------
(* Steps that handle a frame.                                              *)

\* What the driver of e finds at the head of the wire agrees with its records:
\* no frame comes for a retired stream, OPEN_OK comes first, DATA fits a frame
\* and nothing follows SHUTDOWN_WRITE but credit and CLOSE.
LEMMA HeadFacts ==
    ASSUME StreamInv, NEW e \in Ends, NEW type, Receive(e, type)
    PROVE  /\ wire[Peer(e)] # <<>>
           /\ Head(wire[Peer(e)]) \in Frame /\ Head(wire[Peer(e)]).type = type
           /\ stream[e] # "Gone"
           /\ stream[e] = "Opening" <=> type = "OPEN_OK"
           /\ stream[e] = "Open" => ~remoteClosed[e]
           /\ type = "DATA" => Head(wire[Peer(e)]).count <= MaxData
           /\ type \in {"DATA", "SHUTDOWN_WRITE"} => ~(inboundEof[e] /\ ~remoteClosed[e])
           /\ type = "SHUTDOWN_WRITE" => arrived[e] = sent[Peer(e)]
           /\ inboundEof[e] /\ ~remoteClosed[e] => arrived[e] = sent[Peer(e)]
           /\ type = "CLOSE" => dropped[Peer(e)] \/ dropped[e]
           /\ type = "CLOSE" => Len(wire[Peer(e)]) = 1
  <1> DEFINE w == wire[Peer(e)]
  <1>1. /\ Peer(e) \in Ends /\ Peer(Peer(e)) = e /\ ControlTypes
        /\ w \in Seq(Frame) /\ Frames(Peer(e)) /\ Recorded(e)
    BY Opened
  <1>2. w # <<>> /\ Head(w).type = type /\ driver[e] = "idle"
    BY DEF Receive
  <1>3. Head(w) = w[1] /\ 1 \in 1 .. Len(w) /\ Head(w) \in Frame /\ Len(w) \in Nat
    BY <1>1, <1>2
  <1>4. CloseFrames(Peer(e)) /\ OpenFrames(Peer(e)) /\ DataFrames(Peer(e))
    BY <1>1 DEF Frames
  <1>5. /\ stream[e] # "Gone"
        /\ type = "CLOSE" => 1 = Len(w) /\ CloseDone(Peer(e))
    BY <1>1, <1>2, <1>3, <1>4 DEF CloseFrames
  <1>6. stream[e] = "Opening" <=> type = "OPEN_OK"
    BY <1>1, <1>2, <1>3, <1>4 DEF OpenFrames
  <1>7. stream[e] = "Open" => ~remoteClosed[e]
    BY <1>1, <1>2 DEF Recorded
  <1>8. /\ type = "DATA" => Head(w).count <= MaxData
        /\ type \in {"DATA", "SHUTDOWN_WRITE"} => ~(inboundEof[e] /\ ~remoteClosed[e])
        /\ type = "SHUTDOWN_WRITE" => w[1].at = sent[Peer(e)]
        /\ inboundEof[e] /\ ~remoteClosed[e] => arrived[e] = sent[Peer(e)]
    BY <1>1, <1>2, <1>3, <1>4 DEF DataFrames
  <1>9. w[1].at = arrived[e]
    <2>1. Tiled(Peer(e))
      BY <1>1 DEF StreamInv, CreditInv
    <2> QED
      BY <1>1, <1>3, <2>1 DEF Tiled, Tiling, Start
  <1>10. type = "CLOSE" => dropped[Peer(e)] \/ dropped[e]
    <2>1. closeQueued[Peer(e)] /\ ~dropped[Peer(e)] => stream[Peer(e)] = "Gone"
      BY <1>1 DEF StreamInv, Local, CloseOnce
    <2>2. stream[Peer(e)] = "Gone" /\ ~dropped[Peer(e)] => dropped[e]
      BY <1>1 DEF StreamInv, ClosedByPeer
    <2> QED
      BY <1>5, <2>1, <2>2 DEF CloseDone
  <1> QED
    BY <1>2, <1>3, <1>5, <1>6, <1>7, <1>8, <1>9, <1>10

\* What a step of e that handles the frame h must keep.
Handled(e, h) ==
    /\ stream'[e] # "Opening"
    /\ stream'[e] = "Gone" => h.type = "CLOSE"
    /\ dropped'[e] = dropped[e]
    /\ CloseDone(e) => CloseDone(e)'
    /\ ShutDone(e) => ShutDone(e)'
    /\ inboundEof'[e] /\ ~remoteClosed'[e] =>
          \/ inboundEof[e] /\ ~remoteClosed[e]
          \/ h.type = "SHUTDOWN_WRITE"
    /\ InHand(e)' = InHand(e)
    /\ Live(e)' =>
          /\ Live(e)
          /\ available'[e] = available[e] + Credit(h)
          /\ inbound'[e] = inbound[e] + DataLen(h)
          /\ returnedCredit'[e] = returnedCredit[e]

\* The same credit, or the same bytes, added on both sides of the ledger.
LEMMA LedgerShift ==
    ASSUME NEW a \in Nat, NEW b \in Nat, NEW c \in Nat, NEW d \in Nat, NEW f \in Nat,
           NEW g \in Nat, NEW x \in Nat, NEW y \in Nat, NEW z \in Nat, NEW n \in Nat,
           a + b + c + d + f + g = x + y + z
    PROVE  /\ (a + n) + b + c + d + f + g = x + y + (z + n)
           /\ a + b + c + (d + n) + f + g = x + (y + n) + z
  OBVIOUS

\* A step of e that handles one frame as the records allow keeps the invariant.
LEMMA PopLife ==
    ASSUME StreamInv, CreditInv', NEW e \in Ends, NEW type, Receive(e, type), Pop(e),
           Same(Peer(e)), session'[e] # "stateError", Local(e)',
           Handled(e, Head(wire[Peer(e)]))
    PROVE  StreamInv'
  <1> DEFINE w == wire[Peer(e)]
             h == Head(w)
  <1>1. /\ Peer(e) \in Ends /\ Peer(e) # e /\ Peer(Peer(e)) = e /\ WireType
        /\ Frames(e) /\ Frames(Peer(e)) /\ HistoryTypes /\ CreditInv
        /\ Numbers(e) /\ Numbers(Peer(e)) /\ w \in Seq(Frame)
    BY Opened
  <1>2. /\ CloseDone(Peer(e))' = CloseDone(Peer(e))
        /\ ShutDone(Peer(e))' = ShutDone(Peer(e))
        /\ Live(Peer(e))' = Live(Peer(e))
        /\ InHand(Peer(e))' = InHand(Peer(e))
    BY DEF Same, ControlSame, SendSame, CloseDone, ShutDone, Live, InHand
  <1>3. /\ w # <<>> /\ h \in Frame /\ h.type = type
        /\ stream[e] # "Gone" /\ (stream[e] = "Opening" <=> type = "OPEN_OK")
        /\ type \in {"DATA", "SHUTDOWN_WRITE"} => ~(inboundEof[e] /\ ~remoteClosed[e])
        /\ type = "SHUTDOWN_WRITE" => arrived[e] = sent[Peer(e)]
        /\ inboundEof[e] /\ ~remoteClosed[e] => arrived[e] = sent[Peer(e)]
        /\ type = "CLOSE" => dropped[Peer(e)] \/ dropped[e]
    BY HeadFacts
  <1>4. wire'[Peer(e)] = Tail(w) /\ wire'[e] = wire[e]
    BY <1>1 DEF Pop, WireType
  <1>5. /\ arrived'[e] = arrived[e] + DataLen(h) /\ credited'[e] = credited[e] + Credit(h)
        /\ DataLen(h) \in Nat /\ Credit(h) \in Nat
        /\ h.type # "DATA" => DataLen(h) = 0
        /\ UNCHANGED <<sent, granted>>
    BY <1>1, <1>3, FrameLens DEF Receive, HistoryTypes, DataLen
  <1> HIDE DEF h
  <1>6. inboundEof'[e] /\ ~remoteClosed'[e] =>
           /\ arrived'[e] = sent[Peer(e)]
           /\ \/ inboundEof[e] /\ ~remoteClosed[e]
              \/ h.type = "SHUTDOWN_WRITE"
    BY <1>1, <1>3, <1>5 DEF Handled, h, Numbers
  <1>7. Frames(Peer(e))'
    BY <1>1, <1>2, <1>3, <1>4, <1>5, <1>6, FramesPopped DEF Handled, h
  <1>8. Frames(e)'
    BY <1>1, <1>4, <1>5, FramesKept DEF Handled, Same, ControlSame, RecvSame
  <1>9. ClosedByPeer(e)' /\ ClosedByPeer(Peer(e))'
    BY <1>1, <1>3 DEF StreamInv, ClosedByPeer, Handled, Same, ControlSame, h
  <1>10. Conserved(e)' /\ Conserved(Peer(e))'
    <2>1. Conserved(e) /\ Conserved(Peer(e))
      BY <1>1 DEF StreamInv
    <2>2. /\ available'[Peer(e)] = available[Peer(e)]
          /\ inbound'[Peer(e)] = inbound[Peer(e)] /\ arrived'[Peer(e)] = arrived[Peer(e)]
          /\ returnedCredit'[Peer(e)] = returnedCredit[Peer(e)]
          /\ credited'[Peer(e)] = credited[Peer(e)]
      BY DEF Same, SendSame, RecvSame, CreditSame
    <2>3. Live(e)' => /\ Live(e)
                      /\ available'[e] = available[e] + Credit(h)
                      /\ inbound'[e] = inbound[e] + DataLen(h)
                      /\ returnedCredit'[e] = returnedCredit[e]
                      /\ InHand(e)' = InHand(e)
      BY DEF Handled, h
    <2>4. Conserved(e)'
      <3> SUFFICES ASSUME Live(e)', Live(Peer(e))'
                   PROVE  available'[e] + InHand(e)' + sent'[e] + inbound'[Peer(e)]
                            + returnedCredit'[Peer(e)] + granted'[Peer(e)]
                          = Window + arrived'[Peer(e)] + credited'[e]
        BY DEF Conserved
      <3>1. available[e] + InHand(e) + sent[e] + inbound[Peer(e)] + returnedCredit[Peer(e)]
              + granted[Peer(e)]
            = Window + arrived[Peer(e)] + credited[e]
        BY <1>2, <2>1, <2>3 DEF Conserved
      <3>2. (available[e] + Credit(h)) + InHand(e) + sent[e] + inbound[Peer(e)]
              + returnedCredit[Peer(e)] + granted[Peer(e)]
            = Window + arrived[Peer(e)] + (credited[e] + Credit(h))
        <4>1. /\ available[e] \in Nat /\ InHand(e) \in Nat /\ sent[e] \in Nat
              /\ inbound[Peer(e)] \in Nat /\ returnedCredit[Peer(e)] \in Nat
              /\ granted[Peer(e)] \in Nat /\ arrived[Peer(e)] \in Nat /\ credited[e] \in Nat
          BY <1>1 DEF Numbers
        <4>2. Credit(h) \in Nat /\ DataLen(h) \in Nat /\ Window \in Nat
          BY <1>5, WindowAssumption
        <4> QED
          BY <3>1, <4>1, <4>2, LedgerShift
      <3> QED
        BY <1>5, <2>2, <2>3, <3>2
    <2>5. Conserved(Peer(e))'
      <3> SUFFICES ASSUME Live(Peer(e))', Live(e)'
                   PROVE  available'[Peer(e)] + InHand(Peer(e))' + sent'[Peer(e)] + inbound'[e]
                            + returnedCredit'[e] + granted'[e]
                          = Window + arrived'[e] + credited'[Peer(e)]
        BY <1>1 DEF Conserved
      <3>1. available[Peer(e)] + InHand(Peer(e)) + sent[Peer(e)] + inbound[e]
              + returnedCredit[e] + granted[e]
            = Window + arrived[e] + credited[Peer(e)]
        BY <1>1, <1>2, <2>1, <2>3 DEF Conserved
      <3>2. available[Peer(e)] + InHand(Peer(e)) + sent[Peer(e)] + (inbound[e] + DataLen(h))
              + returnedCredit[e] + granted[e]
            = Window + (arrived[e] + DataLen(h)) + credited[Peer(e)]
        <4>1. /\ available[Peer(e)] \in Nat /\ InHand(Peer(e)) \in Nat /\ sent[Peer(e)] \in Nat
              /\ inbound[e] \in Nat /\ returnedCredit[e] \in Nat
              /\ granted[e] \in Nat /\ arrived[e] \in Nat /\ credited[Peer(e)] \in Nat
          BY <1>1 DEF Numbers
        <4>2. Credit(h) \in Nat /\ DataLen(h) \in Nat /\ Window \in Nat
          BY <1>5, WindowAssumption
        <4> QED
          BY <3>1, <4>1, <4>2, LedgerShift
      <3> QED
        BY <1>2, <1>5, <2>2, <2>3, <3>2
    <2> QED
      BY <2>4, <2>5
  <1> QED
    BY <1>7, <1>8, <1>9, <1>10, Closed

\* OPEN_OK finds the stream opening.
LEMMA RecvOpenOkLife ==
    ASSUME StreamInv, NEW e \in Ends, RecvOpenOk(e)
    PROVE  StreamInv'
  <1> USE DEF driverVars, recvVars, sendVars, closeVars, workerVars, history
  <1> DEFINE h == Head(wire[Peer(e)])
  <1>1. /\ CreditInv /\ ControlTypes /\ FlagTypes /\ CountTypes /\ HistoryTypes
        /\ Peer(e) \in Ends /\ Peer(e) # e
        /\ Numbers(e)
        /\ CloseOnce(e) /\ Recorded(e) /\ Untouched(e)
        /\ OutboundLedger(e) /\ ShutLast(e) /\ InboundLedger(e)
        /\ session[e] # "stateError"
    BY Opened
  <1>2. CreditInv'
    BY <1>1, RecvOpenOkStep
  <1>3. Same(Peer(e))
    BY <1>1 DEF RecvOpenOk, Receive, EndSession, Same, ControlSame, SendSame, RecvSame,
        CreditSame,
                ControlTypes, FlagTypes, CountTypes, HistoryTypes
  <1>5. Receive(e, "OPEN_OK") /\ Pop(e) /\ driver[e] = "idle" /\ session[e] = "up"
    BY DEF RecvOpenOk, Receive
  <1>11. h \in Frame /\ h.type = "OPEN_OK" /\ stream[e] = "Opening" /\ DataLen(h) = 0 /\ Credit(h) = 0
    BY <1>5, HeadFacts, FrameLens DEF DataLen, Credit
  <1>12. arrived[e] + DataLen(h) = arrived[e] /\ credited[e] + Credit(h) = credited[e]
    BY <1>1, <1>11 DEF Numbers
  <1>4. /\ stream'[e] = "Open"
        /\ arrived'[e] = arrived[e]
        /\ credited'[e] = credited[e]
        /\ SendSame(e) /\ driver'[e] = driver[e] /\ session'[e] = session[e]
        /\ outPc'[e] = outPc[e] /\ creditPc'[e] = creditPc[e] /\ dropped'[e] = dropped[e]
        /\ closeQueued'[e] = closeQueued[e] /\ remoteClosed'[e] = remoteClosed[e]
        /\ failure'[e] = failure[e] /\ inbound'[e] = inbound[e]
        /\ inboundEof'[e] = inboundEof[e] /\ taken'[e] = taken[e]
        /\ available'[e] = available[e] /\ returnedCredit'[e] = returnedCredit[e]
        /\ granted'[e] = granted[e]
    BY <1>1, <1>5, <1>11, <1>12 DEF RecvOpenOk, Receive, EndSession, ControlSame, SendSame,
        RecvSame, CreditSame,
                ControlTypes, FlagTypes, CountTypes, HistoryTypes
  <1> HIDE DEF h
  <1>6. CloseOnce(e)' /\ Recorded(e)' /\ Untouched(e)'
    BY <1>1, <1>4, <1>5, <1>11
    DEF ControlSame, SendSame, RecvSame, Live, CloseOnce, Recorded, Untouched,
        DataStages, ShutStages
  <1>7. OutboundLedger(e)' /\ ShutLast(e)' /\ InboundLedger(e)'
    BY <1>1, <1>4, <1>5, <1>11, MaxDataAssumption
    DEF ControlSame, SendSame, RecvSame, Live, OutboundLedger, ShutLast, InboundLedger,
        DataStages, ShutStages, TakenStages, Numbers
  <1>8. Handled(e, h)
    BY <1>1, <1>4, <1>5, <1>11
    DEF ControlSame, SendSame, RecvSame, Live, CreditSame, Handled, CloseDone, ShutDone,
        InHand, Recorded, Numbers
  <1>9. session'[e] # "stateError"
    BY <1>1, <1>4, <1>5 DEF ControlSame
  <1> QED
    BY <1>2, <1>3, <1>5, <1>6, <1>7, <1>8, <1>9, PopLife DEF Local, h

\* DATA of a live stream is kept; of a stream being closed it is dropped.
LEMMA RecvDataLife ==
    ASSUME StreamInv, NEW e \in Ends, RecvData(e)
    PROVE  StreamInv'
  <1> USE DEF driverVars, recvVars, sendVars, closeVars, workerVars, history
  <1> DEFINE h == Head(wire[Peer(e)])
  <1>1. /\ CreditInv /\ ControlTypes /\ FlagTypes /\ CountTypes /\ HistoryTypes
        /\ Peer(e) \in Ends /\ Peer(e) # e
        /\ Numbers(e)
        /\ CloseOnce(e) /\ Recorded(e) /\ Untouched(e)
        /\ OutboundLedger(e) /\ ShutLast(e) /\ InboundLedger(e)
        /\ session[e] # "stateError"
    BY Opened
  <1>2. CreditInv'
    BY <1>1, RecvDataStep
  <1>3. Same(Peer(e))
    BY <1>1 DEF RecvData, Receive, EndSession, Same, ControlSame, SendSame, RecvSame,
        CreditSame,
                ControlTypes, FlagTypes, CountTypes, HistoryTypes
  <1>5. Receive(e, "DATA") /\ Pop(e) /\ driver[e] = "idle" /\ session[e] = "up"
    BY DEF RecvData, Receive
  <1>11. h \in Frame /\ h.type = "DATA" /\ stream[e] \notin {"Opening", "Gone"} /\ Credit(h) = 0
         /\ (stream[e] = "Open" => ~remoteClosed[e] /\ ~inboundEof[e])
         /\ DataLen(h) = h.count /\ h.count \in Nat /\ h.count <= MaxData
    BY <1>5, HeadFacts, FrameLens DEF DataLen, Credit
  <1>12. credited[e] + Credit(h) = credited[e]
    BY <1>1, <1>11 DEF Numbers
  <1>13. /\ session'[e] = session[e]
         /\ stream[e] = "Open" => inbound'[e] = inbound[e] + DataLen(h)
    <2>1. stream[e] = "Open" => PushInbound(e, h.count) \in {"ok", "creditError"}
      BY <1>11 DEF PushInbound
    <2>2. session'[e] # "creditError"
      BY <1>2 DEF CreditInv, CreditSafe
    <2>3. CASE stream[e] = "Open" /\ PushInbound(e, h.count) = "ok"
      BY <1>1, <1>11, <2>3 DEF RecvData, EndSession, ControlTypes, CountTypes
    <2>4. CASE stream[e] = "Open" /\ PushInbound(e, h.count) = "creditError"
      BY <1>1, <1>11, <2>2, <2>4 DEF RecvData, EndSession, ControlTypes
    <2>5. CASE stream[e] = "Closing"
      BY <1>1, <1>11, <2>5 DEF RecvData, EndSession, ControlTypes
    <2> QED
      BY <1>1, <1>11, <2>1, <2>3, <2>4, <2>5 DEF ControlTypes
  <1>4. /\ stream[e] = "Open" => inbound'[e] = inbound[e] + DataLen(h)
        /\ arrived'[e] = arrived[e] + DataLen(h)
        /\ credited'[e] = credited[e]
        /\ ControlSame(e) /\ SendSame(e) /\ inboundEof'[e] = inboundEof[e]
        /\ taken'[e] = taken[e] /\ available'[e] = available[e]
        /\ returnedCredit'[e] = returnedCredit[e] /\ granted'[e] = granted[e]
    BY <1>1, <1>5, <1>11, <1>12, <1>13 DEF RecvData, Receive, EndSession, ControlSame,
        SendSame, RecvSame, CreditSame,
                ControlTypes, FlagTypes, CountTypes, HistoryTypes
  <1> HIDE DEF h
  <1>6. CloseOnce(e)' /\ Recorded(e)' /\ Untouched(e)'
    BY <1>1, <1>4, <1>5, <1>11
    DEF ControlSame, SendSame, RecvSame, Live, CloseOnce, Recorded, Untouched,
        DataStages, ShutStages
  <1>7. OutboundLedger(e)' /\ ShutLast(e)' /\ InboundLedger(e)'
    BY <1>1, <1>4, <1>5, <1>11, MaxDataAssumption
    DEF ControlSame, SendSame, RecvSame, Live, OutboundLedger, ShutLast, InboundLedger,
        DataStages, ShutStages, TakenStages, Numbers, Recorded, ControlTypes
  <1>8. Handled(e, h)
    BY <1>1, <1>4, <1>5, <1>11
    DEF ControlSame, SendSame, RecvSame, Live, CreditSame, Handled, CloseDone, ShutDone,
        InHand, Recorded, Numbers, Recorded, ControlTypes
  <1>9. session'[e] # "stateError"
    BY <1>1, <1>4, <1>5 DEF ControlSame
  <1> QED
    BY <1>2, <1>3, <1>5, <1>6, <1>7, <1>8, <1>9, PopLife DEF Local, h

\* SHUTDOWN_WRITE comes once, after the last byte.
LEMMA RecvShutdownWriteLife ==
    ASSUME StreamInv, NEW e \in Ends, RecvShutdownWrite(e)
    PROVE  StreamInv'
  <1> USE DEF driverVars, recvVars, sendVars, closeVars, workerVars, history
  <1> DEFINE h == Head(wire[Peer(e)])
  <1>1. /\ CreditInv /\ ControlTypes /\ FlagTypes /\ CountTypes /\ HistoryTypes
        /\ Peer(e) \in Ends /\ Peer(e) # e
        /\ Numbers(e)
        /\ CloseOnce(e) /\ Recorded(e) /\ Untouched(e)
        /\ OutboundLedger(e) /\ ShutLast(e) /\ InboundLedger(e)
        /\ session[e] # "stateError"
    BY Opened
  <1>2. CreditInv'
    BY <1>1, RecvShutdownWriteStep
  <1>3. Same(Peer(e))
    BY <1>1 DEF RecvShutdownWrite, Receive, EndSession, Same, ControlSame, SendSame, RecvSame,
        CreditSame,
                ControlTypes, FlagTypes, CountTypes, HistoryTypes
  <1>5. Receive(e, "SHUTDOWN_WRITE") /\ Pop(e) /\ driver[e] = "idle" /\ session[e] = "up"
    BY DEF RecvShutdownWrite, Receive
  <1>11. h \in Frame /\ h.type = "SHUTDOWN_WRITE" /\ stream[e] \notin {"Opening", "Gone"}
         /\ (stream[e] = "Open" => ~remoteClosed[e] /\ ~inboundEof[e])
         /\ DataLen(h) = 0 /\ Credit(h) = 0
    BY <1>5, HeadFacts, FrameLens DEF DataLen, Credit
  <1>12. arrived[e] + DataLen(h) = arrived[e] /\ credited[e] + Credit(h) = credited[e]
    BY <1>1, <1>11 DEF Numbers
  <1>13. session'[e] = session[e]
    BY <1>1, <1>11 DEF RecvShutdownWrite, EndSession, ControlTypes
  <1>4. /\ inboundEof'[e] = (inboundEof[e] \/ stream[e] = "Open")
        /\ arrived'[e] = arrived[e]
        /\ credited'[e] = credited[e]
        /\ ControlSame(e) /\ SendSame(e) /\ inbound'[e] = inbound[e] /\ taken'[e] = taken[e]
        /\ available'[e] = available[e] /\ returnedCredit'[e] = returnedCredit[e]
        /\ granted'[e] = granted[e]
    BY <1>1, <1>5, <1>11, <1>12, <1>13 DEF RecvShutdownWrite, Receive, EndSession, ControlSame,
        SendSame, RecvSame, CreditSame,
                ControlTypes, FlagTypes, CountTypes, HistoryTypes
  <1> HIDE DEF h
  <1>6. CloseOnce(e)' /\ Recorded(e)' /\ Untouched(e)'
    BY <1>1, <1>4, <1>5, <1>11
    DEF ControlSame, SendSame, RecvSame, Live, CloseOnce, Recorded, Untouched,
        DataStages, ShutStages
  <1>7. OutboundLedger(e)' /\ ShutLast(e)' /\ InboundLedger(e)'
    BY <1>1, <1>4, <1>5, <1>11, MaxDataAssumption
    DEF ControlSame, SendSame, RecvSame, Live, OutboundLedger, ShutLast, InboundLedger,
        DataStages, ShutStages, TakenStages, Numbers
  <1>8. Handled(e, h)
    BY <1>1, <1>4, <1>5, <1>11
    DEF ControlSame, SendSame, RecvSame, Live, CreditSame, Handled, CloseDone, ShutDone,
        InHand, Recorded, Numbers
  <1>9. session'[e] # "stateError"
    BY <1>1, <1>4, <1>5 DEF ControlSame
  <1> QED
    BY <1>2, <1>3, <1>5, <1>6, <1>7, <1>8, <1>9, PopLife DEF Local, h

\* Credit for a live stream is added; for a stream being closed it is dropped.
LEMMA RecvWindowUpdateLife ==
    ASSUME StreamInv, NEW e \in Ends, RecvWindowUpdate(e)
    PROVE  StreamInv'
  <1> USE DEF driverVars, recvVars, sendVars, closeVars, workerVars, history
  <1> DEFINE h == Head(wire[Peer(e)])
  <1>1. /\ CreditInv /\ ControlTypes /\ FlagTypes /\ CountTypes /\ HistoryTypes
        /\ Peer(e) \in Ends /\ Peer(e) # e
        /\ Numbers(e)
        /\ CloseOnce(e) /\ Recorded(e) /\ Untouched(e)
        /\ OutboundLedger(e) /\ ShutLast(e) /\ InboundLedger(e)
        /\ session[e] # "stateError"
    BY Opened
  <1>2. CreditInv'
    BY <1>1, RecvWindowUpdateStep
  <1>3. Same(Peer(e))
    BY <1>1 DEF RecvWindowUpdate, Receive, EndSession, Same, ControlSame, SendSame, RecvSame,
        CreditSame,
                ControlTypes, FlagTypes, CountTypes, HistoryTypes
  <1>5. Receive(e, "WINDOW_UPDATE") /\ Pop(e) /\ driver[e] = "idle" /\ session[e] = "up"
    BY DEF RecvWindowUpdate, Receive
  <1>11. h \in Frame /\ h.type = "WINDOW_UPDATE" /\ stream[e] \notin {"Opening", "Gone"}
         /\ DataLen(h) = 0 /\ Credit(h) = h.count /\ h.count \in Nat
    BY <1>5, HeadFacts, FrameLens DEF DataLen, Credit
  <1>12. arrived[e] + DataLen(h) = arrived[e]
    BY <1>1, <1>11 DEF Numbers
  <1>13. /\ session'[e] = session[e]
         /\ stream[e] = "Open" => available'[e] = available[e] + Credit(h)
    <2>1. session'[e] # "creditError"
      BY <1>2 DEF CreditInv, CreditSafe
    <2>2. CASE stream[e] = "Open" /\ ~(h.count = 0 \/ available[e] + h.count > Window)
      BY <1>1, <1>11, <2>2 DEF RecvWindowUpdate, EndSession, ControlTypes, CountTypes
    <2>3. CASE stream[e] = "Open" /\ (h.count = 0 \/ available[e] + h.count > Window)
      BY <1>1, <1>11, <2>1, <2>3 DEF RecvWindowUpdate, EndSession, ControlTypes
    <2>4. CASE stream[e] = "Closing"
      BY <1>1, <1>11, <2>4 DEF RecvWindowUpdate, EndSession, ControlTypes
    <2> QED
      BY <1>1, <1>11, <2>2, <2>3, <2>4 DEF ControlTypes
  <1>4. /\ stream[e] = "Open" => available'[e] = available[e] + Credit(h)
        /\ arrived'[e] = arrived[e]
        /\ credited'[e] = credited[e] + Credit(h)
        /\ ControlSame(e) /\ SendSame(e) /\ inbound'[e] = inbound[e]
        /\ inboundEof'[e] = inboundEof[e] /\ taken'[e] = taken[e]
        /\ returnedCredit'[e] = returnedCredit[e] /\ granted'[e] = granted[e]
    BY <1>1, <1>5, <1>11, <1>12, <1>13 DEF RecvWindowUpdate, Receive, EndSession, ControlSame,
        SendSame, RecvSame, CreditSame,
                ControlTypes, FlagTypes, CountTypes, HistoryTypes
  <1> HIDE DEF h
  <1>6. CloseOnce(e)' /\ Recorded(e)' /\ Untouched(e)'
    BY <1>1, <1>4, <1>5, <1>11
    DEF ControlSame, SendSame, RecvSame, Live, CloseOnce, Recorded, Untouched,
        DataStages, ShutStages
  <1>7. OutboundLedger(e)' /\ ShutLast(e)' /\ InboundLedger(e)'
    BY <1>1, <1>4, <1>5, <1>11, MaxDataAssumption
    DEF ControlSame, SendSame, RecvSame, Live, OutboundLedger, ShutLast, InboundLedger,
        DataStages, ShutStages, TakenStages, Numbers, ControlTypes
  <1>8. Handled(e, h)
    BY <1>1, <1>4, <1>5, <1>11
    DEF ControlSame, SendSame, RecvSame, Live, CreditSame, Handled, CloseDone, ShutDone,
        InHand, Recorded, Numbers, ControlTypes
  <1>9. session'[e] # "stateError"
    BY <1>1, <1>4, <1>5 DEF ControlSame
  <1> QED
    BY <1>2, <1>3, <1>5, <1>6, <1>7, <1>8, <1>9, PopLife DEF Local, h

\* CLOSE is the last frame of the peer: the stream is retired, and answered once.
LEMMA RecvCloseLife ==
    ASSUME StreamInv, NEW e \in Ends, RecvClose(e)
    PROVE  StreamInv'
  <1> USE DEF driverVars, recvVars, sendVars, closeVars, workerVars, history
  <1> DEFINE h == Head(wire[Peer(e)])
  <1>1. /\ CreditInv /\ ControlTypes /\ FlagTypes /\ CountTypes /\ HistoryTypes
        /\ Peer(e) \in Ends /\ Peer(e) # e
        /\ Numbers(e)
        /\ CloseOnce(e) /\ Recorded(e) /\ Untouched(e)
        /\ OutboundLedger(e) /\ ShutLast(e) /\ InboundLedger(e)
        /\ session[e] # "stateError"
    BY Opened
  <1>2. CreditInv'
    BY <1>1, RecvCloseStep
  <1>3. Same(Peer(e))
    BY <1>1 DEF RecvClose, Receive, EndSession, RemoteClose, Same, ControlSame, SendSame,
        RecvSame, CreditSame,
                ControlTypes, FlagTypes, CountTypes, HistoryTypes
  <1>5. Receive(e, "CLOSE") /\ driver[e] = "idle" /\ session[e] = "up"
    BY DEF RecvClose, Receive
  <1>11. h \in Frame /\ h.type = "CLOSE" /\ stream[e] \notin {"Opening", "Gone"}
         /\ DataLen(h) = 0 /\ Credit(h) = 0
    BY <1>5, HeadFacts, FrameLens DEF DataLen, Credit
  <1>12. arrived[e] + DataLen(h) = arrived[e] /\ credited[e] + Credit(h) = credited[e]
    BY <1>1, <1>11 DEF Numbers
  <1>4. /\ stream'[e] = "Gone"
        /\ arrived'[e] = arrived[e]
        /\ credited'[e] = credited[e]
        /\ \/ /\ stream[e] = "Open" /\ driver'[e] = "gate" /\ remoteClosed'[e] = TRUE
              /\ inboundEof'[e] = TRUE /\ outbound'[e] = 0 /\ pendingOutbound'[e] = 0
           \/ /\ stream[e] = "Closing" /\ driver'[e] = driver[e]
              /\ remoteClosed'[e] = remoteClosed[e] /\ failure'[e] = failure[e]
              /\ inboundEof'[e] = inboundEof[e] /\ outbound'[e] = outbound[e]
              /\ pendingOutbound'[e] = pendingOutbound[e]
        /\ session'[e] = session[e] /\ outPc'[e] = outPc[e] /\ creditPc'[e] = creditPc[e]
        /\ dropped'[e] = dropped[e] /\ closeQueued'[e] = closeQueued[e]
        /\ written'[e] = written[e] /\ sent'[e] = sent[e] /\ outCount'[e] = outCount[e]
        /\ writeShutdown'[e] = writeShutdown[e] /\ shutdownSent'[e] = shutdownSent[e]
        /\ inbound'[e] = inbound[e] /\ taken'[e] = taken[e] /\ available'[e] = available[e]
        /\ returnedCredit'[e] = returnedCredit[e] /\ granted'[e] = granted[e]
    <2>1. /\ stream'[e] = "Gone" /\ arrived'[e] = arrived[e] /\ credited'[e] = credited[e]
          /\ UNCHANGED <<written, sent, taken, granted, inbound, returnedCredit, writeShutdown,
                         shutdownSent, available, dropped, closeQueued, outPc, outCount, creditPc>>
      BY <1>1, <1>12 DEF RecvClose, Receive, ControlTypes, HistoryTypes
    <2>2. CASE stream[e] = "Open"
      <3>1. /\ RemoteClose(e, h.reason # "Normal") /\ UNCHANGED session
            /\ driver' = [driver EXCEPT ![e] = "gate"]
        BY <2>2 DEF RecvClose
      <3>2. /\ driver'[e] = "gate" /\ remoteClosed'[e] = TRUE /\ inboundEof'[e] = TRUE
            /\ outbound'[e] = 0 /\ pendingOutbound'[e] = 0
        BY <1>1, <3>1 DEF RemoteClose, ControlTypes, FlagTypes, CountTypes
      <3> QED
        BY <2>1, <2>2, <3>1, <3>2
    <2>3. CASE stream[e] = "Closing"
      <3>1. /\ UNCHANGED <<driver, remoteClosed, inboundEof, failure, outbound,
                           pendingOutbound>>
            /\ EndSession(e, "ok")
        BY <2>3 DEF RecvClose
      <3>2. session'[e] = session[e]
        BY <1>1, <3>1 DEF EndSession, ControlTypes
      <3> QED
        BY <2>1, <2>3, <3>1, <3>2
    <2> QED
      BY <1>1, <1>11, <2>2, <2>3 DEF ControlTypes
  <1> HIDE DEF h
  <1>6. CloseOnce(e)' /\ Recorded(e)' /\ Untouched(e)'
    BY <1>1, <1>4, <1>5, <1>11
    DEF ControlSame, SendSame, RecvSame, Live, CloseOnce, Recorded, Untouched,
        DataStages, ShutStages
  <1>7. OutboundLedger(e)' /\ ShutLast(e)' /\ InboundLedger(e)'
    BY <1>1, <1>4, <1>5, <1>11, MaxDataAssumption
    DEF ControlSame, SendSame, RecvSame, Live, OutboundLedger, ShutLast, InboundLedger,
        DataStages, ShutStages, TakenStages, Numbers, Recorded
  <1>8. Handled(e, h)
    BY <1>1, <1>4, <1>5, <1>11
    DEF ControlSame, SendSame, RecvSame, Live, CreditSame, Handled, CloseDone, ShutDone,
        InHand, Recorded, Numbers, Recorded
  <1>9. session'[e] # "stateError"
    BY <1>1, <1>4, <1>5 DEF ControlSame
  <1>10. Pop(e)
    BY <1>11 DEF RecvClose
  <1> QED
    BY <1>2, <1>3, <1>5, <1>6, <1>7, <1>8, <1>9, <1>10, PopLife DEF Local, h

-----------------------------------------------------------------------------
(* StreamInv is inductive.                                                 *)

\* A stream just opened satisfies the invariant.
LEMMA InitStream == Init => StreamInv
  <1> SUFFICES ASSUME Init PROVE StreamInv
    OBVIOUS
  <1>1. CreditInv
    BY InitCredit
  <1>2. StateSafe
    BY DEF Init, Always, StateSafe
  <1>3. ASSUME NEW e \in Ends
        PROVE  Local(e) /\ Frames(e) /\ ClosedByPeer(e) /\ Conserved(e)
    <2>1. Peer(e) \in Ends /\ (Peer(e) = "client" <=> e = "agent")
      BY DEF Ends, Peer
    <2>2. CloseOnce(e) /\ Recorded(e) /\ Untouched(e)
      BY DEF Init, Always, CloseOnce, Recorded, Untouched, Live, DataStages, ShutStages, Ends
    <2>3. OutboundLedger(e) /\ ShutLast(e) /\ InboundLedger(e)
      BY DEF Init, Always, OutboundLedger, ShutLast, InboundLedger, Live, DataStages,
             ShutStages, TakenStages
    <2>4. ClosedByPeer(e) /\ Conserved(e)
      BY <2>1, WindowAssumption DEF Init, Always, ClosedByPeer, Conserved, InHand
    <2>5. Frames(e)
      <3>1. CASE e = "agent"
        <4> DEFINE f == [type |-> "OPEN_OK", count |-> 0, reason |-> "Normal",
                         at |-> 0, credit |-> 0]
        <4>1. wire[e] = <<f>> /\ f.type = "OPEN_OK"
          BY <3>1 DEF Init
        <4> HIDE DEF f
        <4>2. /\ Len(wire[e]) = 1 /\ wire[e] # <<>> /\ wire[e][1].type = "OPEN_OK"
              /\ \A i \in 1 .. Len(wire[e]) : i = 1
          BY <4>1
        <4>3. stream[Peer(e)] = "Opening" /\ ~inboundEof[Peer(e)]
          BY <2>1, <3>1 DEF Init, Always
        <4> QED
          BY <4>2, <4>3 DEF Frames, CloseFrames, OpenFrames, DataFrames
      <3>2. CASE e # "agent"
        <4>1. wire[e] = <<>> /\ Len(wire[e]) = 0
          BY <3>2 DEF Init
        <4>2. stream[Peer(e)] = "Open" /\ ~inboundEof[Peer(e)]
          BY <2>1, <3>2 DEF Init, Always
        <4>3. \A i \in 1 .. Len(wire[e]) : FALSE
          BY <4>1
        <4> QED
          BY <4>2, <4>3 DEF Frames, CloseFrames, OpenFrames, DataFrames
      <3> QED
        BY <3>1, <3>2
    <2> QED
      BY <2>2, <2>3, <2>4, <2>5 DEF Local
  <1> QED
    BY <1>1, <1>2, <1>3 DEF StreamInv

\* One step per actor, one lemma per action.
LEMMA StreamInvStep == StreamInv /\ [Next]_vars => StreamInv'
  <1> SUFFICES ASSUME StreamInv, [Next]_vars PROVE StreamInv'
    OBVIOUS
  <1>1. CASE UNCHANGED vars
    <2>1. UNCHANGED <<driverVars, wire, recvVars, sendVars, closeVars, workerVars, history>>
      BY <1>1 DEF vars
    <2>2. CreditInv'
      BY <1>1, CreditInvStep DEF StreamInv
    <2>3. PICK e \in Ends : TRUE
      BY DEF Ends
    <2>4. Same(e) /\ Same(Peer(e))
      BY <2>1 DEF Same, ControlSame, SendSame, RecvSame, CreditSame, driverVars, recvVars,
                  sendVars, closeVars, workerVars, history
    <2>5. Local(e)'
      BY <2>4, LocalSame DEF StreamInv
    <2>6. Settled(e)
      BY <2>4 DEF Settled, Same, ControlSame, SendSame, RecvSame, CreditSame, CloseDone,
                  ShutDone, Live, InHand
    <2>7. session'[e] # "stateError"
      BY <2>4 DEF StreamInv, StateSafe, Same, ControlSame
    <2> QED
      BY <2>1, <2>2, <2>4, <2>5, <2>6, <2>7, QuietLife
  <1>2. ASSUME NEW e \in Ends, Application(e) PROVE StreamInv'
    <2>1. CASE \E n \in 1 .. Window : PollRead(e, n) \/ PollWrite(e, n)
      BY <2>1, PollReadLife, PollWriteLife
    <2>2. CASE PollShutdown(e)
      BY <2>2, PollShutdownLife
    <2>3. CASE \E reason \in DropReasons : DropLocal(e, reason)
      BY <2>3, DropLocalLife
    <2> QED
      BY <1>2, <2>1, <2>2, <2>3 DEF Application
  <1>3. ASSUME NEW e \in Ends, OutboundWorker(e) PROVE StreamInv'
    BY <1>3, OutboundDecideLife, TakeUpToLife, DataLockGateLife, DataSendLife, DataMarkLife,
       ShutdownLockGateLife, ShutdownSendLife, ShutdownMarkLife, CloseLockGateLife,
       CloseSendLife DEF OutboundWorker
  <1>4. ASSUME NEW e \in Ends, CreditWorker(e) PROVE StreamInv'
    BY <1>4, CreditReserveLife, CreditSendLife, CreditCommitLife DEF CreditWorker
  <1>5. ASSUME NEW e \in Ends, Driver(e) PROVE StreamInv'
    BY <1>5, RecvOpenOkLife, RecvDataLife, RecvShutdownWriteLife, RecvWindowUpdateLife,
       RecvCloseLife, DriverLockGateLife, DriverSendCloseLife, WorkerEventLife DEF Driver
  <1>6. ASSUME NEW e \in Ends, CancelOpen(e) PROVE StreamInv'
    BY <1>6, CancelOpenLife
  <1>7. ASSUME NEW e \in Ends, TearDown(e) PROVE StreamInv'
    BY <1>7, TearDownLife
  <1>8. CASE Next
    BY <1>8, <1>2, <1>3, <1>4, <1>5, <1>6, <1>7 DEF Next
  <1> QED
    BY <1>1, <1>8

(***************************************************************************)
(* In every reachable state the records of the driver, the flags the       *)
(* actors share and the frames in flight agree, at both ends.              *)
(***************************************************************************)
THEOREM StreamInvariant == Spec => []StreamInv
  BY InitStream, StreamInvStep, PTL DEF Spec

(***************************************************************************)
(* While neither end closes, no interleaving of the workers, the drivers   *)
(* and the application leaks or creates a byte of credit.                  *)
(***************************************************************************)
THEOREM CreditIsConserved == Spec => []CreditConserved
  <1>1. StreamInv => CreditConserved
    BY DEF StreamInv, Conserved, CreditConserved
  <1> QED
    BY <1>1, StreamInvariant, PTL

(***************************************************************************)
(* However half-closes, drops, crossed CLOSEs and cancellations interleave *)
(* CLOSE is the last frame of an end, queued once, and neither driver      *)
(* meets a frame that its record of the stream forbids.                    *)
(***************************************************************************)
THEOREM FramesAlwaysLawful == Spec => []FramesLawful
  <1>1. StreamInv => FramesLawful
    <2> SUFFICES ASSUME StreamInv PROVE FramesLawful
      OBVIOUS
    <2>1. ASSUME NEW e \in Ends, NEW i \in 1 .. Len(wire[e]) - 1
          PROVE  wire[e][i].type # "CLOSE"
      <3>1. wire[e] \in Seq(Frame) /\ CloseFrames(e)
        BY Opened DEF Frames
      <3>2. i \in 1 .. Len(wire[e]) /\ i # Len(wire[e])
        BY <3>1
      <3> QED
        BY <3>1, <3>2 DEF CloseFrames
    <2> QED
      BY <2>1 DEF StreamInv, FramesLawful, CloseIsLast
  <1> QED
    BY <1>1, StreamInvariant, PTL

(***************************************************************************)
(* A reader that is told EOF has every byte the writer was told is         *)
(* accepted, unless the writer dropped the stream before its half-close    *)
(* was queued, and a flush or a shutdown that returned has left nothing    *)
(* unqueued.                                                               *)
(***************************************************************************)
THEOREM NothingIsLost == Spec => []NothingLost
  <1>1. StreamInv => NothingLost
    <2> SUFFICES ASSUME StreamInv, NEW e \in Ends
                 PROVE  /\ /\ ReadReturnsEof(e)
                           /\ dropped[Peer(e)] => shutdownSent[Peer(e)]
                           => taken[e] = written[Peer(e)]
                        /\ FlushReturnsOk(e) \/ ShutdownReturnsOk(e) => sent[e] = written[e]
      BY DEF NothingLost, GracefulDelivery, FlushMeansQueued
    <2>1. /\ Peer(e) \in Ends /\ Peer(Peer(e)) = e /\ Numbers(e) /\ Numbers(Peer(e))
          /\ Recorded(e) /\ OutboundLedger(e) /\ ShutLast(e) /\ InboundLedger(e)
          /\ Frames(Peer(e)) /\ wire[Peer(e)] \in Seq(Frame)
      BY Opened
    <2>2. ShutLast(Peer(e)) /\ ClosedByPeer(e) /\ Tiled(Peer(e))
      BY <2>1 DEF StreamInv, Local, CreditInv
    <2>3. ASSUME ReadReturnsEof(e), dropped[Peer(e)] => shutdownSent[Peer(e)]
          PROVE  taken[e] = written[Peer(e)]
      <3>1. ~dropped[e] /\ inbound[e] = 0 /\ ~failure[e] /\ (inboundEof[e] \/ remoteClosed[e])
        BY <2>3 DEF ReadReturnsEof, HoldsStream
      <3>2. arrived[e] = taken[e]
        BY <2>1, <3>1 DEF InboundLedger, Numbers
      <3>3. CASE remoteClosed[e]
        <4>1. stream[e] = "Gone" /\ dropped[Peer(e)]
          BY <2>1, <2>2, <3>1, <3>3 DEF Recorded, ClosedByPeer
        <4>2. written[Peer(e)] = sent[Peer(e)]
          BY <2>2, <2>3, <4>1 DEF ShutLast
        <4>3. wire[Peer(e)] = <<>>
          BY <2>1, <4>1 DEF Frames, CloseFrames
        <4>4. arrived[e] = sent[Peer(e)]
          BY <2>1, <2>2, <4>3 DEF Tiled, Tiling, Start
        <4> QED
          BY <3>2, <4>2, <4>4
      <3>4. CASE ~remoteClosed[e]
        BY <2>1, <3>1, <3>2, <3>4 DEF Frames, DataFrames, ShutDone
      <3> QED
        BY <3>3, <3>4
    <2>4. ASSUME Live(e), pendingOutbound[e] = 0
          PROVE  sent[e] = written[e]
      <3>1. outPc[e] \notin DataStages
        BY <2>1, <2>4 DEF OutboundLedger, Numbers, DataStages, TakenStages
      <3>2. outbound[e] = 0
        BY <2>1, <2>4, <3>1 DEF OutboundLedger, Numbers
      <3> QED
        BY <2>1, <2>4, <3>1, <3>2 DEF OutboundLedger, Numbers, DataStages
    <2>5. ASSUME FlushReturnsOk(e) \/ ShutdownReturnsOk(e)
          PROVE  sent[e] = written[e]
      <3>1. CASE remoteClosed[e]
        BY <2>1, <2>5, <3>1 DEF FlushReturnsOk, ShutdownReturnsOk, ShutLast
      <3>2. CASE ~remoteClosed[e]
        BY <2>4, <2>5, <3>2 DEF FlushReturnsOk, ShutdownReturnsOk, HoldsStream, Live
      <3> QED
        BY <3>1, <3>2
    <2> QED
      BY <2>3, <2>5
  <1> QED
    BY <1>1, StreamInvariant, PTL
=============================================================================
