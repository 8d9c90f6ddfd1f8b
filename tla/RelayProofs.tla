---------------------------- MODULE RelayProofs ----------------------------
(***************************************************************************)
(* Proofs about what carries bytes: the TCP relay, for every timeout,      *)
(* every cap on a nap, every set of shaped waits and any number of         *)
(* buffers; the generations of the RDP transport, for any number of        *)
(* channels; and the path through one generation, for every capacity.      *)
(*                                                                         *)
(* The inductive invariant RelayInv has four parts. Progress relates where *)
(* each copy direction is to what it has read and written; Flags says what *)
(* the flags of relay_both_until record; Naps bounds the clock of a flow   *)
(* that is being shaped by the nap it has left; Verdict says what held     *)
(* when the relay ended, since no step follows that.                       *)
(*                                                                         *)
(* LifeInv says which bridge and pipe of a generation may be up, and what  *)
(* the connector believes of it. PathInv describes the content of every    *)
(* queue as a run of consecutive frame numbers, with the place where each  *)
(* run ends: NoGap alone does not say what a queue that is about to be     *)
(* read holds.                                                             *)
(***************************************************************************)
EXTENDS Relay, Bridge, BridgePath, FiniteSetTheorems, TLAPS

InHand(d) == IF pc[d] \in {"shaping", "writing"} THEN 1 ELSE 0

Progress ==
    \A d \in Directions :
        /\ pc[d] \in {"shaping", "writing"} => pieces[d] # 0
        /\ left[d] + written[d] + InHand(d) <= Chunks
        /\ pc[d] \in {"shutdown", "ok"} => left[d] = 0

Flags ==
    /\ downDone => pc["down"] = "ok"
    /\ upDone => closeSeen \/ pc["up"] = "ok"
    /\ closeSeen => upDone /\ signal = "normal"

Done(d) == IF d = "up" THEN upDone ELSE downDone

Naps ==
    outcome = "running" =>
        \A d \in Directions : pc[d] = "shaping" /\ ~Done(d) => quiet + nap[d] <= NapCap

Verdict == ErrorNotMasked /\ DeliveredWhenDone

RelayInv == TypeOK /\ Progress /\ Flags /\ Naps /\ Verdict

-----------------------------------------------------------------------------
(***************************************************************************)
(* The caps and periods are times, and half an idle timeout is less than   *)
(* the whole of it.                                                        *)
(***************************************************************************)
LEMMA Times ==
    /\ NapCap \in Nat /\ Limit \in Nat /\ TickPeriod(Limit) \in Nat
    /\ Idle # 0 => NapCap < Limit
    /\ Chunks \in Nat /\ Parts \in Nat \ {0}
<1>1. Idle \in Nat /\ Idle # 1 /\ Drain \in Nat /\ MaxNap \in Nat /\ MaxTick \in Nat
      /\ Chunks \in Nat /\ Parts \in Nat \ {0}
  BY TimesAssumption
<1>2. Idle \div 2 \in Nat /\ (Idle # 0 => Idle \div 2 < Idle)
  BY <1>1
<1>3. NapCap \in Nat /\ (Idle # 0 => NapCap <= Idle \div 2)
  BY <1>1, <1>2 DEF NapCap, Smaller
<1>4. Limit \in Nat /\ (Idle # 0 => Limit = Idle)
  BY <1>1 DEF Limit
<1>5. TickPeriod(Limit) \in Nat
  BY <1>1, <1>4 DEF TickPeriod, Smaller, Larger
<1> QED
  BY <1>1, <1>2, <1>3, <1>4, <1>5

(***************************************************************************)
(* The relay starts with both directions reading and nothing decided.      *)
(***************************************************************************)
LEMMA InitInv == Init => RelayInv
<1> SUFFICES ASSUME Init PROVE RelayInv
  OBVIOUS
<1> USE TimesAssumption, Times DEF Init, Directions
<1>1. ticker \in [armed: BOOLEAN, in: Nat]
  BY DEF NoTicker, Armed
<1>4. TypeOK
  <2>1. written \in [Directions -> 0 .. Chunks] /\ pieces \in [Directions -> 0 .. Parts]
    OBVIOUS
  <2>2. quiet \in 0 .. Limit /\ stalled \in 0 .. Limit
    OBVIOUS
  <2>3. wait \in [Directions -> Nat] /\ nap \in [Directions -> Nat]
    OBVIOUS
  <2>4. pc \in [Directions -> {"reading", "shaping", "writing", "shutdown", "ok", "err"}]
    OBVIOUS
  <2> QED
    BY <1>1, <2>1, <2>2, <2>3, <2>4 DEF TypeOK
<1>2. Progress
  BY DEF Progress, InHand
<1>3. Flags /\ Naps /\ Verdict
  BY DEF Flags, Naps, Verdict, ErrorNotMasked, DeliveredWhenDone
<1> QED
  BY <1>2, <1>3, <1>4 DEF RelayInv

(***************************************************************************)
(* A read resets the clock and starts a nap no longer than the cap.        *)
(***************************************************************************)
LEMMA ReadInv ==
    ASSUME NEW d \in Directions, RelayInv, Read(d)
    PROVE  RelayInv'
<1> USE TimesAssumption, Times DEF RelayInv, Directions, Read, loopVars, copyVars
<1>1. TypeOK'
  BY DEF TypeOK, Progress, InHand, Polls, Smaller
<1>2. Progress'
  BY DEF TypeOK, Progress, InHand, Polls, Smaller
<1>3. Flags'
  BY DEF TypeOK, Flags, Polls
<1>4. Naps'
  BY DEF TypeOK, Naps, Done, Polls, Smaller
<1>5. Verdict'
  BY DEF TypeOK, Verdict, ErrorNotMasked, DeliveredWhenDone, Polls, Flags, Progress
<1> QED
  BY <1>1, <1>2, <1>3, <1>4, <1>5

(***************************************************************************)
(* The end of a nap resets the clock, and the next nap is no longer.       *)
(***************************************************************************)
LEMMA NapInv ==
    ASSUME NEW d \in Directions, RelayInv, NapEnds(d)
    PROVE  RelayInv'
<1> USE TimesAssumption, Times DEF RelayInv, Directions, NapEnds, loopVars, copyVars
<1>1. TypeOK'
  BY DEF TypeOK, Progress, InHand, Polls, Smaller
<1>2. Progress'
  <2>1. pc' = [pc EXCEPT ![d] = "writing"] \/ pc' = [pc EXCEPT ![d] = "shaping"]
    OBVIOUS
  <2>2. pieces[d] # 0
    BY DEF Progress
  <2> QED
    BY <2>1, <2>2 DEF TypeOK, Progress, InHand
<1>3. Flags'
  BY DEF TypeOK, Flags, Polls
<1>4. Naps'
  BY DEF TypeOK, Naps, Done, Polls, Smaller
<1>5. Verdict'
  BY DEF TypeOK, Verdict, ErrorNotMasked, DeliveredWhenDone, Polls, Flags, Progress
<1> QED
  BY <1>1, <1>2, <1>3, <1>4, <1>5

(***************************************************************************)
(* A write that completes the buffer takes it out of hand.                 *)
(***************************************************************************)
LEMMA WriteInv ==
    ASSUME NEW d \in Directions, RelayInv, WritePart(d)
    PROVE  RelayInv'
<1> USE TimesAssumption, Times DEF RelayInv, Directions, WritePart, loopVars, copyVars
<1>1. TypeOK'
  BY DEF TypeOK, Progress, InHand, Polls, Smaller
<1>2. Progress'
  BY DEF TypeOK, Progress, InHand, Polls, Smaller
<1>3. Flags'
  BY DEF TypeOK, Flags, Polls
<1>4. Naps'
  BY DEF TypeOK, Naps, Done, Polls, Smaller
<1>5. Verdict'
  BY DEF TypeOK, Verdict, ErrorNotMasked, DeliveredWhenDone, Polls, Flags, Progress
<1> QED
  BY <1>1, <1>2, <1>3, <1>4, <1>5

(***************************************************************************)
(* A direction at EOF has nothing left to read.                            *)
(***************************************************************************)
LEMMA EofInv ==
    ASSUME NEW d \in Directions, RelayInv, ReadEof(d)
    PROVE  RelayInv'
<1> USE TimesAssumption, Times DEF RelayInv, Directions, ReadEof, loopVars, copyVars
<1>1. TypeOK'
  BY DEF TypeOK, Progress, InHand, Polls, Smaller
<1>2. Progress'
  BY DEF TypeOK, Progress, InHand, Polls, Smaller
<1>3. Flags'
  BY DEF TypeOK, Flags, Polls
<1>4. Naps'
  BY DEF TypeOK, Naps, Done, Polls, Smaller
<1>5. Verdict'
  BY DEF TypeOK, Verdict, ErrorNotMasked, DeliveredWhenDone, Polls, Flags, Progress
<1> QED
  BY <1>1, <1>2, <1>3, <1>4, <1>5

(***************************************************************************)
(* A direction fails while the relay still polls it.                       *)
(***************************************************************************)
LEMMA FailInv ==
    ASSUME NEW d \in Directions, RelayInv, CopyFails(d)
    PROVE  RelayInv'
<1> USE TimesAssumption, Times DEF RelayInv, Directions, CopyFails, loopVars, copyVars
<1>1. TypeOK'
  BY DEF TypeOK, Progress, InHand, Polls, Smaller
<1>2. Progress'
  BY DEF TypeOK, Progress, InHand, Polls, Smaller
<1>3. Flags'
  BY DEF TypeOK, Flags, Polls
<1>4. Naps'
  BY DEF TypeOK, Naps, Done, Polls, Smaller
<1>5. Verdict'
  BY DEF TypeOK, Verdict, ErrorNotMasked, DeliveredWhenDone, Polls, Flags, Progress
<1> QED
  BY <1>1, <1>2, <1>3, <1>4, <1>5

(***************************************************************************)
(* A writer is shut down after EOF, by a direction that is still polled.   *)
(***************************************************************************)
LEMMA ShutdownInv ==
    ASSUME NEW d \in Directions, NEW ok \in BOOLEAN, RelayInv, ShutdownWriter(d, ok)
    PROVE  RelayInv'
<1> USE TimesAssumption, Times DEF RelayInv, Directions, ShutdownWriter, loopVars, copyVars
<1>1. TypeOK'
  BY DEF TypeOK, Progress, InHand, Polls, Smaller
<1>2. Progress'
  BY DEF TypeOK, Progress, InHand, Polls, Smaller
<1>3. Flags'
  BY DEF TypeOK, Flags, Polls
<1>4. Naps'
  BY DEF TypeOK, Naps, Done, Polls, Smaller
<1>5. Verdict'
  BY DEF TypeOK, Verdict, ErrorNotMasked, DeliveredWhenDone, Polls, Flags, Progress
<1> QED
  BY <1>1, <1>2, <1>3, <1>4, <1>5

(***************************************************************************)
(* The signal alone changes nothing in the relay.                          *)
(***************************************************************************)
LEMMA RemoteClosesInv ==
    ASSUME NEW how \in {"normal", "failed"}, RelayInv, RemoteCloses(how)
    PROVE  RelayInv'
<1> USE TimesAssumption, Times DEF RelayInv, Directions, RemoteCloses, loopVars, copyVars
<1>1. TypeOK'
  BY DEF TypeOK, Progress, InHand, Polls, Smaller
<1>2. Progress'
  BY DEF TypeOK, Progress, InHand, Polls, Smaller
<1>3. Flags'
  BY DEF TypeOK, Flags, Polls
<1>4. Naps'
  BY DEF TypeOK, Naps, Done, Polls, Smaller
<1>5. Verdict'
  BY DEF TypeOK, Verdict, ErrorNotMasked, DeliveredWhenDone, Polls, Flags, Progress
<1> QED
  BY <1>1, <1>2, <1>3, <1>4, <1>5

(***************************************************************************)
(* A normal close stops the upload and leaves the download to finish.      *)
(***************************************************************************)
LEMMA SeeCloseInv ==
    ASSUME RelayInv, SeeClose
    PROVE  RelayInv'
<1> USE TimesAssumption, Times DEF RelayInv, Directions, SeeClose, loopVars, copyVars, Finish, Armed
<1>1. TypeOK'
  <2>1. ticker' \in [armed: BOOLEAN, in: Nat]
    <3>1. Armed \in [armed: BOOLEAN, in: Nat] /\ ticker \in [armed: BOOLEAN, in: Nat]
      BY DEF Armed, TypeOK
    <3>2. ticker' = ticker \/ ticker' = Armed
      BY DEF Armed
    <3> QED
      BY <3>1, <3>2
  <2>2. outcome' \in {"running", "done", "error"}
    OBVIOUS
  <2> QED
    BY <2>1, <2>2 DEF TypeOK
<1>2. Progress'
  BY DEF TypeOK, Progress, InHand, Polls, Smaller
<1>3. Flags'
  BY DEF TypeOK, Flags, Polls
<1>4. Naps'
  BY DEF TypeOK, Naps, Done, Polls, Smaller
<1>5. Verdict'
  BY DEF TypeOK, Verdict, ErrorNotMasked, DeliveredWhenDone, Polls, Flags, Progress
<1> QED
  BY <1>1, <1>2, <1>3, <1>4, <1>5

(***************************************************************************)
(* The upload ends well: only with the download does the relay.            *)
(***************************************************************************)
LEMMA UpOkInv ==
    ASSUME RelayInv, UpOk
    PROVE  RelayInv'
<1> USE TimesAssumption, Times DEF RelayInv, Directions, UpOk, loopVars, copyVars, Finish
<1>1. TypeOK'
  BY DEF TypeOK, Progress, InHand, Polls, Smaller
<1>2. Progress'
  BY DEF TypeOK, Progress, InHand, Polls, Smaller
<1>3. Flags'
  BY DEF TypeOK, Flags, Polls
<1>4. Naps'
  BY DEF TypeOK, Naps, Done, Polls, Smaller
<1>5. Verdict'
  BY DEF TypeOK, Verdict, ErrorNotMasked, DeliveredWhenDone, Polls, Flags, Progress
<1> QED
  BY <1>1, <1>2, <1>3, <1>4, <1>5

(***************************************************************************)
(* A failed upload is excused by a normal close only.                      *)
(***************************************************************************)
LEMMA UpFailsInv ==
    ASSUME RelayInv, UpFails
    PROVE  RelayInv'
<1> USE TimesAssumption, Times DEF RelayInv, Directions, UpFails, loopVars, copyVars, Finish
<1>1. TypeOK'
  BY DEF TypeOK, Progress, InHand, Polls, Smaller
<1>2. Progress'
  BY DEF TypeOK, Progress, InHand, Polls, Smaller
<1>3. Flags'
  BY DEF TypeOK, Flags, Polls
<1>4. Naps'
  BY DEF TypeOK, Naps, Done, Polls, Smaller
<1>5. Verdict'
  BY DEF TypeOK, Verdict, ErrorNotMasked, DeliveredWhenDone, Polls, Flags, Progress
<1> QED
  BY <1>1, <1>2, <1>3, <1>4, <1>5

(***************************************************************************)
(* The download ends: an error ends the relay, success waits for the       *)
(* upload.                                                                 *)
(***************************************************************************)
LEMMA DownEndsInv ==
    ASSUME RelayInv, DownEnds
    PROVE  RelayInv'
<1> USE TimesAssumption, Times DEF RelayInv, Directions, DownEnds, loopVars, copyVars, Finish
<1>1. TypeOK'
  BY DEF TypeOK, Progress, InHand, Polls, Smaller
<1>2. Progress'
  BY DEF TypeOK, Progress, InHand, Polls, Smaller
<1>3. Flags'
  BY DEF TypeOK, Flags, Polls
<1>4. Naps'
  BY DEF TypeOK, Naps, Done, Polls, Smaller
<1>5. Verdict'
  <2>1. CASE pc["down"] = "err"
    <3>1. outcome' = "error"
      BY <2>1
    <3> QED
      BY <3>1 DEF Verdict, ErrorNotMasked, DeliveredWhenDone
  <2>2. CASE pc["down"] = "ok" /\ ~upDone
    <3>1. outcome' = "running"
      BY <2>2
    <3> QED
      BY <3>1 DEF Verdict, ErrorNotMasked, DeliveredWhenDone
  <2>3. CASE pc["down"] = "ok" /\ upDone
    <3>1. left["down"] = 0 /\ (closeSeen \/ (pc["up"] = "ok" /\ left["up"] = 0))
      BY <2>3 DEF Flags, Progress
    <3>2. closeSeen => signal = "normal"
      BY DEF Flags
    <3> QED
      BY <2>3, <3>1, <3>2 DEF Verdict, ErrorNotMasked, DeliveredWhenDone
  <2> QED
    BY <2>1, <2>2, <2>3 DEF TypeOK
<1> QED
  BY <1>1, <1>2, <1>3, <1>4, <1>5

(***************************************************************************)
(* The watchdog ends the relay only when no earlier branch was ready.      *)
(***************************************************************************)
LEMMA WatchdogInv ==
    ASSUME RelayInv, Watchdog
    PROVE  RelayInv'
<1> USE TimesAssumption, Times DEF RelayInv, Directions, Watchdog, loopVars, copyVars, Finish, ReadyFirst
<1>1. TypeOK'
  BY DEF TypeOK, Progress, InHand, Polls, Smaller
<1>2. Progress'
  BY DEF TypeOK, Progress, InHand, Polls, Smaller
<1>3. Flags'
  BY DEF TypeOK, Flags, Polls
<1>4. Naps'
  BY DEF TypeOK, Naps, Done, Polls, Smaller
<1>5. Verdict'
  BY DEF TypeOK, Verdict, ErrorNotMasked, DeliveredWhenDone, Polls, Flags, Progress
<1> QED
  BY <1>1, <1>2, <1>3, <1>4, <1>5

(***************************************************************************)
(* A unit of time moves the clock of a shaped flow and its nap together.   *)
(***************************************************************************)
LEMMA TimeInv ==
    ASSUME RelayInv, TimePasses
    PROVE  RelayInv'
<1> USE TimesAssumption, Times DEF RelayInv, Directions, TimePasses, loopVars, copyVars, ReadyFirst, Shaping
<1>1. TypeOK'
  BY DEF TypeOK, Progress, InHand, Polls, Smaller
<1>2. Progress'
  BY DEF TypeOK, Progress, InHand, Polls, Smaller
<1>3. Flags'
  BY DEF TypeOK, Flags, Polls
<1>4. Naps'
  BY DEF TypeOK, Naps, Done, Polls, Smaller
<1>5. Verdict'
  BY DEF TypeOK, Verdict, ErrorNotMasked, DeliveredWhenDone, Polls, Flags, Progress
<1> QED
  BY <1>1, <1>2, <1>3, <1>4, <1>5

(***************************************************************************)
(* RelayInv is an invariant of the relay.                                  *)
(***************************************************************************)
THEOREM RelayInvariant == Spec => []RelayInv
<1>1. ASSUME RelayInv, [Next]_vars PROVE RelayInv'
  <2>1. CASE \E d \in Directions : Copy(d)
    <3>1. PICK d \in Directions : Copy(d)
      BY <2>1
    <3> QED
      BY <1>1, <3>1, ReadInv, NapInv, WriteInv, EofInv, FailInv, ShutdownInv DEF Copy
  <2>2. CASE \E how \in {"normal", "failed"} : RemoteCloses(how)
    BY <1>1, <2>2, RemoteClosesInv
  <2>3. CASE Loop
    BY <1>1, <2>3, SeeCloseInv, UpOkInv, UpFailsInv, DownEndsInv, WatchdogInv DEF Loop
  <2>4. CASE TimePasses
    BY <1>1, <2>4, TimeInv
  <2>5. CASE UNCHANGED vars
    BY <1>1, <2>5 DEF RelayInv, TypeOK, Progress, InHand, Flags, Naps, Done, Verdict,
         ErrorNotMasked, DeliveredWhenDone, vars, copyVars, loopVars
  <2> QED
    BY <1>1, <2>1, <2>2, <2>3, <2>4, <2>5 DEF Next
<1> QED
  BY <1>1, InitInv, PTL DEF Spec

(***************************************************************************)
(* Type correctness, for every value of the constants.                     *)
(***************************************************************************)
THEOREM RelayTypeCorrect == Spec => []TypeOK
<1>1. RelayInv => TypeOK
  BY DEF RelayInv
<1> QED
  BY <1>1, RelayInvariant, PTL

(***************************************************************************)
(* The biased select! of relay_both_until reports a ready error and never  *)
(* the watchdog's Ok in its place; only a normal close excuses a failed    *)
(* upload.                                                                 *)
(***************************************************************************)
THEOREM ErrorReported == Spec => []ErrorNotMasked
<1>1. RelayInv => ErrorNotMasked
  BY DEF RelayInv, Verdict
<1> QED
  BY <1>1, RelayInvariant, PTL

(***************************************************************************)
(* A relay that returns from both directions has delivered the whole of    *)
(* the download and shut the client's writer down, whatever the remote's   *)
(* close raced with.                                                       *)
(***************************************************************************)
THEOREM DownloadDelivered == Spec => []DeliveredWhenDone
<1>1. RelayInv => DeliveredWhenDone
  BY DEF RelayInv, Verdict
<1> QED
  BY <1>1, RelayInvariant, PTL

(***************************************************************************)
(* The verdict of relay_both_until can be believed: Ok masks no error and  *)
(* comes, unless from the watchdog, after everything was delivered.        *)
(***************************************************************************)
THEOREM HonestVerdict == Spec => []VerdictHonest
<1>1. ErrorNotMasked /\ DeliveredWhenDone => VerdictHonest
  BY DEF VerdictHonest
<1> QED
  BY <1>1, ErrorReported, DownloadDelivered, PTL

(***************************************************************************)
(* shaped_wait naps for at most half the idle timeout and marks activity   *)
(* after each nap: with any idle timeout, any cap and any wait, a flow in  *)
(* a shaped pause is never ended as idle.  Without a timeout the theorem   *)
(* is false, since the drain limit does not bound the nap.                 *)
(***************************************************************************)
THEOREM ShapedSurvives == ASSUME Idle # 0 PROVE Spec => []ShapedIsNotIdle
<1>1. Init => ShapedIsNotIdle
  BY DEF Init, ShapedIsNotIdle
<1>2. ASSUME RelayInv, ShapedIsNotIdle, [Next]_vars PROVE ShapedIsNotIdle'
  <2>1. CASE outcome = "running" /\ outcome' = "idle"
    <3>1. Watchdog
      BY <1>2, <2>1 DEF Next, Copy, Loop, Read, NapEnds, WritePart, ReadEof, CopyFails,
           ShutdownWriter, RemoteCloses, SeeClose, UpOk, UpFails, DownEnds, TimePasses, Finish,
           vars, copyVars, loopVars
    <3>2. quiet >= Limit
      BY <2>1, <3>1 DEF Watchdog, Finish
    <3>3. \A d \in Directions : ~(pc[d] = "shaping" /\ ~Done(d))
      BY <1>2, <2>1, <3>2, Times DEF RelayInv, Naps, TypeOK
    <3>4. pc["down"] = "shaping" => ~downDone
      BY <1>2 DEF RelayInv, Flags
    <3> QED
      BY <3>1, <3>3, <3>4 DEF ShapedIsNotIdle, Watchdog, Directions, Done, copyVars
  <2>2. CASE outcome # "running"
    BY <1>2, <2>2 DEF ShapedIsNotIdle, Next, Copy, Loop, Read, NapEnds, WritePart, ReadEof,
         CopyFails, ShutdownWriter, RemoteCloses, SeeClose, UpOk, UpFails, DownEnds, Watchdog,
         TimePasses, Polls, vars, copyVars, loopVars
  <2>3. CASE outcome' # "idle"
    BY <2>3 DEF ShapedIsNotIdle
  <2> QED
    BY <2>1, <2>2, <2>3
<1> QED
  BY <1>1, <1>2, RelayInvariant, PTL DEF Spec

(***************************************************************************)
(* The recheck of the close signal in relay_both_until: no step turns a    *)
(* normal close of the remote into an error, unless the download itself    *)
(* failed.                                                                 *)
(***************************************************************************)
THEOREM CloseSparesDownload == Spec => CloseKeepsDownload
<1> DEFINE A == outcome = "running" /\ outcome' = "error"
                => signal' # "normal" \/ pc["down"] = "err"
<1>1. ASSUME RelayInv, [Next]_vars PROVE [A]_vars
  <2> SUFFICES ASSUME outcome = "running", outcome' = "error"
               PROVE  signal' # "normal" \/ pc["down"] = "err"
    OBVIOUS
  <2>1. SeeClose \/ UpFails \/ DownEnds
    BY <1>1 DEF Next, Copy, Loop, Read, NapEnds, WritePart, ReadEof, CopyFails,
         ShutdownWriter, RemoteCloses, UpOk, Watchdog, TimePasses, Finish,
         vars, copyVars, loopVars
  <2>2. CASE SeeClose
    BY <2>2 DEF SeeClose, Finish
  <2>3. CASE UpFails
    <3>1. signal = "none"
      BY <1>1, <2>3 DEF UpFails, Polls, RelayInv, Flags
    <3> QED
      BY <2>3, <3>1 DEF UpFails, Finish
  <2>4. CASE DownEnds
    BY <2>4 DEF DownEnds, Finish
  <2> QED
    BY <2>1, <2>2, <2>3, <2>4
<1> QED
  BY <1>1, RelayInvariant, PTL DEF Spec, CloseKeepsDownload

-----------------------------------------------------------------------------
(* Generations of the RDP transport.                                      *)

\* The pipe exists: its thread listens or has its client.
PipeUp(c) == pipeThread[c] \in {"listen", "joined"}

(***************************************************************************)
(* At most one bridge is open, and it is the one the transport's session   *)
(* manager takes for active: open_session closes the old bridge first.     *)
(***************************************************************************)
OneSession == \A c \in Channels : bridge[c] = "open" => active = c

\* At most one pipe thread serves, and the client is linked to no other.
OnePipe ==
    /\ \A c, d \in Channels : PipeUp(c) /\ PipeUp(d) => c = d
    /\ \A c \in Channels : PipeUp(c) => link \in {c, None}

\* reconnect_loop, its driver and the published handle are of one generation.
Generation ==
    /\ loop \in {"connect", "sleep", "done"} => link = None
    /\ loop \in {"publish", "serve"} => driver \in {"up", "ended"}
    /\ loop \notin {"publish", "serve"} => driver = "none"
    /\ driver = "ended" => link = None
    /\ current # None =>
          loop = "serve" /\ owner = "held" /\ (link = current \/ driver = "ended")

LifeInv == LifeTypeOK /\ OneSession /\ OnePipe /\ Generation

LEMMA LifeStart == LifeInit => LifeInv
BY LifeAssumption DEF LifeInit, LifeInv, LifeTypeOK, OneSession, OnePipe, PipeUp, Generation, None

LEMMA LossKeeps ==
    ASSUME losses \in 0 .. MaxLosses, NEW cause, Loss(cause)
    PROVE  losses' \in 0 .. MaxLosses
BY LifeAssumption DEF Loss

LEMMA ConnectKeeps ==
    ASSUME LifeInv, NEW c \in Channels, Connect(c)
    PROVE  LifeInv'
<1>1. LifeTypeOK'
  BY LifeAssumption, LossKeeps DEF LifeInv, LifeTypeOK, Connect, clientVars, transportVars, agentVars, Looping
<1>2. OneSession'
  BY LifeAssumption DEF LifeInv, LifeTypeOK, OneSession, Connect, clientVars, transportVars, agentVars, Occupied
<1>3. OnePipe'
  BY LifeAssumption DEF LifeInv, LifeTypeOK, OnePipe, PipeUp, Connect, clientVars, transportVars, agentVars, PipeHeld, Generation, Looping
<1>4. Generation'
  BY LifeAssumption DEF LifeInv, LifeTypeOK, Generation, Connect, clientVars, transportVars, agentVars, Looping
<1> QED BY <1>1, <1>2, <1>3, <1>4 DEF LifeInv

LEMMA OpenChannelKeeps ==
    ASSUME LifeInv, NEW c \in Channels, OpenChannel(c)
    PROVE  LifeInv'
<1>1. LifeTypeOK'
  BY LifeAssumption, LossKeeps DEF LifeInv, LifeTypeOK, OpenChannel, clientVars, transportVars, agentVars, Looping
<1>2. OneSession'
  BY LifeAssumption DEF LifeInv, LifeTypeOK, OneSession, OpenChannel, clientVars, transportVars, agentVars, Occupied
<1>3. OnePipe'
  BY LifeAssumption DEF LifeInv, LifeTypeOK, OnePipe, PipeUp, OpenChannel, clientVars, transportVars, agentVars, PipeHeld, Generation, Looping
<1>4. Generation'
  BY LifeAssumption DEF LifeInv, LifeTypeOK, Generation, OpenChannel, clientVars, transportVars, agentVars, Looping
<1> QED BY <1>1, <1>2, <1>3, <1>4 DEF LifeInv

LEMMA OpenHalfStartedKeeps ==
    ASSUME LifeInv, NEW c \in Channels, OpenHalfStarted(c)
    PROVE  LifeInv'
<1>1. LifeTypeOK'
  BY LifeAssumption, LossKeeps DEF LifeInv, LifeTypeOK, OpenHalfStarted, clientVars, transportVars, agentVars, Looping
<1>2. OneSession'
  BY LifeAssumption DEF LifeInv, LifeTypeOK, OneSession, OpenHalfStarted, clientVars, transportVars, agentVars, Occupied
<1>3. OnePipe'
  BY LifeAssumption DEF LifeInv, LifeTypeOK, OnePipe, PipeUp, OpenHalfStarted, clientVars, transportVars, agentVars, PipeHeld, Generation, Looping
<1>4. Generation'
  BY LifeAssumption DEF LifeInv, LifeTypeOK, Generation, OpenHalfStarted, clientVars, transportVars, agentVars, Looping
<1> QED BY <1>1, <1>2, <1>3, <1>4 DEF LifeInv

LEMMA CreatePipeKeeps ==
    ASSUME LifeInv, NEW c \in Channels, CreatePipe(c)
    PROVE  LifeInv'
<1>1. LifeTypeOK'
  BY LifeAssumption, LossKeeps DEF LifeInv, LifeTypeOK, CreatePipe, clientVars, transportVars, agentVars, Looping
<1>2. OneSession'
  BY LifeAssumption DEF LifeInv, LifeTypeOK, OneSession, CreatePipe, clientVars, transportVars, agentVars, Occupied
<1>3. OnePipe'
  BY LifeAssumption DEF LifeInv, LifeTypeOK, OnePipe, PipeUp, CreatePipe, clientVars, transportVars, agentVars, PipeHeld, Generation, Looping
<1>4. Generation'
  BY LifeAssumption DEF LifeInv, LifeTypeOK, Generation, CreatePipe, clientVars, transportVars, agentVars, Looping
<1> QED BY <1>1, <1>2, <1>3, <1>4 DEF LifeInv

LEMMA PipeEndsKeeps ==
    ASSUME LifeInv, NEW c \in Channels, PipeEnds(c)
    PROVE  LifeInv'
<1>1. LifeTypeOK'
  BY LifeAssumption, LossKeeps DEF LifeInv, LifeTypeOK, PipeEnds, clientVars, transportVars, agentVars, Looping
<1>2. OneSession'
  BY LifeAssumption DEF LifeInv, LifeTypeOK, OneSession, PipeEnds, clientVars, transportVars, agentVars, Occupied
<1>3. OnePipe'
  BY LifeAssumption DEF LifeInv, LifeTypeOK, OnePipe, PipeUp, PipeEnds, clientVars, transportVars, agentVars, PipeHeld, Generation, Looping
<1>4. Generation'
  BY LifeAssumption DEF LifeInv, LifeTypeOK, Generation, PipeEnds, clientVars, transportVars, agentVars, Looping
<1> QED BY <1>1, <1>2, <1>3, <1>4 DEF LifeInv

LEMMA WriterEndsKeeps ==
    ASSUME LifeInv, NEW c \in Channels, WriterEnds(c)
    PROVE  LifeInv'
<1>1. LifeTypeOK'
  BY LifeAssumption, LossKeeps DEF LifeInv, LifeTypeOK, WriterEnds, clientVars, transportVars, agentVars, Looping
<1>2. OneSession'
  BY LifeAssumption DEF LifeInv, LifeTypeOK, OneSession, WriterEnds, clientVars, transportVars, agentVars, Occupied
<1>3. OnePipe'
  BY LifeAssumption DEF LifeInv, LifeTypeOK, OnePipe, PipeUp, WriterEnds, clientVars, transportVars, agentVars, PipeHeld, Generation, Looping
<1>4. Generation'
  BY LifeAssumption DEF LifeInv, LifeTypeOK, Generation, WriterEnds, clientVars, transportVars, agentVars, Looping
<1> QED BY <1>1, <1>2, <1>3, <1>4 DEF LifeInv

LEMMA CloseSessionKeeps ==
    ASSUME LifeInv, NEW c \in Channels, CloseSession(c)
    PROVE  LifeInv'
<1>1. LifeTypeOK'
  BY LifeAssumption, LossKeeps DEF LifeInv, LifeTypeOK, CloseSession, clientVars, transportVars, agentVars, Looping
<1>2. OneSession'
  BY LifeAssumption DEF LifeInv, LifeTypeOK, OneSession, CloseSession, clientVars, transportVars, agentVars, Occupied
<1>3. OnePipe'
  BY LifeAssumption DEF LifeInv, LifeTypeOK, OnePipe, PipeUp, CloseSession, clientVars, transportVars, agentVars, PipeHeld, Generation, Looping
<1>4. Generation'
  BY LifeAssumption DEF LifeInv, LifeTypeOK, Generation, CloseSession, clientVars, transportVars, agentVars, Looping
<1> QED BY <1>1, <1>2, <1>3, <1>4 DEF LifeInv

LEMMA ChannelLostKeeps ==
    ASSUME LifeInv, NEW c \in Channels, ChannelLost(c)
    PROVE  LifeInv'
<1>1. LifeTypeOK'
  BY LifeAssumption, LossKeeps DEF LifeInv, LifeTypeOK, ChannelLost, clientVars, transportVars, agentVars, Looping
<1>2. OneSession'
  BY LifeAssumption DEF LifeInv, LifeTypeOK, OneSession, ChannelLost, clientVars, transportVars, agentVars, Occupied
<1>3. OnePipe'
  BY LifeAssumption DEF LifeInv, LifeTypeOK, OnePipe, PipeUp, ChannelLost, clientVars, transportVars, agentVars, PipeHeld, Generation, Looping
<1>4. Generation'
  BY LifeAssumption DEF LifeInv, LifeTypeOK, Generation, ChannelLost, clientVars, transportVars, agentVars, Looping
<1> QED BY <1>1, <1>2, <1>3, <1>4 DEF LifeInv

LEMMA HelloArrivesKeeps ==
    ASSUME LifeInv, NEW c \in Channels, HelloArrives(c)
    PROVE  LifeInv'
<1>1. LifeTypeOK'
  BY LifeAssumption, LossKeeps DEF LifeInv, LifeTypeOK, HelloArrives, clientVars, transportVars, agentVars, Looping
<1>2. OneSession'
  BY LifeAssumption DEF LifeInv, LifeTypeOK, OneSession, HelloArrives, clientVars, transportVars, agentVars, Occupied
<1>3. OnePipe'
  BY LifeAssumption DEF LifeInv, LifeTypeOK, OnePipe, PipeUp, HelloArrives, clientVars, transportVars, agentVars, PipeHeld, Generation, Looping
<1>4. Generation'
  BY LifeAssumption DEF LifeInv, LifeTypeOK, Generation, HelloArrives, clientVars, transportVars, agentVars, Looping
<1> QED BY <1>1, <1>2, <1>3, <1>4 DEF LifeInv

LEMMA ActorEndsKeeps ==
    ASSUME LifeInv, NEW c \in Channels, ActorEnds(c)
    PROVE  LifeInv'
<1>1. LifeTypeOK'
  BY LifeAssumption, LossKeeps DEF LifeInv, LifeTypeOK, ActorEnds, clientVars, transportVars, agentVars, Looping
<1>2. OneSession'
  BY LifeAssumption DEF LifeInv, LifeTypeOK, OneSession, ActorEnds, clientVars, transportVars, agentVars, Occupied
<1>3. OnePipe'
  BY LifeAssumption DEF LifeInv, LifeTypeOK, OnePipe, PipeUp, ActorEnds, clientVars, transportVars, agentVars, PipeHeld, Generation, Looping
<1>4. Generation'
  BY LifeAssumption DEF LifeInv, LifeTypeOK, Generation, ActorEnds, clientVars, transportVars, agentVars, Looping
<1> QED BY <1>1, <1>2, <1>3, <1>4 DEF LifeInv

LEMMA ActorSticksKeeps ==
    ASSUME LifeInv, NEW c \in Channels, ActorSticks(c)
    PROVE  LifeInv'
<1>1. LifeTypeOK'
  BY LifeAssumption, LossKeeps DEF LifeInv, LifeTypeOK, ActorSticks, clientVars, transportVars, agentVars, Looping
<1>2. OneSession'
  BY LifeAssumption DEF LifeInv, LifeTypeOK, OneSession, ActorSticks, clientVars, transportVars, agentVars, Occupied
<1>3. OnePipe'
  BY LifeAssumption DEF LifeInv, LifeTypeOK, OnePipe, PipeUp, ActorSticks, clientVars, transportVars, agentVars, PipeHeld, Generation, Looping
<1>4. Generation'
  BY LifeAssumption DEF LifeInv, LifeTypeOK, Generation, ActorSticks, clientVars, transportVars, agentVars, Looping
<1> QED BY <1>1, <1>2, <1>3, <1>4 DEF LifeInv

LEMMA RecycleKeeps ==
    ASSUME LifeInv, NEW c \in Channels, Recycle(c)
    PROVE  LifeInv'
<1>1. LifeTypeOK'
  BY LifeAssumption, LossKeeps DEF LifeInv, LifeTypeOK, Recycle, clientVars, transportVars, agentVars, Looping
<1>2. OneSession'
  BY LifeAssumption DEF LifeInv, LifeTypeOK, OneSession, Recycle, clientVars, transportVars, agentVars, Occupied
<1>3. OnePipe'
  BY LifeAssumption DEF LifeInv, LifeTypeOK, OnePipe, PipeUp, Recycle, clientVars, transportVars, agentVars, PipeHeld, Generation, Looping
<1>4. Generation'
  BY LifeAssumption DEF LifeInv, LifeTypeOK, Generation, Recycle, clientVars, transportVars, agentVars, Looping
<1> QED BY <1>1, <1>2, <1>3, <1>4 DEF LifeInv

LEMMA ConnectFailsKeeps ==
    ASSUME LifeInv, ConnectFails
    PROVE  LifeInv'
<1>1. LifeTypeOK'
  BY LifeAssumption, LossKeeps DEF LifeInv, LifeTypeOK, ConnectFails, clientVars, transportVars, agentVars, Looping
<1>2. OneSession'
  BY LifeAssumption DEF LifeInv, LifeTypeOK, OneSession, ConnectFails, clientVars, transportVars, agentVars, Occupied
<1>3. OnePipe'
  BY LifeAssumption DEF LifeInv, LifeTypeOK, OnePipe, PipeUp, ConnectFails, clientVars, transportVars, agentVars, PipeHeld, Generation, Looping
<1>4. Generation'
  BY LifeAssumption DEF LifeInv, LifeTypeOK, Generation, ConnectFails, clientVars, transportVars, agentVars, Looping
<1> QED BY <1>1, <1>2, <1>3, <1>4 DEF LifeInv

LEMMA ClientHelloKeeps ==
    ASSUME LifeInv, ClientHello
    PROVE  LifeInv'
<1>1. LifeTypeOK'
  BY LifeAssumption, LossKeeps DEF LifeInv, LifeTypeOK, ClientHello, clientVars, transportVars, agentVars, Looping
<1>2. OneSession'
  BY LifeAssumption DEF LifeInv, LifeTypeOK, OneSession, ClientHello, clientVars, transportVars, agentVars, Occupied
<1>3. OnePipe'
  BY LifeAssumption DEF LifeInv, LifeTypeOK, OnePipe, PipeUp, ClientHello, clientVars, transportVars, agentVars, PipeHeld, Generation, Looping
<1>4. Generation'
  BY LifeAssumption DEF LifeInv, LifeTypeOK, Generation, ClientHello, clientVars, transportVars, agentVars, Looping
<1> QED BY <1>1, <1>2, <1>3, <1>4 DEF LifeInv

LEMMA HandshakeFailsKeeps ==
    ASSUME LifeInv, HandshakeFails
    PROVE  LifeInv'
<1>1. LifeTypeOK'
  BY LifeAssumption, LossKeeps DEF LifeInv, LifeTypeOK, HandshakeFails, clientVars, transportVars, agentVars, Looping
<1>2. OneSession'
  BY LifeAssumption DEF LifeInv, LifeTypeOK, OneSession, HandshakeFails, clientVars, transportVars, agentVars, Occupied
<1>3. OnePipe'
  BY LifeAssumption DEF LifeInv, LifeTypeOK, OnePipe, PipeUp, HandshakeFails, clientVars, transportVars, agentVars, PipeHeld, Generation, Looping
<1>4. Generation'
  BY LifeAssumption DEF LifeInv, LifeTypeOK, Generation, HandshakeFails, clientVars, transportVars, agentVars, Looping
<1> QED BY <1>1, <1>2, <1>3, <1>4 DEF LifeInv

LEMMA PublishKeeps ==
    ASSUME LifeInv, Publish
    PROVE  LifeInv'
<1>1. LifeTypeOK'
  BY LifeAssumption, LossKeeps DEF LifeInv, LifeTypeOK, Publish, clientVars, transportVars, agentVars, Looping
<1>2. OneSession'
  BY LifeAssumption DEF LifeInv, LifeTypeOK, OneSession, Publish, clientVars, transportVars, agentVars, Occupied
<1>3. OnePipe'
  BY LifeAssumption DEF LifeInv, LifeTypeOK, OnePipe, PipeUp, Publish, clientVars, transportVars, agentVars, PipeHeld, Generation, Looping
<1>4. Generation'
  BY LifeAssumption DEF LifeInv, LifeTypeOK, Generation, Publish, clientVars, transportVars, agentVars, Looping
<1> QED BY <1>1, <1>2, <1>3, <1>4 DEF LifeInv

LEMMA DriverEndsKeeps ==
    ASSUME LifeInv, DriverEnds
    PROVE  LifeInv'
<1>1. LifeTypeOK'
  BY LifeAssumption, LossKeeps DEF LifeInv, LifeTypeOK, DriverEnds, clientVars, transportVars, agentVars, Looping
<1>2. OneSession'
  BY LifeAssumption DEF LifeInv, LifeTypeOK, OneSession, DriverEnds, clientVars, transportVars, agentVars, Occupied
<1>3. OnePipe'
  BY LifeAssumption DEF LifeInv, LifeTypeOK, OnePipe, PipeUp, DriverEnds, clientVars, transportVars, agentVars, PipeHeld, Generation, Looping
<1>4. Generation'
  BY LifeAssumption DEF LifeInv, LifeTypeOK, Generation, DriverEnds, clientVars, transportVars, agentVars, Looping
<1> QED BY <1>1, <1>2, <1>3, <1>4 DEF LifeInv

LEMMA WithdrawKeeps ==
    ASSUME LifeInv, Withdraw
    PROVE  LifeInv'
<1>1. LifeTypeOK'
  BY LifeAssumption, LossKeeps DEF LifeInv, LifeTypeOK, Withdraw, clientVars, transportVars, agentVars, Looping
<1>2. OneSession'
  BY LifeAssumption DEF LifeInv, LifeTypeOK, OneSession, Withdraw, clientVars, transportVars, agentVars, Occupied
<1>3. OnePipe'
  BY LifeAssumption DEF LifeInv, LifeTypeOK, OnePipe, PipeUp, Withdraw, clientVars, transportVars, agentVars, PipeHeld, Generation, Looping
<1>4. Generation'
  BY LifeAssumption DEF LifeInv, LifeTypeOK, Generation, Withdraw, clientVars, transportVars, agentVars, Looping
<1> QED BY <1>1, <1>2, <1>3, <1>4 DEF LifeInv

LEMMA WakeKeeps ==
    ASSUME LifeInv, Wake
    PROVE  LifeInv'
<1>1. LifeTypeOK'
  BY LifeAssumption, LossKeeps DEF LifeInv, LifeTypeOK, Wake, clientVars, transportVars, agentVars, Looping
<1>2. OneSession'
  BY LifeAssumption DEF LifeInv, LifeTypeOK, OneSession, Wake, clientVars, transportVars, agentVars, Occupied
<1>3. OnePipe'
  BY LifeAssumption DEF LifeInv, LifeTypeOK, OnePipe, PipeUp, Wake, clientVars, transportVars, agentVars, PipeHeld, Generation, Looping
<1>4. Generation'
  BY LifeAssumption DEF LifeInv, LifeTypeOK, Generation, Wake, clientVars, transportVars, agentVars, Looping
<1> QED BY <1>1, <1>2, <1>3, <1>4 DEF LifeInv

LEMMA DropConnectorKeeps ==
    ASSUME LifeInv, DropConnector
    PROVE  LifeInv'
<1>1. LifeTypeOK'
  BY LifeAssumption, LossKeeps DEF LifeInv, LifeTypeOK, DropConnector, clientVars, transportVars, agentVars, Looping
<1>2. OneSession'
  BY LifeAssumption DEF LifeInv, LifeTypeOK, OneSession, DropConnector, clientVars, transportVars, agentVars, Occupied
<1>3. OnePipe'
  BY LifeAssumption DEF LifeInv, LifeTypeOK, OnePipe, PipeUp, DropConnector, clientVars, transportVars, agentVars, PipeHeld, Generation, Looping
<1>4. Generation'
  BY LifeAssumption DEF LifeInv, LifeTypeOK, Generation, DropConnector, clientVars, transportVars, agentVars, Looping
<1> QED BY <1>1, <1>2, <1>3, <1>4 DEF LifeInv

LEMMA ShutdownKeeps ==
    ASSUME LifeInv, Shutdown
    PROVE  LifeInv'
<1>1. LifeTypeOK'
  BY LifeAssumption, LossKeeps DEF LifeInv, LifeTypeOK, Shutdown, clientVars, transportVars, agentVars, Looping
<1>2. OneSession'
  BY LifeAssumption DEF LifeInv, LifeTypeOK, OneSession, Shutdown, clientVars, transportVars, agentVars, Occupied
<1>3. OnePipe'
  BY LifeAssumption DEF LifeInv, LifeTypeOK, OnePipe, PipeUp, Shutdown, clientVars, transportVars, agentVars, PipeHeld, Generation, Looping
<1>4. Generation'
  BY LifeAssumption DEF LifeInv, LifeTypeOK, Generation, Shutdown, clientVars, transportVars, agentVars, Looping
<1> QED BY <1>1, <1>2, <1>3, <1>4 DEF LifeInv

LEMMA OpenFailsKeeps ==
    ASSUME LifeInv, OpenFails
    PROVE  LifeInv'
<1>1. LifeTypeOK'
  BY LifeAssumption, LossKeeps DEF LifeInv, LifeTypeOK, OpenFails, clientVars, transportVars, agentVars, Looping
<1>2. OneSession'
  BY LifeAssumption DEF LifeInv, LifeTypeOK, OneSession, OpenFails, clientVars, transportVars, agentVars, Occupied
<1>3. OnePipe'
  BY LifeAssumption DEF LifeInv, LifeTypeOK, OnePipe, PipeUp, OpenFails, clientVars, transportVars, agentVars, PipeHeld, Generation, Looping
<1>4. Generation'
  BY LifeAssumption DEF LifeInv, LifeTypeOK, Generation, OpenFails, clientVars, transportVars, agentVars, Looping
<1> QED BY <1>1, <1>2, <1>3, <1>4 DEF LifeInv

LEMMA TransportDiesKeeps ==
    ASSUME LifeInv, TransportDies
    PROVE  LifeInv'
<1>1. LifeTypeOK'
  BY LifeAssumption, LossKeeps DEF LifeInv, LifeTypeOK, TransportDies, clientVars, transportVars, agentVars, Looping
<1>2. OneSession'
  BY LifeAssumption DEF LifeInv, LifeTypeOK, OneSession, TransportDies, clientVars, transportVars, agentVars, Occupied
<1>3. OnePipe'
  BY LifeAssumption DEF LifeInv, LifeTypeOK, OnePipe, PipeUp, TransportDies, clientVars, transportVars, agentVars, PipeHeld, Generation, Looping
<1>4. Generation'
  BY LifeAssumption DEF LifeInv, LifeTypeOK, Generation, TransportDies, clientVars, transportVars, agentVars, Looping
<1> QED BY <1>1, <1>2, <1>3, <1>4 DEF LifeInv

LEMMA AgentHelloKeeps ==
    ASSUME LifeInv, AgentHello
    PROVE  LifeInv'
<1>1. LifeTypeOK'
  BY LifeAssumption, LossKeeps DEF LifeInv, LifeTypeOK, AgentHello, clientVars, transportVars, agentVars, Looping
<1>2. OneSession'
  BY LifeAssumption DEF LifeInv, LifeTypeOK, OneSession, AgentHello, clientVars, transportVars, agentVars, Occupied
<1>3. OnePipe'
  BY LifeAssumption DEF LifeInv, LifeTypeOK, OnePipe, PipeUp, AgentHello, clientVars, transportVars, agentVars, PipeHeld, Generation, Looping
<1>4. Generation'
  BY LifeAssumption DEF LifeInv, LifeTypeOK, Generation, AgentHello, clientVars, transportVars, agentVars, Looping
<1> QED BY <1>1, <1>2, <1>3, <1>4 DEF LifeInv

LEMMA AgentEndsKeeps ==
    ASSUME LifeInv, AgentEnds
    PROVE  LifeInv'
<1>1. LifeTypeOK'
  BY LifeAssumption, LossKeeps DEF LifeInv, LifeTypeOK, AgentEnds, clientVars, transportVars, agentVars, Looping
<1>2. OneSession'
  BY LifeAssumption DEF LifeInv, LifeTypeOK, OneSession, AgentEnds, clientVars, transportVars, agentVars, Occupied
<1>3. OnePipe'
  BY LifeAssumption DEF LifeInv, LifeTypeOK, OnePipe, PipeUp, AgentEnds, clientVars, transportVars, agentVars, PipeHeld, Generation, Looping
<1>4. Generation'
  BY LifeAssumption DEF LifeInv, LifeTypeOK, Generation, AgentEnds, clientVars, transportVars, agentVars, Looping
<1> QED BY <1>1, <1>2, <1>3, <1>4 DEF LifeInv

LEMMA AgentWakesKeeps ==
    ASSUME LifeInv, AgentWakes
    PROVE  LifeInv'
<1>1. LifeTypeOK'
  BY LifeAssumption, LossKeeps DEF LifeInv, LifeTypeOK, AgentWakes, clientVars, transportVars, agentVars, Looping
<1>2. OneSession'
  BY LifeAssumption DEF LifeInv, LifeTypeOK, OneSession, AgentWakes, clientVars, transportVars, agentVars, Occupied
<1>3. OnePipe'
  BY LifeAssumption DEF LifeInv, LifeTypeOK, OnePipe, PipeUp, AgentWakes, clientVars, transportVars, agentVars, PipeHeld, Generation, Looping
<1>4. Generation'
  BY LifeAssumption DEF LifeInv, LifeTypeOK, Generation, AgentWakes, clientVars, transportVars, agentVars, Looping
<1> QED BY <1>1, <1>2, <1>3, <1>4 DEF LifeInv

LEMMA AgentQuitsKeeps ==
    ASSUME LifeInv, AgentQuits
    PROVE  LifeInv'
<1>1. LifeTypeOK'
  BY LifeAssumption, LossKeeps DEF LifeInv, LifeTypeOK, AgentQuits, clientVars, transportVars, agentVars, Looping
<1>2. OneSession'
  BY LifeAssumption DEF LifeInv, LifeTypeOK, OneSession, AgentQuits, clientVars, transportVars, agentVars, Occupied
<1>3. OnePipe'
  BY LifeAssumption DEF LifeInv, LifeTypeOK, OnePipe, PipeUp, AgentQuits, clientVars, transportVars, agentVars, PipeHeld, Generation, Looping
<1>4. Generation'
  BY LifeAssumption DEF LifeInv, LifeTypeOK, Generation, AgentQuits, clientVars, transportVars, agentVars, Looping
<1> QED BY <1>1, <1>2, <1>3, <1>4 DEF LifeInv

LEMMA LifeStutters == LifeInv /\ UNCHANGED lifeVars => LifeInv'
BY DEF lifeVars, clientVars, transportVars, agentVars, LifeInv, LifeTypeOK, OneSession, OnePipe,
       PipeUp, Generation

LEMMA LifeStep == LifeInv /\ [LifeNext]_lifeVars => LifeInv'
BY LifeStutters, ConnectKeeps, OpenChannelKeeps, OpenHalfStartedKeeps, CreatePipeKeeps,
   PipeEndsKeeps, WriterEndsKeeps, CloseSessionKeeps, ChannelLostKeeps, HelloArrivesKeeps,
   ActorEndsKeeps, ActorSticksKeeps, RecycleKeeps, ConnectFailsKeeps, ClientHelloKeeps,
   HandshakeFailsKeeps, PublishKeeps, DriverEndsKeeps, WithdrawKeeps, WakeKeeps,
   DropConnectorKeeps, ShutdownKeeps, OpenFailsKeeps, TransportDiesKeeps, AgentHelloKeeps,
   AgentEndsKeeps, AgentWakesKeeps, AgentQuitsKeeps
DEF LifeNext

\* A set whose elements are all the same has one at most.
LEMMA OnlyOne ==
    ASSUME NEW S, \A x, y \in S : x = y
    PROVE  IsFiniteSet(S) /\ Cardinality(S) <= 1
<1>1. CASE S = {}
  BY <1>1, FS_EmptySet
<1>2. CASE S # {}
  <2>1. PICK x \in S : TRUE
    BY <1>2
  <2>2. S = {x}
    BY <2>1
  <2>3. IsFiniteSet({x}) /\ Cardinality({x}) = 1
    BY FS_Singleton
  <2>4. IsFiniteSet(S) /\ Cardinality(S) = 1
    BY <2>2, <2>3
  <2> QED BY <2>4
<1> QED BY <1>1, <1>2

(***************************************************************************)
(* Generations of the transport are made, lost and made again, by the      *)
(* proxy, the COM transport, the pipe and the agent, in any order: bridge, *)
(* pipe, link and handle always fit together.                              *)
(***************************************************************************)
THEOREM LifeInvariant == LifeSpec => []LifeInv
BY LifeStart, LifeStep, PTL DEF LifeSpec

(***************************************************************************)
(* SessionManager never has two bridges open nor two pipe servers running, *)
(* and a handle the connector hands out is that of the link in use or of   *)
(* one whose driver has ended.                                             *)
(***************************************************************************)
THEOREM BridgeIsOne == LifeSpec => []OneBridge
<1>1. LifeInv => OneBridge
  <2> SUFFICES ASSUME LifeInv PROVE OneBridge
    OBVIOUS
  <2>1. Cardinality({c \in Channels : bridge[c] = "open"}) <= 1
    BY OnlyOne DEF LifeInv, OneSession
  <2>2. Cardinality({c \in Channels : pipeThread[c] \in {"listen", "joined"}}) <= 1
    BY OnlyOne DEF LifeInv, OnePipe, PipeUp
  <2> QED BY <2>1, <2>2 DEF LifeInv, OnePipe, PipeUp, Generation, OneBridge
<1> QED BY <1>1, LifeInvariant, PTL

-----------------------------------------------------------------------------
(* The path of a generation.                                               *)

\* Frames a + 1 to b, in order.
Run(s, a, b) ==
    /\ s \in Seq(Nat) /\ a \in Nat /\ b \in Nat
    /\ a + Len(s) = b
    /\ \A i \in 1 .. Len(s) : s[i] = a + i

\* Cut points of a queue that holds frames a + 1 to b.
Cuts(n, f, a, b) ==
    /\ f \in [0 .. n -> Nat] /\ f[0] = a /\ f[n] = b
    /\ \A i, j \in 0 .. n : i <= j => f[i] <= f[j]

\* What a queue carries: at least one frame.
Messages == Seq(Nat) \ {<<>>}

\* The messages of a queue carry frames a + 1 to b.
Chain(q, a, b) ==
    /\ q \in Seq(Messages)
    /\ \E f : /\ Cuts(Len(q), f, a, b)
              /\ \A i \in 1 .. Len(q) : Run(q[i], f[i - 1], f[i])

\* The pieces of a message on the channel.
Pdus == [last : {TRUE}, message : Messages] \cup [last : {FALSE}]

\* So do the PDUs: the message comes with the last one.
Wires(w, a, b) ==
    /\ w \in Seq(Pdus)
    /\ \E f : /\ Cuts(Len(w), f, a, b)
              /\ \A i \in 1 .. Len(w) :
                    IF w[i].last THEN Run(w[i].message, f[i - 1], f[i]) ELSE f[i - 1] = f[i]

LEMMA RunEmpty == ASSUME NEW a \in Nat PROVE Run(<<>>, a, a)
BY DEF Run

LEMMA RunOrder ==
    ASSUME NEW s, NEW a, NEW b, Run(s, a, b)
    PROVE  a \in Nat /\ b \in Nat /\ a <= b
BY DEF Run

LEMMA RunAppend ==
    ASSUME NEW s, NEW a, NEW b, Run(s, a, b)
    PROVE  Run(Append(s, b + 1), a, b + 1)
BY DEF Run

LEMMA RunTail ==
    ASSUME NEW s, NEW a, NEW b, Run(s, a, b), s # <<>>
    PROVE  Head(s) = a + 1 /\ Run(Tail(s), a + 1, b)
BY DEF Run

LEMMA RunConcat ==
    ASSUME NEW s, NEW t, NEW a, NEW b, NEW c, Run(s, a, b), Run(t, b, c)
    PROVE  Run(s \o t, a, c)
<1>1. s \in Seq(Nat) /\ t \in Seq(Nat) /\ a \in Nat /\ b \in Nat /\ c \in Nat
  BY DEF Run
<1>2. a + Len(s) = b /\ b + Len(t) = c /\ Len(s) \in Nat /\ Len(t) \in Nat
  BY DEF Run
<1>3. s \o t \in Seq(Nat) /\ Len(s \o t) = Len(s) + Len(t)
  BY <1>1
<1>4. ASSUME NEW i \in 1 .. Len(s) + Len(t)
      PROVE  (s \o t)[i] = a + i
  <2>1. CASE i <= Len(s)
    <3>1. (s \o t)[i] = s[i]
      BY <1>1, <1>2, <2>1
    <3>2. s[i] = a + i
      BY <1>2, <2>1 DEF Run
    <3> QED BY <3>1, <3>2
  <2>2. CASE i > Len(s)
    <3>1. (s \o t)[i] = t[i - Len(s)]
      BY <1>1, <1>2, <2>2
    <3>2. t[i - Len(s)] = b + (i - Len(s))
      BY <1>2, <2>2 DEF Run
    <3>3. b + (i - Len(s)) = a + i
      BY <1>1, <1>2
    <3> QED BY <3>1, <3>2, <3>3
  <2> QED BY <1>2, <2>1, <2>2
<1>5. a + Len(s \o t) = c
  BY <1>1, <1>2, <1>3
<1> QED BY <1>1, <1>3, <1>4, <1>5 DEF Run

LEMMA CutsOrder ==
    ASSUME NEW n \in Nat, NEW f, NEW a, NEW b, Cuts(n, f, a, b)
    PROVE  a \in Nat /\ b \in Nat /\ a <= b
BY DEF Cuts

LEMMA CutsGrow ==
    ASSUME NEW n \in Nat, NEW f, NEW a, NEW b, NEW c \in Nat, Cuts(n, f, a, b), b <= c,
           NEW g, g = [i \in 0 .. n + 1 |-> IF i = n + 1 THEN c ELSE f[i]]
    PROVE  Cuts(n + 1, g, a, c)
BY DEF Cuts

LEMMA CutsShrink ==
    ASSUME NEW n \in Nat, n > 0, NEW f, NEW a, NEW b, Cuts(n, f, a, b),
           NEW g, g = [i \in 0 .. n - 1 |-> f[i + 1]]
    PROVE  Cuts(n - 1, g, f[1], b)
BY DEF Cuts

LEMMA ChainOrder ==
    ASSUME NEW q, NEW a, NEW b, Chain(q, a, b)
    PROVE  a \in Nat /\ b \in Nat /\ a <= b
<1>1. Len(q) \in Nat
  BY DEF Chain
<1> QED BY <1>1, CutsOrder DEF Chain

LEMMA ChainEmpty == ASSUME NEW a \in Nat PROVE Chain(<<>>, a, a)
<1>1. Cuts(0, [i \in 0 .. 0 |-> a], a, a)
  BY DEF Cuts
<1> QED BY <1>1 DEF Chain

LEMMA ChainAppend ==
    ASSUME NEW q, NEW s, NEW a, NEW b, NEW c, Chain(q, a, b), Run(s, b, c), s # <<>>
    PROVE  Chain(Append(q, s), a, c)
<1>1. q \in Seq(Messages) /\ s \in Messages /\ Len(q) \in Nat
  BY DEF Chain, Run, Messages
<1>2. PICK f : Cuts(Len(q), f, a, b) /\ \A i \in 1 .. Len(q) : Run(q[i], f[i - 1], f[i])
  BY DEF Chain
<1> DEFINE g == [i \in 0 .. Len(q) + 1 |-> IF i = Len(q) + 1 THEN c ELSE f[i]]
<1>3. Cuts(Len(q) + 1, g, a, c)
  BY <1>1, <1>2, RunOrder, CutsGrow
<1>4. Append(q, s) \in Seq(Messages) /\ Len(Append(q, s)) = Len(q) + 1
  BY <1>1
<1>5. ASSUME NEW i \in 1 .. Len(q) + 1
      PROVE  Run(Append(q, s)[i], g[i - 1], g[i])
  <2>1. CASE i = Len(q) + 1
    <3>1. Append(q, s)[i] = s /\ g[i] = c
      BY <1>1, <2>1
    <3>2. g[i - 1] = f[Len(q)] /\ f[Len(q)] = b
      BY <1>1, <1>2, <2>1 DEF Cuts
    <3> QED BY <3>1, <3>2
  <2>2. CASE i \in 1 .. Len(q)
    <3>1. Append(q, s)[i] = q[i] /\ g[i] = f[i] /\ g[i - 1] = f[i - 1]
      BY <1>1, <2>2
    <3> QED BY <3>1, <2>2, <1>2
  <2> QED BY <2>1, <2>2, <1>1
<1> HIDE DEF g
<1> QED BY <1>3, <1>4, <1>5 DEF Chain

LEMMA ChainTail ==
    ASSUME NEW q, NEW a, NEW b, Chain(q, a, b), q # <<>>
    PROVE  /\ Head(q) \in Messages
           /\ \E m \in Nat : Run(Head(q), a, m) /\ Chain(Tail(q), m, b)
<1>1. q \in Seq(Messages) /\ Len(q) \in Nat /\ Len(q) > 0
  BY DEF Chain
<1>2. PICK f : Cuts(Len(q), f, a, b) /\ \A i \in 1 .. Len(q) : Run(q[i], f[i - 1], f[i])
  BY DEF Chain
<1> DEFINE g == [i \in 0 .. Len(q) - 1 |-> f[i + 1]]
<1>3. Cuts(Len(q) - 1, g, f[1], b)
  BY <1>1, <1>2, CutsShrink
<1>4. Head(q) = q[1] /\ q[1] \in Messages
  BY <1>1
<1>5. Run(Head(q), a, f[1]) /\ f[1] \in Nat
  <2>1. f[0] = a /\ f[1] \in Nat
    BY <1>1, <1>2 DEF Cuts
  <2>2. Run(q[1], f[1 - 1], f[1])
    BY <1>1, <1>2
  <2> QED BY <2>1, <2>2, <1>4
<1>6. Tail(q) \in Seq(Messages) /\ Len(Tail(q)) = Len(q) - 1
  BY <1>1
<1>7. ASSUME NEW i \in 1 .. Len(q) - 1
      PROVE  Run(Tail(q)[i], g[i - 1], g[i])
  <2>1. Tail(q)[i] = q[i + 1] /\ g[i] = f[i + 1] /\ g[i - 1] = f[(i + 1) - 1] /\ i + 1 \in 1 .. Len(q)
    BY <1>1
  <2> QED BY <2>1, <1>2
<1> HIDE DEF g
<1>8. Chain(Tail(q), f[1], b)
  BY <1>3, <1>6, <1>7 DEF Chain
<1> QED BY <1>4, <1>5, <1>8

LEMMA WiresOrder ==
    ASSUME NEW w, NEW a, NEW b, Wires(w, a, b)
    PROVE  a \in Nat /\ b \in Nat /\ a <= b
<1>1. Len(w) \in Nat
  BY DEF Wires
<1> QED BY <1>1, CutsOrder DEF Wires

LEMMA WiresEmpty == ASSUME NEW a \in Nat PROVE Wires(<<>>, a, a)
<1>1. Cuts(0, [i \in 0 .. 0 |-> a], a, a)
  BY DEF Cuts
<1> QED BY <1>1 DEF Wires

LEMMA WiresAppend ==
    ASSUME NEW w, NEW p \in Pdus, NEW a, NEW b, NEW c \in Nat, Wires(w, a, b),
           IF p.last THEN Run(p.message, b, c) ELSE b = c
    PROVE  Wires(Append(w, p), a, c)
<1>1. w \in Seq(Pdus) /\ Len(w) \in Nat
  BY DEF Wires
<1>2. PICK f : /\ Cuts(Len(w), f, a, b)
               /\ \A i \in 1 .. Len(w) :
                    IF w[i].last THEN Run(w[i].message, f[i - 1], f[i]) ELSE f[i - 1] = f[i]
  BY DEF Wires
<1> DEFINE g == [i \in 0 .. Len(w) + 1 |-> IF i = Len(w) + 1 THEN c ELSE f[i]]
<1>b. b <= c
  BY <1>1, <1>2, RunOrder, CutsOrder
<1>3. Cuts(Len(w) + 1, g, a, c)
  BY <1>1, <1>2, <1>b, CutsGrow
<1>4. Append(w, p) \in Seq(Pdus) /\ Len(Append(w, p)) = Len(w) + 1
  BY <1>1
<1> DEFINE Fits(x, i, h) == IF x.last THEN Run(x.message, h[i - 1], h[i]) ELSE h[i - 1] = h[i]
<1>5. ASSUME NEW i \in 1 .. Len(w) + 1
      PROVE  Fits(Append(w, p)[i], i, g)
  <2>1. CASE i = Len(w) + 1
    <3>1. Append(w, p)[i] = p /\ g[i] = c
      BY <1>1, <2>1
    <3>2. g[i - 1] = f[Len(w)] /\ f[Len(w)] = b
      BY <1>1, <1>2, <2>1 DEF Cuts
    <3> QED BY <3>1, <3>2
  <2>2. CASE i \in 1 .. Len(w)
    <3>1. Append(w, p)[i] = w[i] /\ g[i] = f[i] /\ g[i - 1] = f[i - 1]
      BY <1>1, <2>2
    <3> QED BY <3>1, <2>2, <1>2
  <2> QED BY <2>1, <2>2, <1>1
<1> HIDE DEF g
<1> QED BY <1>3, <1>4, <1>5 DEF Wires

LEMMA WiresTail ==
    ASSUME NEW w, NEW a, NEW b, Wires(w, a, b), w # <<>>
    PROVE  /\ Head(w) \in Pdus
           /\ \E m \in Nat :
                /\ IF Head(w).last THEN Run(Head(w).message, a, m) ELSE a = m
                /\ Wires(Tail(w), m, b)
<1>1. w \in Seq(Pdus) /\ Len(w) \in Nat /\ Len(w) > 0
  BY DEF Wires
<1>2. PICK f : /\ Cuts(Len(w), f, a, b)
               /\ \A i \in 1 .. Len(w) :
                    IF w[i].last THEN Run(w[i].message, f[i - 1], f[i]) ELSE f[i - 1] = f[i]
  BY DEF Wires
<1> DEFINE g == [i \in 0 .. Len(w) - 1 |-> f[i + 1]]
<1>3. Cuts(Len(w) - 1, g, f[1], b)
  BY <1>1, <1>2, CutsShrink
<1>4. Head(w) = w[1] /\ w[1] \in Pdus
  BY <1>1
<1>5. /\ f[1] \in Nat
      /\ IF Head(w).last THEN Run(Head(w).message, a, f[1]) ELSE a = f[1]
  <2>1. f[0] = a /\ f[1] \in Nat
    BY <1>1, <1>2 DEF Cuts
  <2>2. IF w[1].last THEN Run(w[1].message, f[0], f[1]) ELSE f[0] = f[1]
    BY <1>1, <1>2
  <2> QED BY <2>1, <2>2, <1>4
<1>6. Tail(w) \in Seq(Pdus) /\ Len(Tail(w)) = Len(w) - 1
  BY <1>1
<1>7. ASSUME NEW i \in 1 .. Len(w) - 1
      PROVE  IF Tail(w)[i].last THEN Run(Tail(w)[i].message, g[i - 1], g[i]) ELSE g[i - 1] = g[i]
  <2>1. Tail(w)[i] = w[i + 1] /\ g[i] = f[i + 1] /\ g[i - 1] = f[(i + 1) - 1] /\ i + 1 \in 1 .. Len(w)
    BY <1>1
  <2> QED BY <2>1, <1>2
<1> HIDE DEF g
<1>8. Wires(Tail(w), f[1], b)
  BY <1>3, <1>6, <1>7 DEF Wires
<1> QED BY <1>4, <1>5, <1>8

-----------------------------------------------------------------------------
PathTypes ==
    /\ mux \in [Ends -> {"up", "ended"}]
    /\ frames \in [Ends -> Nat] /\ got \in [Ends -> Nat]
    /\ owes \in BOOLEAN /\ partial \in BOOLEAN /\ closed \in BOOLEAN
    /\ buffer \in [Ends -> Seq(Nat)] /\ arriving \in [Ends -> Seq(Nat)]
    /\ actor \in {"drain", "read", "stopped"} /\ batch \in 0 .. Batch
    /\ pump \in {"run", "done"} /\ writer \in {"run", "done"} /\ pipe \in {"run", "done"}

Queues ==
    /\ toActor \in Seq(Messages) /\ fromActor \in Seq(Messages)
    /\ toWriter \in Seq(Messages) /\ fromChannel \in Seq(Messages)
    /\ wireUp \in Seq(Messages) /\ wireDown \in Seq(Pdus)

\* No queue or buffer outgrows its capacity.
Bounded ==
    /\ \A e \in Ends : Len(buffer[e]) <= Buffer /\ Len(arriving[e]) <= Buffer
    /\ Len(toActor) <= Queue /\ Len(fromActor) <= Queue
    /\ Len(toWriter) <= Queue /\ Len(fromChannel) <= Queue

\* The agent's frames, from what the client has read on: they go missing only
\* behind a closed session, which forwards nothing more.
UpFlow ==
    \E u \in Nat :
       /\ Run(arriving["client"], got["client"], u)
       /\ u <= frames["agent"]
       /\ ~closed => \E v, w, x \in Nat :
                        /\ Chain(fromChannel, u, v) /\ Chain(wireUp, v, w)
                        /\ Chain(toActor, w, x) /\ Run(buffer["agent"], x, frames["agent"])

\* The client's frames: they go missing only behind a stopped actor.
DownFlow ==
    \E u, v \in Nat :
       /\ Run(arriving["agent"], got["agent"], u) /\ Chain(fromActor, u, v)
       /\ v <= frames["client"]
       /\ actor # "stopped" => \E w, x \in Nat :
                                  /\ Wires(wireDown, v, w) /\ Chain(toWriter, w, x)
                                  /\ Run(buffer["client"], x, frames["client"])

(***************************************************************************)
(* In each direction the queues and buffers, in order, hold the frames     *)
(* that have been written and not yet read, without a gap, unless the      *)
(* stage that lost them forwards nothing more.                             *)
(***************************************************************************)
PathInv ==
    /\ PathTypes /\ Queues /\ Bounded
    /\ pipe = "done" => closed
    /\ UpFlow /\ DownFlow

LEMMA PathStarts == PathInit => PathInv
<1> SUFFICES ASSUME PathInit PROVE PathInv
  OBVIOUS
<1>1. PathTypes /\ Queues /\ Bounded /\ (pipe = "done" => closed)
  <2>1. PathTypes /\ (pipe = "done" => closed)
    <3>1. 0 \in 0 .. Batch
      BY PathAssumption
    <3>2. mux \in [Ends -> {"up", "ended"}] /\ frames \in [Ends -> Nat] /\ got \in [Ends -> Nat]
      BY DEF PathInit
    <3>3. buffer \in [Ends -> Seq(Nat)] /\ arriving \in [Ends -> Seq(Nat)]
      BY DEF PathInit
    <3> QED BY <3>1, <3>2, <3>3 DEF PathInit, PathTypes
  <2>2. Queues
    BY DEF PathInit, Queues
  <2>3. Bounded
    BY PathAssumption DEF PathInit, Bounded, Ends
  <2> QED BY <2>1, <2>2, <2>3
<1>2. /\ arriving["client"] = <<>> /\ arriving["agent"] = <<>>
      /\ buffer["client"] = <<>> /\ buffer["agent"] = <<>>
      /\ got["client"] = 0 /\ got["agent"] = 0 /\ frames["client"] = 0 /\ frames["agent"] = 0
  BY DEF PathInit, Ends
<1>3. Run(<<>>, 0, 0) /\ Chain(<<>>, 0, 0) /\ Wires(<<>>, 0, 0)
  BY RunEmpty, ChainEmpty, WiresEmpty
<1>4. UpFlow
  BY <1>2, <1>3 DEF PathInit, UpFlow
<1>5. DownFlow
  BY <1>2, <1>3 DEF PathInit, DownFlow
<1> QED BY <1>1, <1>4, <1>5 DEF PathInv

LEMMA QueueTail ==
    ASSUME NEW S, NEW q \in Seq(S), q # <<>>
    PROVE  Head(q) \in S /\ Tail(q) \in Seq(S) /\ Len(Tail(q)) + 1 = Len(q) /\ Len(q) \in Nat
OBVIOUS

LEMMA UpKept ==
    ASSUME UpFlow, arriving'["client"] = arriving["client"], got'["client"] = got["client"],
           fromChannel' = fromChannel, wireUp' = wireUp, toActor' = toActor,
           buffer'["agent"] = buffer["agent"], frames'["agent"] = frames["agent"],
           closed' = closed
    PROVE  UpFlow'
BY DEF UpFlow

\* What is lost from here on is never forwarded.
LEMMA UpCloses ==
    ASSUME UpFlow, arriving'["client"] = arriving["client"], got'["client"] = got["client"],
           frames'["agent"] = frames["agent"], closed'
    PROVE  UpFlow'
BY DEF UpFlow

LEMMA DownKept ==
    ASSUME DownFlow, arriving'["agent"] = arriving["agent"], got'["agent"] = got["agent"],
           fromActor' = fromActor, wireDown' = wireDown, toWriter' = toWriter,
           buffer'["client"] = buffer["client"], frames'["client"] = frames["client"],
           actor' # "stopped" => actor # "stopped"
    PROVE  DownFlow'
BY DEF DownFlow

LEMMA DownStops ==
    ASSUME DownFlow, arriving'["agent"] = arriving["agent"], got'["agent"] = got["agent"],
           fromActor' = fromActor, frames'["client"] = frames["client"], actor' = "stopped"
    PROVE  DownFlow'
BY DEF DownFlow

LEMMA MuxWritesKeeps ==
    ASSUME PathInv, NEW e \in Ends, MuxWrites(e)
    PROVE  PathInv'
<1>1. /\ WriteFrame(e)
      /\ UNCHANGED <<mux, got, arriving, actorVars, bridgeVars, wireUp, wireDown>>
      /\ owes' \in BOOLEAN
  BY DEF MuxWrites, PathInv, PathTypes
<1>2. /\ frames' = [frames EXCEPT ![e] = @ + 1] /\ Len(buffer[e]) < Buffer
      /\ buffer' = [buffer EXCEPT ![e] = Append(@, frames[e] + 1)]
  BY <1>1 DEF WriteFrame
<1>3. PathTypes' /\ Queues' /\ Bounded' /\ (pipe = "done" => closed)'
  <2>1. PathTypes'
    BY <1>1, <1>2 DEF PathInv, PathTypes, actorVars, bridgeVars
  <2>2. Queues' /\ (pipe = "done" => closed)'
    BY <1>1 DEF PathInv, Queues, actorVars, bridgeVars
  <2>3. Bounded'
    BY <1>1, <1>2, PathAssumption DEF PathInv, Bounded, PathTypes, actorVars, bridgeVars
  <2> QED BY <2>1, <2>2, <2>3
<1>4. CASE e = "agent"
  <2>1. /\ frames'["agent"] = frames["agent"] + 1 /\ frames'["client"] = frames["client"]
        /\ buffer'["agent"] = Append(buffer["agent"], frames["agent"] + 1)
        /\ buffer'["client"] = buffer["client"] /\ frames["agent"] \in Nat
    BY <1>2, <1>4 DEF PathInv, PathTypes, Ends
  <2>2. DownFlow'
    BY <1>1, <2>1, DownKept DEF PathInv, actorVars, bridgeVars
  <2>3. UpFlow'
    <3>1. PICK u \in Nat :
            /\ Run(arriving["client"], got["client"], u) /\ u <= frames["agent"]
            /\ ~closed => \E v, w, x \in Nat :
                        /\ Chain(fromChannel, u, v) /\ Chain(wireUp, v, w)
                        /\ Chain(toActor, w, x) /\ Run(buffer["agent"], x, frames["agent"])
      BY DEF PathInv, UpFlow
    <3>2. u <= frames'["agent"]
      BY <2>1, <3>1
    <3>3. ASSUME ~closed
          PROVE  \E v, w, x \in Nat :
                    /\ Chain(fromChannel, u, v) /\ Chain(wireUp, v, w)
                    /\ Chain(toActor, w, x) /\ Run(buffer'["agent"], x, frames'["agent"])
      <4>1. PICK v, w, x \in Nat :
               /\ Chain(fromChannel, u, v) /\ Chain(wireUp, v, w)
               /\ Chain(toActor, w, x) /\ Run(buffer["agent"], x, frames["agent"])
        BY <3>1, <3>3
      <4>2. Run(buffer'["agent"], x, frames'["agent"])
        BY <2>1, <4>1, RunAppend
      <4> QED BY <4>1, <4>2
    <3>4. UNCHANGED <<arriving, got, fromChannel, wireUp, toActor, closed>>
      BY <1>1 DEF actorVars, bridgeVars
    <3> QED BY <3>1, <3>2, <3>3, <3>4 DEF UpFlow
  <2> QED BY <1>3, <2>2, <2>3 DEF PathInv
<1>5. CASE e = "client"
  <2>1. /\ frames'["client"] = frames["client"] + 1 /\ frames'["agent"] = frames["agent"]
        /\ buffer'["client"] = Append(buffer["client"], frames["client"] + 1)
        /\ buffer'["agent"] = buffer["agent"] /\ frames["client"] \in Nat
    BY <1>2, <1>5 DEF PathInv, PathTypes, Ends
  <2>2. UpFlow'
    BY <1>1, <2>1, UpKept DEF PathInv, actorVars, bridgeVars
  <2>3. DownFlow'
    <3>1. PICK u, v \in Nat :
            /\ Run(arriving["agent"], got["agent"], u) /\ Chain(fromActor, u, v)
            /\ v <= frames["client"]
            /\ actor # "stopped" => \E w, x \in Nat :
                  /\ Wires(wireDown, v, w) /\ Chain(toWriter, w, x)
                  /\ Run(buffer["client"], x, frames["client"])
      BY DEF PathInv, DownFlow
    <3>2. v <= frames'["client"]
      BY <2>1, <3>1
    <3>3. ASSUME actor # "stopped"
          PROVE  \E w, x \in Nat : /\ Wires(wireDown, v, w) /\ Chain(toWriter, w, x)
                                   /\ Run(buffer'["client"], x, frames'["client"])
      <4>1. PICK w, x \in Nat : /\ Wires(wireDown, v, w) /\ Chain(toWriter, w, x)
                                /\ Run(buffer["client"], x, frames["client"])
        BY <3>1, <3>3
      <4>2. Run(buffer'["client"], x, frames'["client"])
        BY <2>1, <4>1, RunAppend
      <4> QED BY <4>1, <4>2
    <3>4. UNCHANGED <<arriving, got, fromActor, wireDown, toWriter, actor>>
      BY <1>1 DEF actorVars, bridgeVars
    <3> QED BY <3>1, <3>2, <3>3, <3>4 DEF DownFlow
  <2> QED BY <1>3, <2>2, <2>3 DEF PathInv
<1> QED BY <1>4, <1>5 DEF Ends

LEMMA MuxEndsKeeps ==
    ASSUME PathInv, NEW e \in Ends, MuxEnds(e)
    PROVE  PathInv'
<1>1. PathTypes' /\ (pipe = "done" => closed)'
  BY PathAssumption DEF PathInv, PathTypes, Ends, MuxEnds, actorVars, bridgeVars, muxVars
<1>2. Queues' /\ Bounded'
  BY PathAssumption DEF PathInv, PathTypes, Queues, Bounded, Messages, Ends, MuxEnds, actorVars, bridgeVars, muxVars
<1>3. UpFlow'
  BY UpKept DEF PathInv, PathTypes, Ends, MuxEnds, actorVars, bridgeVars, muxVars
<1>4. DownFlow'
  BY DownKept DEF PathInv, PathTypes, Ends, MuxEnds, actorVars, bridgeVars, muxVars
<1> QED BY <1>1, <1>2, <1>3, <1>4 DEF PathInv

LEMMA PumpStopsKeeps ==
    ASSUME PathInv, PumpStops
    PROVE  PathInv'
<1>1. PathTypes' /\ (pipe = "done" => closed)'
  BY PathAssumption DEF PathInv, PathTypes, Ends, PumpStops, actorVars, bridgeVars, muxVars
<1>2. Queues' /\ Bounded'
  BY PathAssumption DEF PathInv, PathTypes, Queues, Bounded, Messages, Ends, PumpStops, actorVars, bridgeVars, muxVars
<1>3. UpFlow'
  BY UpKept DEF PathInv, PathTypes, Ends, PumpStops, actorVars, bridgeVars, muxVars
<1>4. DownFlow'
  BY DownKept DEF PathInv, PathTypes, Ends, PumpStops, actorVars, bridgeVars, muxVars
<1> QED BY <1>1, <1>2, <1>3, <1>4 DEF PathInv

LEMMA ActorTicksKeeps ==
    ASSUME PathInv, ActorTicks
    PROVE  PathInv'
<1>1. PathTypes' /\ (pipe = "done" => closed)'
  BY PathAssumption DEF PathInv, PathTypes, Ends, ActorTicks, actorVars, bridgeVars, muxVars
<1>2. Queues' /\ Bounded'
  BY PathAssumption DEF PathInv, PathTypes, Queues, Bounded, Messages, Ends, ActorTicks, actorVars, bridgeVars, muxVars
<1>3. UpFlow'
  BY UpKept DEF PathInv, PathTypes, Ends, ActorTicks, actorVars, bridgeVars, muxVars
<1>4. DownFlow'
  BY DownKept DEF PathInv, PathTypes, Ends, ActorTicks, actorVars, bridgeVars, muxVars
<1> QED BY <1>1, <1>2, <1>3, <1>4 DEF PathInv

LEMMA ActorDrainedKeeps ==
    ASSUME PathInv, ActorDrained
    PROVE  PathInv'
<1>1. PathTypes' /\ (pipe = "done" => closed)'
  BY PathAssumption DEF PathInv, PathTypes, Ends, ActorDrained, actorVars, bridgeVars, muxVars
<1>2. Queues' /\ Bounded'
  BY PathAssumption DEF PathInv, PathTypes, Queues, Bounded, Messages, Ends, ActorDrained, actorVars, bridgeVars, muxVars
<1>3. UpFlow'
  BY UpKept DEF PathInv, PathTypes, Ends, ActorDrained, actorVars, bridgeVars, muxVars
<1>4. DownFlow'
  BY DownKept DEF PathInv, PathTypes, Ends, ActorDrained, actorVars, bridgeVars, muxVars
<1> QED BY <1>1, <1>2, <1>3, <1>4 DEF PathInv

LEMMA ActorFailsKeeps ==
    ASSUME PathInv, ActorFails
    PROVE  PathInv'
<1>1. PathTypes' /\ (pipe = "done" => closed)'
  BY PathAssumption DEF PathInv, PathTypes, Ends, ActorFails, actorVars, bridgeVars, muxVars
<1>2. Queues' /\ Bounded'
  BY PathAssumption DEF PathInv, PathTypes, Queues, Bounded, Messages, Ends, ActorFails, actorVars, bridgeVars, muxVars
<1>3. UpFlow'
  BY UpKept DEF PathInv, PathTypes, Ends, ActorFails, actorVars, bridgeVars, muxVars
<1>4. DownFlow'
  BY DownStops DEF PathInv, PathTypes, Ends, ActorFails, actorVars, bridgeVars, muxVars
<1> QED BY <1>1, <1>2, <1>3, <1>4 DEF PathInv

LEMMA SessionCloseKeeps ==
    ASSUME PathInv, SessionClose
    PROVE  PathInv'
<1>1. PathTypes' /\ (pipe = "done" => closed)'
  BY PathAssumption DEF PathInv, PathTypes, Ends, SessionClose, actorVars, bridgeVars, muxVars
<1>2. Queues' /\ Bounded'
  BY PathAssumption DEF PathInv, PathTypes, Queues, Bounded, Messages, Ends, SessionClose, actorVars, bridgeVars, muxVars
<1>3. UpFlow'
  BY UpCloses DEF PathInv, PathTypes, Ends, SessionClose, actorVars, bridgeVars, muxVars
<1>4. DownFlow'
  BY DownKept DEF PathInv, PathTypes, Ends, SessionClose, actorVars, bridgeVars, muxVars
<1> QED BY <1>1, <1>2, <1>3, <1>4 DEF PathInv

LEMMA PipeStopsKeeps ==
    ASSUME PathInv, PipeStops
    PROVE  PathInv'
<1>1. PathTypes' /\ (pipe = "done" => closed)'
  BY PathAssumption DEF PathInv, PathTypes, Ends, PipeStops, actorVars, bridgeVars, muxVars
<1>2. Queues' /\ Bounded'
  BY PathAssumption DEF PathInv, PathTypes, Queues, Bounded, Messages, Ends, PipeStops, actorVars, bridgeVars, muxVars
<1>3. UpFlow'
  BY UpCloses DEF PathInv, PathTypes, Ends, PipeStops, actorVars, bridgeVars, muxVars
<1>4. DownFlow'
  BY DownKept DEF PathInv, PathTypes, Ends, PipeStops, actorVars, bridgeVars, muxVars
<1> QED BY <1>1, <1>2, <1>3, <1>4 DEF PathInv

LEMMA WriterStopsKeeps ==
    ASSUME PathInv, WriterStops
    PROVE  PathInv'
<1>1. PathTypes' /\ (pipe = "done" => closed)'
  BY PathAssumption DEF PathInv, PathTypes, Ends, WriterStops, actorVars, bridgeVars, muxVars
<1>2. Queues' /\ Bounded'
  BY PathAssumption DEF PathInv, PathTypes, Queues, Bounded, Messages, Ends, WriterStops, actorVars, bridgeVars, muxVars
<1>3. UpFlow'
  BY UpCloses DEF PathInv, PathTypes, Ends, WriterStops, actorVars, bridgeVars, muxVars
<1>4. DownFlow'
  BY DownKept DEF PathInv, PathTypes, Ends, WriterStops, actorVars, bridgeVars, muxVars
<1> QED BY <1>1, <1>2, <1>3, <1>4 DEF PathInv

LEMMA PumpToActorKeeps ==
    ASSUME PathInv, PumpToActor
    PROVE  PathInv'
<1>1. PathTypes' /\ (pipe = "done" => closed)'
  BY PathAssumption DEF PathInv, PathTypes, Ends, PumpToActor, actorVars, bridgeVars, muxVars
<1>2. Queues' /\ Bounded'
  BY PathAssumption DEF PathInv, PathTypes, Queues, Bounded, Messages, Ends, PumpToActor, actorVars, bridgeVars, muxVars
<1>3. UpFlow'
  <2>1. PICK u \in Nat :
          /\ Run(arriving["client"], got["client"], u) /\ u <= frames["agent"]
          /\ ~closed => \E v, w, x \in Nat :
                /\ Chain(fromChannel, u, v) /\ Chain(wireUp, v, w)
                /\ Chain(toActor, w, x) /\ Run(buffer["agent"], x, frames["agent"])
    BY DEF PathInv, UpFlow
  <2>2. /\ buffer["agent"] # <<>> /\ toActor' = Append(toActor, buffer["agent"])
        /\ buffer'["agent"] = <<>> /\ frames'["agent"] = frames["agent"]
        /\ frames["agent"] \in Nat
        /\ UNCHANGED <<arriving, got, fromChannel, wireUp, closed>>
    BY DEF PumpToActor, PathInv, PathTypes, Ends, bridgeVars, muxVars
  <2>3. ASSUME ~closed
        PROVE  \E v, w, x \in Nat :
                  /\ Chain(fromChannel, u, v) /\ Chain(wireUp, v, w)
                  /\ Chain(toActor', w, x) /\ Run(buffer'["agent"], x, frames["agent"])
    <3>1. PICK v, w, x \in Nat :
               /\ Chain(fromChannel, u, v) /\ Chain(wireUp, v, w)
               /\ Chain(toActor, w, x) /\ Run(buffer["agent"], x, frames["agent"])
      BY <2>1, <2>3
    <3>2. Chain(toActor', w, frames["agent"])
      BY <2>2, <3>1, ChainAppend
    <3>3. Run(buffer'["agent"], frames["agent"], frames["agent"])
      BY <2>2, RunEmpty
    <3> QED BY <2>2, <3>1, <3>2, <3>3
  <2> QED BY <2>1, <2>2, <2>3 DEF UpFlow
<1>4. DownFlow'
  BY DownKept DEF PathInv, PathTypes, Ends, PumpToActor, actorVars, bridgeVars, muxVars
<1> QED BY <1>1, <1>2, <1>3, <1>4 DEF PathInv

LEMMA ActorWritesKeeps ==
    ASSUME PathInv, ActorWrites
    PROVE  PathInv'
<1>1. PathTypes' /\ (pipe = "done" => closed)'
  BY PathAssumption DEF PathInv, PathTypes, Ends, ActorWrites, actorVars, bridgeVars, muxVars
<1>2. Queues' /\ Bounded'
  <2>1. /\ Head(toActor) \in Messages /\ Tail(toActor) \in Seq(Messages)
        /\ Len(Tail(toActor)) + 1 = Len(toActor) /\ Len(toActor) \in Nat
    BY QueueTail DEF PathInv, Queues, ActorWrites
  <2>2. Append(wireUp, Head(toActor)) \in Seq(Messages)
    BY <2>1 DEF PathInv, Queues
  <2>3. Queues'
    BY <2>1, <2>2 DEF PathInv, Queues, ActorWrites, bridgeVars
  <2>4. Len(Tail(toActor)) <= Queue
    BY <2>1, PathAssumption DEF PathInv, Bounded
  <2>5. Bounded'
    BY <2>4 DEF PathInv, Bounded, ActorWrites, bridgeVars
  <2> QED BY <2>3, <2>5
<1>3. UpFlow'
  <2>1. PICK u \in Nat :
          /\ Run(arriving["client"], got["client"], u) /\ u <= frames["agent"]
          /\ ~closed => \E v, w, x \in Nat :
                /\ Chain(fromChannel, u, v) /\ Chain(wireUp, v, w)
                /\ Chain(toActor, w, x) /\ Run(buffer["agent"], x, frames["agent"])
    BY DEF PathInv, UpFlow
  <2>2. /\ toActor # <<>> /\ wireUp' = Append(wireUp, Head(toActor))
        /\ toActor' = Tail(toActor)
        /\ UNCHANGED <<arriving, got, fromChannel, buffer, frames, closed>>
    BY DEF ActorWrites, bridgeVars, muxVars
  <2>3. ASSUME ~closed
        PROVE  \E v, w, x \in Nat :
                  /\ Chain(fromChannel, u, v) /\ Chain(wireUp', v, w)
                  /\ Chain(toActor', w, x) /\ Run(buffer["agent"], x, frames["agent"])
    <3>1. PICK v, w, x \in Nat :
               /\ Chain(fromChannel, u, v) /\ Chain(wireUp, v, w)
               /\ Chain(toActor, w, x) /\ Run(buffer["agent"], x, frames["agent"])
      BY <2>1, <2>3
    <3>2. PICK m \in Nat : Run(Head(toActor), w, m) /\ Chain(Tail(toActor), m, x)
      BY <2>2, <3>1, ChainTail
    <3>3. Head(toActor) # <<>>
      BY <2>2, <3>1, ChainTail DEF Messages
    <3>4. Chain(wireUp', v, m)
      BY <2>2, <3>1, <3>2, <3>3, ChainAppend
    <3> QED BY <2>2, <3>1, <3>2, <3>4
  <2> QED BY <2>1, <2>2, <2>3 DEF UpFlow
<1>4. DownFlow'
  BY DownKept DEF PathInv, PathTypes, Ends, ActorWrites, actorVars, bridgeVars, muxVars
<1> QED BY <1>1, <1>2, <1>3, <1>4 DEF PathInv

LEMMA PipeToClientKeeps ==
    ASSUME PathInv, PipeToClient
    PROVE  PathInv'
<1>1. PathTypes' /\ (pipe = "done" => closed)'
  <2>1. Head(fromChannel) \in Seq(Nat)
    BY QueueTail DEF PathInv, Queues, PipeToClient, Messages
  <2>2. arriving["client"] \o Head(fromChannel) \in Seq(Nat)
    BY <2>1 DEF PathInv, PathTypes, Ends
  <2>3. arriving' \in [Ends -> Seq(Nat)]
    BY <2>2 DEF PathInv, PathTypes, Ends, PipeToClient
  <2> QED BY <2>3 DEF PathInv, PathTypes, PipeToClient, actorVars, bridgeVars, muxVars
<1>2. Queues' /\ Bounded'
  BY PathAssumption DEF PathInv, PathTypes, Queues, Bounded, Messages, Ends, PipeToClient, actorVars, bridgeVars, muxVars
<1>3. UpFlow'
  <2>1. PICK u \in Nat :
          /\ Run(arriving["client"], got["client"], u) /\ u <= frames["agent"]
          /\ ~closed => \E v, w, x \in Nat :
                /\ Chain(fromChannel, u, v) /\ Chain(wireUp, v, w)
                /\ Chain(toActor, w, x) /\ Run(buffer["agent"], x, frames["agent"])
    BY DEF PathInv, UpFlow
  <2>2. /\ ~closed /\ fromChannel # <<>>
        /\ arriving'["client"] = arriving["client"] \o Head(fromChannel)
        /\ fromChannel' = Tail(fromChannel)
        /\ UNCHANGED <<got, wireUp, toActor, buffer, frames, closed>>
    BY DEF PipeToClient, PathInv, PathTypes, Ends, actorVars, muxVars
  <2>3. PICK v, w, x \in Nat :
               /\ Chain(fromChannel, u, v) /\ Chain(wireUp, v, w)
               /\ Chain(toActor, w, x) /\ Run(buffer["agent"], x, frames["agent"])
    BY <2>1, <2>2
  <2>4. PICK m \in Nat : Run(Head(fromChannel), u, m) /\ Chain(Tail(fromChannel), m, v)
    BY <2>2, <2>3, ChainTail
  <2>5. Run(arriving'["client"], got["client"], m)
    BY <2>1, <2>2, <2>4, RunConcat
  <2>6. m <= v /\ v <= w /\ w <= x /\ x <= frames["agent"] /\ frames["agent"] \in Nat
    BY <2>3, <2>4, ChainOrder, RunOrder
  <2>7. m <= frames["agent"]
    BY <2>6
  <2> QED BY <2>2, <2>3, <2>4, <2>5, <2>7 DEF UpFlow
<1>4. DownFlow'
  BY DownKept DEF PathInv, PathTypes, Ends, PipeToClient, actorVars, bridgeVars, muxVars
<1> QED BY <1>1, <1>2, <1>3, <1>4 DEF PathInv

LEMMA on_dataKeeps ==
    ASSUME PathInv, on_data
    PROVE  PathInv'
<1>1. PathTypes' /\ (pipe = "done" => closed)'
  <2>1. closed' \in BOOLEAN /\ (closed => closed')
    <3>1. closed \in BOOLEAN
      BY DEF PathInv, PathTypes
    <3>2. closed' = closed \/ closed' = TRUE
      BY DEF on_data
    <3> QED BY <3>1, <3>2
  <2> QED BY <2>1 DEF PathInv, PathTypes, on_data, actorVars, muxVars
<1>2. Queues' /\ Bounded'
  <2>1. Head(wireUp) \in Messages /\ Tail(wireUp) \in Seq(Messages)
    BY QueueTail DEF PathInv, Queues, on_data
  <2>2. fromChannel' \in Seq(Messages) /\ Len(fromChannel') <= Queue
    <3>1. fromChannel \in Seq(Messages) /\ Len(fromChannel) <= Queue
      BY DEF PathInv, Queues, Bounded
    <3>2. CASE fromChannel' = fromChannel
      BY <3>1, <3>2
    <3>3. CASE fromChannel' = Append(fromChannel, Head(wireUp)) /\ Len(fromChannel) < Queue
      BY <2>1, <3>1, <3>3, PathAssumption
    <3> QED BY <3>2, <3>3 DEF on_data
  <2>3. Queues'
    BY <2>1, <2>2 DEF PathInv, Queues, on_data, actorVars
  <2>4. Bounded'
    BY <2>2 DEF PathInv, Bounded, on_data, actorVars
  <2> QED BY <2>3, <2>4
<1>3. UpFlow'
  <2>1. PICK u \in Nat :
          /\ Run(arriving["client"], got["client"], u) /\ u <= frames["agent"]
          /\ ~closed => \E v, w, x \in Nat :
                /\ Chain(fromChannel, u, v) /\ Chain(wireUp, v, w)
                /\ Chain(toActor, w, x) /\ Run(buffer["agent"], x, frames["agent"])
    BY DEF PathInv, UpFlow
  <2>2. /\ wireUp # <<>> /\ wireUp' = Tail(wireUp)
        /\ UNCHANGED <<arriving, got, toActor, buffer, frames>>
    BY DEF on_data, actorVars, muxVars
  <2>3. CASE closed'
    BY <2>2, <2>3, UpCloses DEF PathInv
  <2>4. CASE ~closed'
    <3>1. ~closed /\ fromChannel' = Append(fromChannel, Head(wireUp))
      BY <2>4 DEF on_data, PathInv
    <3>2. PICK v, w, x \in Nat :
               /\ Chain(fromChannel, u, v) /\ Chain(wireUp, v, w)
               /\ Chain(toActor, w, x) /\ Run(buffer["agent"], x, frames["agent"])
      BY <2>1, <3>1
    <3>3. PICK m \in Nat : Run(Head(wireUp), v, m) /\ Chain(Tail(wireUp), m, w)
      BY <2>2, <3>2, ChainTail
    <3>4. Head(wireUp) # <<>>
      BY <2>2, <3>2, ChainTail DEF Messages
    <3>5. Chain(fromChannel', u, m)
      BY <3>1, <3>2, <3>3, <3>4, ChainAppend
    <3> QED BY <2>1, <2>2, <3>2, <3>3, <3>5 DEF UpFlow
  <2> QED BY <2>3, <2>4
<1>4. DownFlow'
  BY DownKept DEF PathInv, PathTypes, Ends, on_data, actorVars, bridgeVars, muxVars
<1> QED BY <1>1, <1>2, <1>3, <1>4 DEF PathInv

LEMMA PumpFromActorKeeps ==
    ASSUME PathInv, PumpFromActor
    PROVE  PathInv'
<1>1. PathTypes' /\ (pipe = "done" => closed)'
  <2>1. Head(fromActor) \in Seq(Nat)
    BY QueueTail DEF PathInv, Queues, PumpFromActor, Messages
  <2>2. arriving["agent"] \o Head(fromActor) \in Seq(Nat)
    BY <2>1 DEF PathInv, PathTypes, Ends
  <2>3. arriving' \in [Ends -> Seq(Nat)]
    BY <2>2 DEF PathInv, PathTypes, Ends, PumpFromActor
  <2> QED BY <2>3 DEF PathInv, PathTypes, PumpFromActor, actorVars, bridgeVars, muxVars
<1>2. Queues' /\ Bounded'
  BY PathAssumption DEF PathInv, PathTypes, Queues, Bounded, Messages, Ends, PumpFromActor, actorVars, bridgeVars, muxVars
<1>3. UpFlow'
  BY UpKept DEF PathInv, PathTypes, Ends, PumpFromActor, actorVars, bridgeVars, muxVars
<1>4. DownFlow'
  <2>1. PICK u, v \in Nat :
          /\ Run(arriving["agent"], got["agent"], u) /\ Chain(fromActor, u, v)
          /\ v <= frames["client"]
          /\ actor # "stopped" => \E w, x \in Nat :
                /\ Wires(wireDown, v, w) /\ Chain(toWriter, w, x)
                /\ Run(buffer["client"], x, frames["client"])
    BY DEF PathInv, DownFlow
  <2>2. /\ fromActor # <<>>
        /\ arriving'["agent"] = arriving["agent"] \o Head(fromActor)
        /\ fromActor' = Tail(fromActor)
        /\ UNCHANGED <<got, wireDown, toWriter, buffer, frames, actor>>
    BY DEF PumpFromActor, PathInv, PathTypes, Ends, bridgeVars, muxVars
  <2>3. PICK m \in Nat : Run(Head(fromActor), u, m) /\ Chain(Tail(fromActor), m, v)
    BY <2>1, <2>2, ChainTail
  <2>4. Run(arriving'["agent"], got["agent"], m)
    BY <2>1, <2>2, <2>3, RunConcat
  <2> QED BY <2>1, <2>2, <2>3, <2>4 DEF DownFlow
<1> QED BY <1>1, <1>2, <1>3, <1>4 DEF PathInv

LEMMA PipeToWriterKeeps ==
    ASSUME PathInv, PipeToWriter
    PROVE  PathInv'
<1>1. PathTypes' /\ (pipe = "done" => closed)'
  BY PathAssumption DEF PathInv, PathTypes, Ends, PipeToWriter, actorVars, bridgeVars, muxVars
<1>2. Queues' /\ Bounded'
  BY PathAssumption DEF PathInv, PathTypes, Queues, Bounded, Messages, Ends, PipeToWriter, actorVars, bridgeVars, muxVars
<1>3. UpFlow'
  BY UpKept DEF PathInv, PathTypes, Ends, PipeToWriter, actorVars, bridgeVars, muxVars
<1>4. DownFlow'
  <2>1. PICK u, v \in Nat :
          /\ Run(arriving["agent"], got["agent"], u) /\ Chain(fromActor, u, v)
          /\ v <= frames["client"]
          /\ actor # "stopped" => \E w, x \in Nat :
                /\ Wires(wireDown, v, w) /\ Chain(toWriter, w, x)
                /\ Run(buffer["client"], x, frames["client"])
    BY DEF PathInv, DownFlow
  <2>2. /\ buffer["client"] # <<>> /\ toWriter' = Append(toWriter, buffer["client"])
        /\ buffer'["client"] = <<>> /\ frames["client"] \in Nat
        /\ UNCHANGED <<arriving, got, fromActor, wireDown, frames, actor>>
    BY DEF PipeToWriter, PathInv, PathTypes, Ends, actorVars, muxVars
  <2>3. ASSUME actor # "stopped"
        PROVE  \E w, x \in Nat : /\ Wires(wireDown, v, w) /\ Chain(toWriter', w, x)
                                 /\ Run(buffer'["client"], x, frames["client"])
    <3>1. PICK w, x \in Nat : /\ Wires(wireDown, v, w) /\ Chain(toWriter, w, x)
                              /\ Run(buffer["client"], x, frames["client"])
      BY <2>1, <2>3
    <3>2. Chain(toWriter', w, frames["client"])
      BY <2>2, <3>1, ChainAppend
    <3>3. Run(buffer'["client"], frames["client"], frames["client"])
      BY <2>2, RunEmpty
    <3> QED BY <2>2, <3>1, <3>2, <3>3
  <2> QED BY <2>1, <2>2, <2>3 DEF DownFlow
<1> QED BY <1>1, <1>2, <1>3, <1>4 DEF PathInv

LEMMA WriterWritesKeeps ==
    ASSUME PathInv, WriterWrites
    PROVE  PathInv'
<1> DEFINE part == [last |-> FALSE]
           whole == [last |-> TRUE, message |-> Head(toWriter)]
<1>1. /\ toWriter \in Seq(Messages) /\ toWriter # <<>> /\ wireDown \in Seq(Pdus)
      /\ toWriter' = Tail(toWriter) /\ actor # "stopped"
      /\ UNCHANGED <<muxVars, buffer, arriving, actorVars, fromChannel, writer, pipe, closed, wireUp>>
  BY DEF PathInv, Queues, WriterWrites
<1>2. /\ Head(toWriter) \in Messages /\ Tail(toWriter) \in Seq(Messages)
      /\ Len(Tail(toWriter)) + 1 = Len(toWriter) /\ Len(toWriter) \in Nat
  BY <1>1, QueueTail
<1>3. part \in Pdus /\ whole \in Pdus /\ ~part.last /\ whole.last /\ whole.message = Head(toWriter)
  BY <1>2 DEF Pdus
<1> HIDE DEF part, whole
<1>4. \/ wireDown' = Append(wireDown, whole)
      \/ wireDown' = Append(Append(wireDown, part), whole)
  <2>1. wireDown \o <<part, whole>> = Append(Append(wireDown, part), whole)
    BY <1>1, <1>3
  <2> QED BY <2>1 DEF WriterWrites, part, whole
<1>5. wireDown' \in Seq(Pdus)
  <2>1. Append(wireDown, whole) \in Seq(Pdus) /\ Append(wireDown, part) \in Seq(Pdus)
    BY <1>1, <1>3
  <2>2. Append(Append(wireDown, part), whole) \in Seq(Pdus)
    BY <1>3, <2>1
  <2> QED BY <1>4, <2>1, <2>2
<1>6. PathTypes' /\ (pipe = "done" => closed)'
  BY <1>1 DEF PathInv, PathTypes, actorVars, muxVars
<1>7. Queues' /\ Bounded'
  <2>1. Len(Tail(toWriter)) <= Queue
    BY <1>2, PathAssumption DEF PathInv, Bounded
  <2> QED BY <1>1, <1>2, <1>5, <2>1 DEF PathInv, Queues, Bounded, actorVars
<1>8. UpFlow'
  BY <1>1, UpKept DEF PathInv, actorVars, muxVars
<1>9. DownFlow'
  <2>1. PICK u, v \in Nat :
          /\ Run(arriving["agent"], got["agent"], u) /\ Chain(fromActor, u, v)
          /\ v <= frames["client"]
          /\ actor # "stopped" => \E w, x \in Nat :
                /\ Wires(wireDown, v, w) /\ Chain(toWriter, w, x)
                /\ Run(buffer["client"], x, frames["client"])
    BY DEF PathInv, DownFlow
  <2>2. PICK w, x \in Nat : /\ Wires(wireDown, v, w) /\ Chain(toWriter, w, x)
                            /\ Run(buffer["client"], x, frames["client"])
    BY <1>1, <2>1
  <2>3. PICK m \in Nat : Run(Head(toWriter), w, m) /\ Chain(Tail(toWriter), m, x)
    BY <1>1, <2>2, ChainTail
  <2>4. Wires(Append(wireDown, whole), v, m)
    BY <1>3, <2>2, <2>3, WiresAppend
  <2>5. Wires(Append(Append(wireDown, part), whole), v, m)
    <3>1. Wires(Append(wireDown, part), v, w)
      BY <1>3, <2>2, WiresAppend
    <3> QED BY <1>3, <3>1, <2>3, WiresAppend
  <2>6. Wires(wireDown', v, m)
    BY <1>4, <2>4, <2>5
  <2>7. UNCHANGED <<arriving, got, fromActor, buffer, frames, actor>>
    BY <1>1 DEF actorVars, muxVars
  <2> QED BY <1>1, <2>1, <2>2, <2>3, <2>6, <2>7 DEF DownFlow
<1> QED BY <1>6, <1>7, <1>8, <1>9 DEF PathInv

LEMMA ActorReadsKeeps ==
    ASSUME PathInv, ActorReads
    PROVE  PathInv'
<1>1. /\ wireDown \in Seq(Pdus) /\ wireDown # <<>> /\ wireDown' = Tail(wireDown)
      /\ actor = "read"
      /\ UNCHANGED <<muxVars, buffer, arriving, toActor, batch, pump, bridgeVars, wireUp>>
  BY DEF PathInv, Queues, ActorReads
<1>2. Head(wireDown) \in Pdus /\ Tail(wireDown) \in Seq(Pdus)
  BY <1>1, QueueTail
<1>3. /\ fromActor \in Seq(Messages) /\ Len(fromActor) <= Queue /\ Len(fromActor) \in Nat
  BY DEF PathInv, Queues, Bounded
<1>4. CASE fromActor' = fromActor /\ actor' = "stopped"
  <2>1. Queues' /\ Bounded'
    BY <1>1, <1>2, <1>4 DEF PathInv, Queues, Bounded, bridgeVars
  <2>2. partial' \in BOOLEAN
    BY DEF ActorReads
  <2>3. PathTypes' /\ (pipe = "done" => closed)'
    BY <1>1, <1>4, <2>2 DEF PathInv, PathTypes, bridgeVars, muxVars
  <2>4. UpFlow'
    BY <1>1, UpKept DEF PathInv, bridgeVars, muxVars
  <2>5. DownFlow'
    BY <1>1, <1>4, DownStops DEF PathInv, muxVars
  <2> QED BY <2>1, <2>3, <2>4, <2>5 DEF PathInv
<1>5. CASE Head(wireDown).last /\ fromActor' = Append(fromActor, Head(wireDown).message)
            /\ Len(fromActor) < Queue /\ actor' = "drain"
  <2>1. Head(wireDown).message \in Messages
    BY <1>2, <1>5 DEF Pdus
  <2>2. fromActor' \in Seq(Messages) /\ Len(fromActor') <= Queue
    BY <1>3, <1>5, <2>1, PathAssumption
  <2>3. Queues' /\ Bounded'
    BY <1>1, <1>2, <2>2 DEF PathInv, Queues, Bounded, bridgeVars
  <2>4. partial' \in BOOLEAN
    BY DEF ActorReads
  <2>5. PathTypes' /\ (pipe = "done" => closed)'
    BY <1>1, <1>5, <2>4 DEF PathInv, PathTypes, bridgeVars, muxVars
  <2>6. UpFlow'
    BY <1>1, UpKept DEF PathInv, bridgeVars, muxVars
  <2>7. DownFlow'
    <3>1. PICK u, v \in Nat :
            /\ Run(arriving["agent"], got["agent"], u) /\ Chain(fromActor, u, v)
            /\ v <= frames["client"]
            /\ actor # "stopped" => \E w, x \in Nat :
                  /\ Wires(wireDown, v, w) /\ Chain(toWriter, w, x)
                  /\ Run(buffer["client"], x, frames["client"])
        BY DEF PathInv, DownFlow
    <3>2. PICK w, x \in Nat : /\ Wires(wireDown, v, w) /\ Chain(toWriter, w, x)
                              /\ Run(buffer["client"], x, frames["client"])
      BY <1>1, <3>1
    <3>3. PICK m \in Nat : Run(Head(wireDown).message, v, m) /\ Wires(Tail(wireDown), m, w)
      BY <1>1, <1>5, <3>2, WiresTail
    <3>4. Head(wireDown).message # <<>>
      BY <2>1 DEF Messages
    <3>5. Chain(fromActor', u, m)
      BY <1>5, <3>1, <3>3, <3>4, ChainAppend
    <3>6. m <= w /\ w <= x /\ x <= frames["client"] /\ frames["client"] \in Nat
      BY <3>2, <3>3, ChainOrder, RunOrder, WiresOrder
    <3>7. m <= frames["client"]
      BY <3>6
    <3>8. UNCHANGED <<arriving, got, toWriter, buffer, frames>>
      BY <1>1 DEF bridgeVars, muxVars
    <3> QED BY <1>1, <3>1, <3>2, <3>3, <3>5, <3>7, <3>8 DEF DownFlow
  <2> QED BY <2>3, <2>5, <2>6, <2>7 DEF PathInv
<1>6. CASE ~Head(wireDown).last /\ fromActor' = fromActor /\ actor' = "drain"
  <2>1. Queues' /\ Bounded'
    BY <1>1, <1>2, <1>6 DEF PathInv, Queues, Bounded, bridgeVars
  <2>2. partial' \in BOOLEAN
    BY DEF ActorReads
  <2>3. PathTypes' /\ (pipe = "done" => closed)'
    BY <1>1, <1>6, <2>2 DEF PathInv, PathTypes, bridgeVars, muxVars
  <2>4. UpFlow'
    BY <1>1, UpKept DEF PathInv, bridgeVars, muxVars
  <2>5. DownFlow'
    <3>1. PICK u, v \in Nat :
            /\ Run(arriving["agent"], got["agent"], u) /\ Chain(fromActor, u, v)
            /\ v <= frames["client"]
            /\ actor # "stopped" => \E w, x \in Nat :
                  /\ Wires(wireDown, v, w) /\ Chain(toWriter, w, x)
                  /\ Run(buffer["client"], x, frames["client"])
        BY DEF PathInv, DownFlow
    <3>2. PICK w, x \in Nat : /\ Wires(wireDown, v, w) /\ Chain(toWriter, w, x)
                              /\ Run(buffer["client"], x, frames["client"])
      BY <1>1, <3>1
    <3>3. Wires(Tail(wireDown), v, w)
      BY <1>1, <1>6, <3>2, WiresTail
    <3>4. UNCHANGED <<arriving, got, toWriter, buffer, frames>>
      BY <1>1 DEF bridgeVars, muxVars
    <3> QED BY <1>1, <1>6, <3>1, <3>2, <3>3, <3>4 DEF DownFlow
  <2> QED BY <2>1, <2>3, <2>4, <2>5 DEF PathInv
<1> QED BY <1>4, <1>5, <1>6 DEF ActorReads, forward_inbound

LEMMA MuxReadsKeeps ==
    ASSUME PathInv, NEW e \in Ends, MuxReads(e)
    PROVE  PathInv'
<1>1. /\ arriving[e] # <<>> /\ arriving \in [Ends -> Seq(Nat)] /\ got \in [Ends -> Nat]
      /\ arriving' = [arriving EXCEPT ![e] = Tail(@)]
      /\ UNCHANGED <<frames, buffer, actorVars, bridgeVars, wireUp, wireDown>>
  BY DEF PathInv, PathTypes, MuxReads
<1>2. \E u \in Nat : Run(arriving[e], got[e], u)
  BY DEF PathInv, UpFlow, DownFlow, Ends
<1>3. Head(arriving[e]) = got[e] + 1
  BY <1>1, <1>2, RunTail
<1>4. got' = [got EXCEPT ![e] = @ + 1] /\ owes' \in BOOLEAN /\ mux' = mux
  <2>1. got' = [got EXCEPT ![e] = @ + 1] /\ owes' = (owes \/ e = "agent") /\ mux' = mux
    BY <1>3 DEF MuxReads
  <2> QED BY <2>1 DEF PathInv, PathTypes
<1>5. Tail(arriving[e]) \in Seq(Nat) /\ Len(Tail(arriving[e])) + 1 = Len(arriving[e])
      /\ Len(arriving[e]) \in Nat
  BY <1>1, QueueTail
<1>6. PathTypes' /\ Queues' /\ Bounded' /\ (pipe = "done" => closed)'
  <2>1. PathTypes'
    BY <1>1, <1>4, <1>5 DEF PathInv, PathTypes, actorVars, bridgeVars
  <2>2. Queues' /\ (pipe = "done" => closed)'
    BY <1>1 DEF PathInv, Queues, actorVars, bridgeVars
  <2>3. Len(Tail(arriving[e])) <= Buffer
    BY <1>5, PathAssumption DEF PathInv, Bounded
  <2>4. Bounded'
    BY <1>1, <2>3 DEF PathInv, Bounded, actorVars, bridgeVars
  <2> QED BY <2>1, <2>2, <2>4
<1>7. ASSUME NEW u, Run(arriving[e], got[e], u)
      PROVE  Run(arriving'[e], got'[e], u)
  <2>1. arriving'[e] = Tail(arriving[e]) /\ got'[e] = got[e] + 1
    BY <1>1, <1>4
  <2> QED BY <1>1, <1>7, <2>1, RunTail
<1>8. CASE e = "client"
  <2>1. arriving'["agent"] = arriving["agent"] /\ got'["agent"] = got["agent"]
    BY <1>1, <1>4, <1>8 DEF Ends
  <2>2. DownFlow'
    BY <1>1, <2>1, DownKept DEF PathInv, actorVars, bridgeVars
  <2>3. UNCHANGED <<fromChannel, wireUp, toActor, buffer, frames, closed>>
    BY <1>1 DEF actorVars, bridgeVars
  <2>4. UpFlow'
    BY <1>7, <1>8, <2>3 DEF PathInv, UpFlow
  <2> QED BY <1>6, <2>2, <2>4 DEF PathInv
<1>9. CASE e = "agent"
  <2>1. arriving'["client"] = arriving["client"] /\ got'["client"] = got["client"]
    BY <1>1, <1>4, <1>9 DEF Ends
  <2>2. UpFlow'
    BY <1>1, <2>1, UpKept DEF PathInv, actorVars, bridgeVars
  <2>3. UNCHANGED <<fromActor, wireDown, toWriter, buffer, frames, actor>>
    BY <1>1 DEF actorVars, bridgeVars
  <2>4. DownFlow'
    BY <1>7, <1>9, <2>3 DEF PathInv, DownFlow
  <2> QED BY <1>6, <2>2, <2>4 DEF PathInv
<1> QED BY <1>8, <1>9 DEF Ends

LEMMA PathStutters == ASSUME PathInv, UNCHANGED pathVars PROVE PathInv'
<1>1. UpFlow'
  BY UpKept DEF PathInv, pathVars, actorVars, bridgeVars, muxVars
<1>2. DownFlow'
  BY DownKept DEF PathInv, pathVars, actorVars, bridgeVars, muxVars
<1>3. PathTypes' /\ Queues' /\ Bounded' /\ (pipe = "done" => closed)'
  BY DEF PathInv, PathTypes, Queues, Bounded, pathVars, actorVars, bridgeVars, muxVars
<1> QED BY <1>1, <1>2, <1>3 DEF PathInv

LEMMA PathStep == PathInv /\ [PathNext]_pathVars => PathInv'
BY PathStutters, MuxWritesKeeps, MuxReadsKeeps, MuxEndsKeeps, PumpToActorKeeps,
   PumpFromActorKeeps, PumpStopsKeeps, ActorWritesKeeps, ActorDrainedKeeps, ActorTicksKeeps,
   ActorReadsKeeps, ActorFailsKeeps, on_dataKeeps, SessionCloseKeeps, PipeToClientKeeps,
   PipeToWriterKeeps, PipeStopsKeeps, WriterWritesKeeps, WriterStopsKeeps
DEF PathNext, Pump, Actor, Pipe

(***************************************************************************)
(* Whatever stage of the path stops first, the frames behind it are a run  *)
(* that continues what has been read.                                      *)
(***************************************************************************)
THEOREM PathInvariant == PathSpec => []PathInv
BY PathStarts, PathStep, PTL DEF PathSpec

(***************************************************************************)
(* Pump, actor, pipe thread and writer hand frames on in order and each    *)
(* once: what an end reads is a prefix of what its peer wrote, however the *)
(* threads stop.                                                           *)
(***************************************************************************)
THEOREM PathHasNoGap == PathSpec => []NoGap
<1>1. PathInv => NoGap
  <2> SUFFICES ASSUME PathInv PROVE NoGap
    OBVIOUS
  <2>1. got["client"] <= frames["agent"]
    <3>1. PICK u \in Nat : Run(arriving["client"], got["client"], u) /\ u <= frames["agent"]
      BY DEF PathInv, UpFlow
    <3> QED BY <3>1, RunOrder DEF PathInv, PathTypes, Ends
  <2>2. got["agent"] <= frames["client"]
    <3>1. PICK u, v \in Nat : /\ Run(arriving["agent"], got["agent"], u) /\ Chain(fromActor, u, v)
                              /\ v <= frames["client"]
      BY DEF PathInv, DownFlow
    <3>2. got["agent"] \in Nat /\ got["agent"] <= u /\ u <= v /\ frames["client"] \in Nat
      BY <3>1, RunOrder, ChainOrder DEF PathInv, PathTypes, Ends
    <3> QED BY <3>1, <3>2
  <2>3. \A e \in Ends : got[e] <= frames[Peer(e)]
    BY <2>1, <2>2 DEF Ends, Peer
  <2>4. PathTypeOK
    BY DEF PathInv, PathTypes, Queues, Bounded, PathTypeOK, Messages
  <2> QED BY <2>3, <2>4 DEF NoGap
<1> QED BY <1>1, PathInvariant, PTL

=============================================================================
