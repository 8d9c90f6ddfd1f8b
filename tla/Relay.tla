------------------------------- MODULE Relay -------------------------------
(***************************************************************************)
(* The TCP relay (relay.rs): two copy directions, the idle watchdog and,   *)
(* for a stream of an RDP session, the signal that the remote has closed   *)
(* both halves.  All of it is one task: relay_both_until polls the signal, *)
(* the upload, the download and the watchdog, in that order, and acts on   *)
(* the first that is ready.                                                *)
(*                                                                         *)
(* Time is counted in units that the quarter of a timeout is made of.  It  *)
(* passes only when nothing that is due can be done: the runtime polls a   *)
(* ready task before it sleeps.                                            *)
(*                                                                         *)
(* A definition named after another, with an underscore and a word, is a   *)
(* faulty variant of it: a bug the properties are known to catch.          *)
(***************************************************************************)
EXTENDS Naturals

CONSTANTS
    Idle,       \* iotimeout, in units; 0 disables it
    Drain,      \* POST_CLOSE_DRAIN_TIMEOUT
    MaxNap,     \* MAX_SHAPED_NAP
    MaxTick,    \* the longest watchdog period
    Waits,      \* bound: the waits that Throttle::reserve may ask for
    Kinds,      \* relay_generic_until ("until") and relay_streams ("plain")
    Chunks,     \* bound: how many buffers each direction reads
    Parts       \* bound: the partial writes of one buffer

Directions == {"up", "down"}

ASSUME TimesAssumption ==
    /\ Idle \in Nat /\ Idle # 1 /\ {Drain, MaxNap, MaxTick, Parts} \subseteq Nat \ {0}
    /\ Waits \subseteq Nat /\ Chunks \in Nat /\ Kinds \subseteq {"until", "plain"}

VARIABLES
    kind,       \* which of Kinds this relay is
    pc,         \* where copy_direction is
    left,       \* what its reader will still produce before EOF
    wait, nap,  \* shaped_wait: what remains, and the sleep it is in
    pieces,     \* what write_all has still to write of the buffer
    written,    \* up_total and down_total, in buffers
    signal,     \* what the closed future would return
    upDone, downDone, closeSeen,
    ticker,     \* time to the watchdog's next tick, or none
    quiet,      \* ActivityClock::idle_for
    outcome,    \* running, done, idle or error
    stalled     \* history: time since anything moved, or was being shaped

copyVars == <<pc, left, wait, nap, pieces, written>>
loopVars == <<upDone, downDone, closeSeen, ticker, outcome>>
vars == <<kind, copyVars, loopVars, signal, quiet, stalled>>

NoTicker == [armed |-> FALSE, in |-> 0]
Larger(a, b) == IF a < b THEN b ELSE a
Smaller(a, b) == IF a < b THEN a ELSE b

\* idle_tick_period
TickPeriod(limit) == Smaller(Larger(limit \div 4, 1), MaxTick)
\* An interval's first tick is immediate.
Armed == [armed |-> TRUE, in |-> 0]

\* The signal is polled first, so a direction runs only while it is pending.
Polls(d) ==
    /\ outcome = "running"
    /\ signal = "none" \/ closeSeen
    /\ IF d = "up" THEN ~upDone ELSE ~downDone

-----------------------------------------------------------------------------
(* copy_direction and shaped_wait.                                         *)

NapCap == IF Idle = 0 THEN MaxNap ELSE Smaller(Idle \div 2, MaxNap)

Read(d) ==
    /\ Polls(d) /\ pc[d] = "reading" /\ left[d] > 0
    /\ left' = [left EXCEPT ![d] = @ - 1]
    /\ quiet' = 0 /\ stalled' = 0
    /\ pieces' = [pieces EXCEPT ![d] = Parts]
    /\ \E w \in Waits \cup {0} :
         /\ wait' = [wait EXCEPT ![d] = w]
         /\ nap' = [nap EXCEPT ![d] = Smaller(w, NapCap)]
         /\ pc' = [pc EXCEPT ![d] = IF w = 0 THEN "writing" ELSE "shaping"]
    /\ UNCHANGED <<kind, written, loopVars, signal>>

\* Faulty: A nap that ends does not count as activity.
NapEnds_Unmarked(d) ==
    /\ Polls(d) /\ pc[d] = "shaping" /\ nap[d] = 0
    /\ LET remaining == wait[d] - Smaller(wait[d], NapCap)
       IN  /\ wait' = [wait EXCEPT ![d] = remaining]
           /\ nap' = [nap EXCEPT ![d] = Smaller(remaining, NapCap)]
           /\ pc' = [pc EXCEPT ![d] = IF remaining = 0 THEN "writing" ELSE "shaping"]
    /\ UNCHANGED <<kind, left, pieces, written, loopVars, signal, quiet, stalled>>

NapEnds(d) ==
    /\ Polls(d) /\ pc[d] = "shaping" /\ nap[d] = 0
    /\ quiet' = 0 /\ stalled' = 0
    /\ LET remaining == wait[d] - Smaller(wait[d], NapCap)
       IN  /\ wait' = [wait EXCEPT ![d] = remaining]
           /\ nap' = [nap EXCEPT ![d] = Smaller(remaining, NapCap)]
           /\ pc' = [pc EXCEPT ![d] = IF remaining = 0 THEN "writing" ELSE "shaping"]
    /\ UNCHANGED <<kind, left, pieces, written, loopVars, signal>>

\* write_all: no part of it marks activity.
WritePart(d) ==
    /\ Polls(d) /\ pc[d] = "writing"
    /\ pieces' = [pieces EXCEPT ![d] = @ - 1]
    /\ IF pieces[d] = 1
       THEN /\ written' = [written EXCEPT ![d] = @ + 1]
            /\ pc' = [pc EXCEPT ![d] = "reading"]
       ELSE UNCHANGED <<written, pc>>
    /\ stalled' = 0
    /\ UNCHANGED <<kind, left, wait, nap, loopVars, signal, quiet>>

\* The reader is at EOF; an RDP stream that was closed is, once it is drained.
ReadEof(d) ==
    /\ Polls(d) /\ pc[d] = "reading" /\ left[d] = 0
    /\ pc' = [pc EXCEPT ![d] = "shutdown"]
    /\ UNCHANGED <<kind, left, wait, nap, pieces, written, loopVars, signal, quiet, stalled>>

\* relay_streams ignores what shutdown returns, relay_generic_until does not.
ShutdownWriter(d, ok) ==
    /\ Polls(d) /\ pc[d] = "shutdown"
    /\ pc' = [pc EXCEPT ![d] = IF ok \/ kind = "plain" THEN "ok" ELSE "err"]
    /\ UNCHANGED <<kind, left, wait, nap, pieces, written, loopVars, signal, quiet, stalled>>

CopyFails(d) ==
    /\ Polls(d) /\ pc[d] \in {"reading", "writing"}
    /\ pc' = [pc EXCEPT ![d] = "err"]
    /\ UNCHANGED <<kind, left, wait, nap, pieces, written, loopVars, signal, quiet, stalled>>

-----------------------------------------------------------------------------
(* relay_both_until.                                                       *)

\* The remote end closes the stream: wait_remote_close returns Ok or Err.
RemoteCloses(how) ==
    /\ kind = "until" /\ outcome = "running" /\ signal = "none"
    /\ signal' = how
    /\ UNCHANGED <<kind, copyVars, loopVars, quiet, stalled>>

Finish(result) == outcome' = result

SeeClose ==
    /\ outcome = "running" /\ signal # "none" /\ ~closeSeen
    /\ IF signal = "failed"
       THEN Finish("error") /\ UNCHANGED <<upDone, closeSeen, ticker>>
       ELSE /\ upDone' = TRUE /\ closeSeen' = TRUE
            /\ ticker' = IF ticker.armed THEN ticker ELSE Armed
            /\ Finish(IF downDone THEN "done" ELSE "running")
    /\ UNCHANGED <<kind, copyVars, downDone, signal, quiet, stalled>>

UpOk ==
    /\ Polls("up") /\ pc["up"] = "ok"
    /\ upDone' = TRUE
    /\ Finish(IF downDone THEN "done" ELSE "running")
    /\ UNCHANGED <<kind, copyVars, downDone, closeSeen, ticker, signal, quiet, stalled>>

\* Faulty: an upload error ends the relay although the remote has just closed normally.
UpFails_NoRecheck ==
    /\ Polls("up") /\ pc["up"] = "err"
    /\ \/ UNCHANGED signal
       \/ /\ kind = "until"
          /\ \E how \in {"normal", "failed"} : signal' = how
    /\ Finish("error")
    /\ UNCHANGED <<kind, copyVars, upDone, downDone, closeSeen, ticker, quiet, stalled>>

\* The upload fails after the signal was polled: it is polled once more, since the
\* remote may have closed in between.  After a normal close the download goes on.
UpFails ==
    /\ Polls("up") /\ pc["up"] = "err"
    /\ \/ Finish("error") /\ UNCHANGED <<signal, upDone, closeSeen>>
       \/ /\ kind = "until"
          /\ \/ signal' = "failed" /\ Finish("error") /\ UNCHANGED <<upDone, closeSeen>>
             \/ /\ signal' = "normal"
                /\ upDone' = TRUE /\ closeSeen' = TRUE
                /\ Finish(IF downDone THEN "done" ELSE "running")
    /\ UNCHANGED <<kind, copyVars, downDone, ticker, quiet, stalled>>

DownEnds ==
    /\ Polls("down") /\ pc["down"] \in {"ok", "err"}
    /\ Polls("up") => pc["up"] \notin {"ok", "err"}
    /\ downDone' = (pc["down"] = "ok")
    /\ Finish(IF pc["down"] = "err" THEN "error" ELSE IF upDone THEN "done" ELSE "running")
    /\ UNCHANGED <<kind, copyVars, upDone, closeSeen, ticker, signal, quiet, stalled>>

\* A branch of the select! that comes before the watchdog is ready.
ReadyFirst ==
    \/ signal # "none" /\ ~closeSeen
    \/ \E d \in Directions :
          Polls(d) /\ (pc[d] \in {"ok", "err"} \/ (pc[d] = "shaping" /\ nap[d] = 0))

Limit == IF Idle = 0 THEN Drain ELSE Idle

\* Faulty: the watchdog looks once and is not re-armed.
Watchdog_OneShot ==
    /\ outcome = "running" /\ ~ReadyFirst
    /\ ticker.armed /\ ticker.in = 0
    /\ IF quiet >= Limit /\ (closeSeen \/ Idle # 0)
       THEN Finish("idle") /\ UNCHANGED ticker
       ELSE ticker' = NoTicker /\ UNCHANGED outcome
    /\ UNCHANGED <<kind, copyVars, upDone, downDone, closeSeen, signal, quiet, stalled>>

\* Faulty: the watchdog's branch comes first.
Watchdog_First ==
    /\ outcome = "running"
    /\ ticker.armed /\ ticker.in = 0
    /\ IF quiet >= Limit /\ (closeSeen \/ Idle # 0)
       THEN Finish("idle") /\ UNCHANGED ticker
       ELSE ticker' = [ticker EXCEPT !.in = TickPeriod(Limit)] /\ UNCHANGED outcome
    /\ UNCHANGED <<kind, copyVars, upDone, downDone, closeSeen, signal, quiet, stalled>>

Watchdog ==
    /\ outcome = "running" /\ ~ReadyFirst
    /\ ticker.armed /\ ticker.in = 0
    /\ IF quiet >= Limit /\ (closeSeen \/ Idle # 0)
       THEN Finish("idle") /\ UNCHANGED ticker
       ELSE ticker' = [ticker EXCEPT !.in = TickPeriod(Limit)] /\ UNCHANGED outcome
    /\ UNCHANGED <<kind, copyVars, upDone, downDone, closeSeen, signal, quiet, stalled>>

-----------------------------------------------------------------------------
Shaping == {d \in Directions : Polls(d) /\ pc[d] = "shaping"}

\* The clocks are not followed beyond Limit.
TimePasses ==
    /\ outcome = "running" /\ ~ReadyFirst
    /\ ticker.armed => ticker.in > 0
    /\ nap' = [d \in Directions |-> IF d \in Shaping THEN nap[d] - 1 ELSE nap[d]]
    /\ ticker' = IF ticker.armed THEN [ticker EXCEPT !.in = @ - 1] ELSE ticker
    /\ quiet' = Smaller(quiet + 1, Limit)
    /\ stalled' = IF Shaping = {} THEN Smaller(stalled + 1, Limit) ELSE 0
    /\ UNCHANGED <<kind, pc, left, wait, pieces, written, upDone, downDone, closeSeen, outcome,
                   signal>>

Init ==
    /\ kind \in Kinds
    /\ pc = [d \in Directions |-> "reading"]
    /\ left \in [Directions -> 0 .. Chunks]
    /\ wait = [d \in Directions |-> 0] /\ nap = [d \in Directions |-> 0]
    /\ pieces = [d \in Directions |-> 0] /\ written = [d \in Directions |-> 0]
    /\ signal = "none"
    /\ upDone = FALSE /\ downDone = FALSE /\ closeSeen = FALSE
    /\ ticker = IF Idle = 0 THEN NoTicker ELSE Armed
    /\ quiet = 0 /\ stalled = 0 /\ outcome = "running"

Loop == SeeClose \/ UpOk \/ UpFails \/ DownEnds \/ Watchdog

Copy(d) ==
    \/ Read(d) \/ NapEnds(d) \/ WritePart(d) \/ ReadEof(d) \/ CopyFails(d)
    \/ \E ok \in BOOLEAN : ShutdownWriter(d, ok)

Next ==
    \/ \E d \in Directions : Copy(d)
    \/ \E how \in {"normal", "failed"} : RemoteCloses(how)
    \/ Loop
    \/ TimePasses

Spec == Init /\ [][Next]_vars

(***************************************************************************)
(* Time passes, timers that are due fire and ready branches are taken.     *)
(* Neither peer need send, read, close or fail.                            *)
(***************************************************************************)
Fairness ==
    /\ WF_vars(TimePasses) /\ WF_vars(Loop)
    /\ \A d \in Directions : WF_vars(NapEnds(d))

FairSpec == Spec /\ Fairness

-----------------------------------------------------------------------------
(***************************************************************************)
(* Type correctness of the relay.                                          *)
(***************************************************************************)
TypeOK ==
    /\ kind \in Kinds
    /\ pc \in [Directions -> {"reading", "shaping", "writing", "shutdown", "ok", "err"}]
    /\ left \in [Directions -> 0 .. Chunks] /\ written \in [Directions -> 0 .. Chunks]
    /\ wait \in [Directions -> Nat] /\ nap \in [Directions -> Nat]
    /\ pieces \in [Directions -> 0 .. Parts]
    /\ signal \in {"none", "normal", "failed"}
    /\ upDone \in BOOLEAN /\ downDone \in BOOLEAN /\ closeSeen \in BOOLEAN
    /\ ticker \in [armed: BOOLEAN, in: Nat]
    /\ quiet \in 0 .. Limit /\ stalled \in 0 .. Limit
    /\ outcome \in {"running", "done", "idle", "error"}

(***************************************************************************)
(* shaped_wait: with an idle timeout, a flow that is being slowed to its   *)
(* rate is never taken for an idle one, however long the wait.  Without    *)
(* one (Idle = 0) the code does not promise it: a nap may then last an     *)
(* hour, against a post-close drain of ten seconds.                        *)
(***************************************************************************)
ShapedIsNotIdle ==
    outcome = "idle" => pc["down"] # "shaping" /\ (pc["up"] = "shaping" => upDone)

(***************************************************************************)
(* The biased select!: an error that is ready is reported, never replaced  *)
(* by the watchdog's Ok.  Only a normal close excuses an upload error.     *)
(***************************************************************************)
ErrorNotMasked ==
    outcome \in {"done", "idle"} =>
        pc["down"] # "err" /\ (pc["up"] = "err" => closeSeen /\ signal = "normal")

(***************************************************************************)
(* A relay that ends well has delivered every byte of the download and     *)
(* shut its writer down; the upload too, unless the remote closed.         *)
(***************************************************************************)
DeliveredWhenDone ==
    outcome = "done" =>
        /\ pc["down"] = "ok" /\ left["down"] = 0
        /\ ~closeSeen => pc["up"] = "ok" /\ left["up"] = 0

(***************************************************************************)
(* The relay's verdict can be believed: Ok means that no direction had     *)
(* failed and, unless it is the watchdog's, that all was delivered.        *)
(***************************************************************************)
VerdictHonest == ErrorNotMasked /\ DeliveredWhenDone

(***************************************************************************)
(* A normal close of the remote never costs the download: the relay fails  *)
(* only when the download does, or when the upload failed before it.       *)
(***************************************************************************)
CloseKeepsDownload ==
    [][ outcome = "running" /\ outcome' = "error"
        => signal' # "normal" \/ pc["down"] = "err" ]_vars

(***************************************************************************)
(* An idle timeout bounds the relay: with peers that do nothing for ever   *)
(* it still ends, in whatever stage they leave it, and gives its           *)
(* connection permit back.                                                 *)
(***************************************************************************)
RelayEnds == <>(outcome # "running")

(***************************************************************************)
(* doc/rdp-transport.md: after a normal CLOSE the drain is bounded, by the *)
(* idle timeout or by a 10-second no-progress deadline.                    *)
(***************************************************************************)
DrainBounded == closeSeen ~> outcome # "running"
=============================================================================
