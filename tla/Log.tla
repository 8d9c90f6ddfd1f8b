--------------------------------- MODULE Log ---------------------------------
(***************************************************************************)
(* The log worker (runtime.rs): loggers hand their records to a bounded    *)
(* queue and never wait; one thread writes them to the sinks, a console    *)
(* and a rotating file, and reports in band how many were lost.            *)
(* A logger loses a record in two steps, try_send and fetch_add, and the   *)
(* worker reports in two, the load and the write of the warning.           *)
(***************************************************************************)
EXTENDS Integers, Sequences

CONSTANTS
    Capacity,   \* LOG_QUEUE_CAPACITY
    MaxLen,     \* logrotate.size, in the units of Sizes
    Keep,       \* logrotate.keep
    MaxRecords, \* bound: records emitted
    MaxFaults   \* bound: failing system calls

ASSUME LogAssumption == {MaxLen, Keep, MaxRecords} \subseteq Nat

Flush == 0
Sizes == {1, 2}  \* of a line

VARIABLES
    emitted,    \* records emitted so far
    queue,      \* commands: record numbers, and Flush
    uncounted,  \* records refused by the queue, not yet counted by their logger
    dropped,    \* the shared counter
    reported,   \* the worker's: drops it has reported
    worker,     \* "recv", "load", "warn" or "act"
    command,        \* the command in hand
    total,      \* the worker's load of dropped
    out,        \* lines accepted by a sink: record numbers, and -n for a warning of n drops
    open,       \* RotatingFile.file is Some
    len,        \* RotatingFile.len
    files,      \* the log file (0) and its rotated predecessors; <<>> when absent
    accepted,   \* every line the file has accepted
    guard,      \* LogGuard: "held", "waiting", or "over"
    owed,       \* drops counted when the guard's Flush was queued
    missed,     \* warnings that no sink accepted
    faults

fileVars == <<open, len, files, accepted>>
logVars == <<emitted, queue, uncounted, dropped, reported, worker, command, total, out, fileVars,
             guard, owed, missed, faults>>

Fault == faults < MaxFaults /\ faults' = faults + 1

-----------------------------------------------------------------------------
(* Loggers and the guard.                                                  *)

\* AsyncLogHandle::drop, up to a refused try_send.
Emit ==
    /\ emitted < MaxRecords
    /\ emitted' = emitted + 1
    /\ IF Len(queue) < Capacity
       THEN queue' = Append(queue, emitted') /\ UNCHANGED uncounted
       ELSE uncounted' = uncounted + 1 /\ UNCHANGED queue
    /\ UNCHANGED <<dropped, reported, worker, command, total, out, fileVars, guard, owed, missed, faults>>

CountDrop ==
    /\ uncounted > 0
    /\ uncounted' = uncounted - 1 /\ dropped' = dropped + 1
    /\ UNCHANGED <<emitted, queue, reported, worker, command, total, out, fileVars, guard, owed,
                   missed, faults>>

\* LogGuard::drop queues a Flush as soon as there is room.
GuardFlush ==
    /\ guard = "held" /\ Len(queue) < Capacity
    /\ queue' = Append(queue, Flush) /\ guard' = "waiting" /\ owed' = dropped
    /\ UNCHANGED <<emitted, uncounted, dropped, reported, worker, command, total, out, fileVars,
                   missed, faults>>

\* LOG_FLUSH_TIMEOUT, before or after the Flush was queued.
GuardTimeout ==
    /\ guard \in {"held", "waiting"}
    /\ Fault
    /\ guard' = "over" /\ owed' = 0
    /\ UNCHANGED <<emitted, queue, uncounted, dropped, reported, worker, command, total, out,
                   fileVars, missed>>

-----------------------------------------------------------------------------
(* RotatingFile.                                                           *)

rename_if_exists(f, from, to) ==
    IF f[from] = <<>> THEN f ELSE [f EXCEPT ![to] = f[from], ![from] = <<>>]

\* The files after the first k operations of a rotation: the oldest is removed,
\* then each one is renamed, the log file last.
AfterOps ==
    LET After[k \in 0 .. Keep + 1] ==
          IF k = 0 THEN files
          ELSE IF k = 1 THEN [files EXCEPT ![Keep] = <<>>]
          ELSE rename_if_exists(After[k - 1], Keep - k + 1, Keep - k + 2)
    IN  After

should_rotate(size) == MaxLen > 0 /\ len > 0 /\ len + size > MaxLen

\* A rotation that stops after some of its operations leaves the handle closed and
\* keeps the length; after a whole one the write itself may fail.
FileFails(size) ==
    /\ \/ /\ should_rotate(size)
          /\ \E k \in 0 .. Keep + 1 : files' = AfterOps[k]
          /\ open' = FALSE /\ UNCHANGED len
       \/ /\ should_rotate(size)
          /\ files' = AfterOps[Keep + 1] /\ open' = TRUE /\ len' = 0
       \/ ~should_rotate(size) /\ open /\ UNCHANGED <<files, open, len>>
    /\ UNCHANGED accepted

\* The handle that a failed rotation closed stays closed until a line is long
\* enough to rotate again.
HandleClosed(size) == ~should_rotate(size) /\ ~open /\ UNCHANGED fileVars

FileAccepts(line, size) ==
    /\ should_rotate(size) \/ open
    /\ IF should_rotate(size)
       THEN files' = [AfterOps[Keep + 1] EXCEPT ![0] = Append(@, line)] /\ len' = size
       ELSE files' = [files EXCEPT ![0] = Append(@, line)] /\ len' = len + size
    /\ open' = TRUE /\ accepted' = Append(accepted, line)

\* MultiLogWriter: a line counts as written when any sink has taken it.
Delivered(line) ==
    /\ \E size \in Sizes :
          \/ (FileAccepts(line, size) \/ HandleClosed(size)) /\ UNCHANGED faults
          \/ FileFails(size) /\ Fault
    /\ out' = Append(out, line)

\* The console fails as well, or is not configured.
Refused ==
    /\ \E size \in Sizes :
          \/ HandleClosed(size) /\ UNCHANGED faults
          \/ FileFails(size) /\ Fault
    /\ UNCHANGED out

-----------------------------------------------------------------------------
(* run_log_worker.                                                         *)

Recv ==
    /\ worker = "recv" /\ queue # <<>>
    /\ command' = Head(queue) /\ queue' = Tail(queue) /\ worker' = "load"
    /\ UNCHANGED <<emitted, uncounted, dropped, reported, total, out, fileVars, guard, owed,
                   missed, faults>>

\* report_dropped_records, up to the load.
Load ==
    /\ worker = "load"
    /\ total' = dropped
    /\ worker' = IF dropped <= reported THEN "act" ELSE "warn"
    /\ UNCHANGED <<emitted, queue, uncounted, dropped, reported, command, out, fileVars, guard, owed,
                   missed, faults>>

\* Faulty: the drops are marked as reported with a second load.
Warn_LoadsAgain ==
    /\ worker = "warn" /\ worker' = "act"
    /\ \/ Delivered(reported - total) /\ reported' = dropped /\ UNCHANGED missed
       \/ Refused /\ missed' = missed + 1 /\ UNCHANGED reported
    /\ UNCHANGED <<emitted, queue, uncounted, dropped, command, total, guard, owed>>

\* The rest of it: the drops are marked only when the warning was written.
Warn ==
    /\ worker = "warn" /\ worker' = "act"
    /\ \/ Delivered(reported - total) /\ reported' = total /\ UNCHANGED missed
       \/ Refused /\ missed' = missed + 1 /\ UNCHANGED reported
    /\ UNCHANGED <<emitted, queue, uncounted, dropped, command, total, guard, owed>>

WriteRecord ==
    /\ worker = "act" /\ command # Flush /\ worker' = "recv"
    /\ \/ Delivered(command) /\ UNCHANGED dropped
       \/ Refused /\ dropped' = dropped + 1
    /\ UNCHANGED <<emitted, queue, uncounted, reported, command, total, guard, owed, missed>>

AckFlush ==
    /\ worker = "act" /\ command = Flush /\ worker' = "recv"
    /\ guard' = "over"
    /\ UNCHANGED <<emitted, queue, uncounted, dropped, reported, command, total, out, fileVars, owed,
                   missed, faults>>

-----------------------------------------------------------------------------
\* A worker whose queue is empty and whose loggers have at most n records left.
LogInit(n) ==
    /\ emitted = MaxRecords - n /\ queue = <<>> /\ uncounted = 0
    /\ dropped = 0 /\ reported = 0 /\ worker = "recv" /\ command = Flush /\ total = 0
    /\ out = [i \in 1 .. MaxRecords - n |-> i]
    /\ open = TRUE /\ len = 0 /\ files = [i \in 0 .. Keep |-> <<>>] /\ accepted = <<>>
    /\ owed = 0 /\ missed = 0

LogNext ==
    \/ Emit \/ CountDrop \/ GuardFlush \/ GuardTimeout
    \/ Recv \/ Load \/ Warn \/ WriteRecord \/ AckFlush

LogSpec == LogInit(MaxRecords) /\ guard = "held" /\ faults = 0 /\ [][LogNext]_logVars

-----------------------------------------------------------------------------
\* The sum of a sequence of numbers.
Total(w) ==
    LET Sum[i \in 0 .. Len(w)] == IF i = 0 THEN 0 ELSE Sum[i - 1] + w[i]
    IN  Sum[Len(w)]

RecordsIn(s) == Total([i \in 1 .. Len(s) |-> IF s[i] > Flush THEN 1 ELSE 0])

\* The drops announced by the warnings of a sequence of lines.
Announced(s) == Total([i \in 1 .. Len(s) |-> IF s[i] < 0 THEN 0 - s[i] ELSE 0])

InHand == IF worker # "recv" /\ command # Flush THEN 1 ELSE 0

(***************************************************************************)
(* Every record is written, waiting or counted as lost, and exactly the    *)
(* drops marked as reported have been announced, whatever the sinks and    *)
(* the other loggers do meanwhile; a flush that was answered has announced *)
(* every drop counted before it, unless no sink took the warning.          *)
(***************************************************************************)
LogAccounted ==
    /\ emitted = RecordsIn(out) + RecordsIn(queue) + InHand + uncounted + dropped
    /\ Announced(out) = reported /\ reported <= dropped
    /\ guard = "over" => owed <= reported \/ missed > 0

(***************************************************************************)
(* What is left on disk is a suffix of what the file accepted, in order:   *)
(* rotation, even one that fails halfway and is tried again, drops the     *)
(* oldest lines first and never reorders or overwrites newer ones.  Where  *)
(* no call failed, lines are lost only past a full set of kept files.      *)
(***************************************************************************)
LogSuffix ==
    LET Joined[i \in 0 .. Keep] == IF i = Keep THEN files[i] ELSE Joined[i + 1] \o files[i]
        n == Len(Joined[0])
    IN  /\ n <= Len(accepted)
        /\ Joined[0] = SubSeq(accepted, Len(accepted) - n + 1, Len(accepted))
        /\ n < Len(accepted) /\ faults = 0 => \A i \in 1 .. Keep : files[i] # <<>>

(***************************************************************************)
(* LogAccounted and LogSuffix: no record disappears uncounted, and what    *)
(* the files keep is the end of what they were given.                      *)
(***************************************************************************)
LogSound == LogAccounted /\ LogSuffix
=============================================================================
