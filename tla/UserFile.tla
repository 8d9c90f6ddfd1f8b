------------------------------ MODULE UserFile ------------------------------
(***************************************************************************)
(* How the commands change a file that a running server reads: `user add`  *)
(* and `user delete` on the userlist (main.rs), and the config wizard's    *)
(* save (wizard.rs).  Several commands may run at once, a process may be   *)
(* killed at any step and the machine may lose power: renames that were    *)
(* not followed by a sync of the directory may then be undone, and a file  *)
(* that was never synced is torn.                                          *)
(*                                                                         *)
(* A file's content is a set of entries <<name, process>>: who wrote the   *)
(* line.  A wizard replaces the whole file; the user commands edit it.     *)
(***************************************************************************)
EXTENDS Naturals, Sequences, FiniteSets

CONSTANTS
    Commands,       \* the processes, one operation each
    Users,
    MaxFileFaults   \* bound: failing calls, killed processes and power losses

Targets == {"direct", "managed", "unmanaged", "inactive", "config"}
NoFile == [data |-> {}, access |-> "none", synced |-> TRUE]
Torn == {<<"torn", 0>>}
Nobody == 0

ASSUME UserAssumption == Nobody \notin Commands /\ Users # {}

VARIABLES
    target,     \* what resolve_user_target found, or the wizard's config file
    initially,  \* the file before any command
    file, bak,  \* the file and its .bak as processes see them
    diskFile, diskBak,  \* what a power loss is sure to keep
    lock,       \* holder of the .lock file
    op,         \* per process: what it was asked to do
    at,         \* per process: the next step
    existed, text,  \* per process: what it found when it read the file
    temp,       \* per process: its temporary file
    result,     \* per process: "none", "ok", "absent" or "failed"
    history,    \* the contents the file has had, in order
    kept,       \* how many of them a power loss is sure to keep
    acked,      \* how many of them had been made when a command last reported success
    versions,   \* every content there ever was
    hitches     \* faults so far

fsVars == <<file, bak, diskFile, diskBak>>
ghostVars == <<history, kept, acked, versions>>
userVars == <<target, initially, fsVars, lock, op, at, existed, text, temp, result, ghostVars,
              hitches>>

-----------------------------------------------------------------------------
Hitch == hitches < MaxFileFaults /\ hitches' = hitches + 1

Upsert(data, u, c) == {e \in data : e[1] # u} \cup {<<u, c>>}

\* What the operation of a process makes of a content.
Edited(data, c) ==
    CASE op[c].kind = "add" -> Upsert(data, op[c].user, c)
      [] op[c].kind = "delete" -> {e \in data : e[1] # op[c].user}
      [] op[c].kind = "save" -> {<<"config", c>>}

\* The process returns: its descriptors are closed, so the lock is free.
Finish(c, r) ==
    /\ at' = [at EXCEPT ![c] = "over"]
    /\ result' = [result EXCEPT ![c] = r]
    /\ lock' = IF lock = c THEN Nobody ELSE lock

Goto(c, step) == at' = [at EXCEPT ![c] = step] /\ UNCHANGED <<lock, result>>

-----------------------------------------------------------------------------
\* resolve_user_target; a wizard goes straight to its temporary file.
Resolve(c) ==
    /\ at[c] = "start"
    /\ IF target = "inactive" THEN Finish(c, "failed") /\ UNCHANGED existed
       ELSE IF target = "config"
       THEN Goto(c, "temp") /\ existed' = [existed EXCEPT ![c] = file # NoFile]
       ELSE Goto(c, "lock") /\ UNCHANGED existed
    /\ UNCHANGED <<target, initially, fsVars, op, text, temp, ghostVars, hitches>>

\* Faulty: the .lock file is opened and written, and nobody else is kept out.
AcquireLock_NoFlock(c) ==
    /\ at[c] = "lock"
    /\ lock' = c /\ at' = [at EXCEPT ![c] = "read"] /\ UNCHANGED result
    /\ UNCHANGED <<target, initially, fsVars, op, existed, text, temp, ghostVars, hitches>>

\* acquire_userlist_lock: flock waits for the holder.
AcquireLock(c) ==
    /\ at[c] = "lock" /\ lock = Nobody
    /\ lock' = c /\ at' = [at EXCEPT ![c] = "read"] /\ UNCHANGED result
    /\ UNCHANGED <<target, initially, fsVars, op, existed, text, temp, ghostVars, hitches>>

\* upsert_userlist_entry and delete_userlist_entry, up to the new content.
ReadList(c) ==
    /\ at[c] = "read"
    /\ existed' = [existed EXCEPT ![c] = file # NoFile]
    /\ text' = [text EXCEPT ![c] = file.data]
    /\ CASE op[c].kind = "delete" /\ file = NoFile -> Finish(c, "failed")
         [] op[c].kind = "delete" /\ file # NoFile /\ Edited(file.data, c) = file.data ->
              Finish(c, "absent")
         [] OTHER -> Goto(c, "temp")
    /\ UNCHANGED <<target, initially, fsVars, op, temp, ghostVars, hitches>>

\* userlist_unix_metadata and config_unix_metadata: an existing file keeps its
\* owner, mode and ACL; a new one gets what the policy says, or none at all.
Access(c) ==
    IF existed[c] /\ file # NoFile THEN file.access
    ELSE IF target = "managed" THEN "service"
    ELSE "private"

CreateTemp(c) ==
    /\ at[c] = "temp"
    /\ IF ~existed[c] /\ target = "unmanaged"
       THEN Finish(c, "failed") /\ UNCHANGED temp
       ELSE /\ Goto(c, "write")
            /\ temp' = [temp EXCEPT ![c] = [data |-> {}, access |-> Access(c), synced |-> FALSE]]
    /\ UNCHANGED <<target, initially, fsVars, op, existed, text, ghostVars, hitches>>

WriteTemp(c) ==
    /\ at[c] = "write" /\ Goto(c, "backup")
    /\ temp' = [temp EXCEPT ![c] = [@ EXCEPT !.data = Edited(text[c], c), !.synced = TRUE]]
    /\ UNCHANGED <<target, initially, fsVars, op, existed, text, ghostVars, hitches>>

\* backup_userlist and create_config_backup: a synced copy renamed over .bak.
Backup(c) ==
    /\ at[c] = "backup" /\ Goto(c, "replace")
    /\ bak' = IF existed[c] /\ file # NoFile THEN [file EXCEPT !.synced = TRUE] ELSE bak
    /\ UNCHANGED <<target, initially, file, diskFile, diskBak, op, existed, text, temp,
                   ghostVars, hitches>>

\* replace_userlist and replace_config.
Replace(c) ==
    /\ at[c] = "replace" /\ Goto(c, "sync")
    /\ file' = temp[c] /\ temp' = [temp EXCEPT ![c] = NoFile]
    /\ history' = Append(history, Edited(history[Len(history)], c))
    /\ versions' = versions \cup {temp[c].data}
    /\ UNCHANGED <<target, initially, bak, diskFile, diskBak, op, existed, text, kept, acked,
                   hitches>>

\* sync_userlist_parent and sync_parent.
SyncParent(c) ==
    /\ at[c] = "sync" /\ Finish(c, "ok")
    /\ diskFile' = file /\ diskBak' = bak
    /\ kept' = Len(history) /\ acked' = Len(history)
    /\ UNCHANGED <<target, initially, file, bak, op, existed, text, temp, history, versions,
                   hitches>>

-----------------------------------------------------------------------------
(* What goes wrong.                                                        *)

\* A step before the replacement fails: a user command removes its temporary
\* file; a wizard whose write fails leaves it.
StepFails(c) ==
    /\ at[c] \in {"lock", "read", "temp", "write", "backup", "replace"}
    /\ at[c] = "lock" => lock = Nobody
    /\ Hitch
    /\ Finish(c, "failed")
    /\ temp' = IF target = "config" /\ at[c] = "write" THEN temp
               ELSE [temp EXCEPT ![c] = NoFile]
    /\ UNCHANGED <<target, initially, fsVars, op, existed, text, ghostVars>>

\* The directory cannot be synced: the file has changed, a user command reports
\* failure and a wizard warns.
SyncFails(c) ==
    /\ at[c] = "sync"
    /\ Hitch
    /\ Finish(c, IF target = "config" THEN "ok" ELSE "failed")
    /\ UNCHANGED <<target, initially, fsVars, op, existed, text, temp, ghostVars>>

Killed(c) ==
    /\ at[c] \notin {"start", "over"}
    /\ Hitch
    /\ Finish(c, "none")
    /\ UNCHANGED <<target, initially, fsVars, op, existed, text, temp, ghostVars>>

\* Someone removes the config file while a wizard writes it.
Removed ==
    /\ target = "config" /\ file # NoFile
    /\ Hitch
    /\ file' = NoFile /\ history' = Append(history, {}) /\ versions' = versions \cup {{}}
    /\ UNCHANGED <<target, initially, bak, diskFile, diskBak, lock, op, at, existed, text, temp,
                   result, kept, acked>>

AfterLoss(f) == IF f.synced THEN f ELSE [f EXCEPT !.data = Torn, !.synced = TRUE]

PowerLoss ==
    /\ \E c \in Commands : at[c] # "start"
    /\ Hitch
    /\ \/ file' = AfterLoss(file) /\ UNCHANGED history
       \/ file' = diskFile /\ history' = SubSeq(history, 1, kept)
    /\ \E b \in {bak, diskBak} : bak' = AfterLoss(b)
    /\ diskFile' = file' /\ diskBak' = bak' /\ kept' = Len(history')
    /\ at' = [c \in Commands |-> "over"] /\ lock' = Nobody
    /\ UNCHANGED <<target, initially, op, existed, text, temp, result, acked, versions>>

-----------------------------------------------------------------------------
Entry(u) == {<<u, 0>>}

\* Every kind of target, with and without a file, and every assignment of operations.
UserInit ==
    /\ target \in Targets
    /\ op \in IF target = "config" THEN [Commands -> {[kind |-> "save", user |-> "config"]}]
              ELSE [Commands -> [kind : {"add", "delete"}, user : Users]]
    /\ initially \in {NoFile} \cup
         {[data |-> IF target = "config" THEN Entry("config") ELSE Entry(CHOOSE u \in Users : TRUE),
           access |-> "custom", synced |-> TRUE]}
    /\ file = initially /\ diskFile = initially /\ bak = NoFile /\ diskBak = NoFile
    /\ lock = Nobody
    /\ at = [c \in Commands |-> "start"]
    /\ existed = [c \in Commands |-> FALSE] /\ text = [c \in Commands |-> {}]
    /\ temp = [c \in Commands |-> NoFile]
    /\ result = [c \in Commands |-> "none"]
    /\ history = <<initially.data>> /\ kept = 1 /\ acked = 1 /\ versions = {initially.data}
    /\ hitches = 0

UserNext ==
    \/ \E c \in Commands :
          \/ Resolve(c) \/ AcquireLock(c) \/ ReadList(c) \/ CreateTemp(c) \/ WriteTemp(c)
          \/ Backup(c) \/ Replace(c) \/ SyncParent(c)
          \/ StepFails(c) \/ SyncFails(c) \/ Killed(c)
    \/ Removed \/ PowerLoss

UserSpec == UserInit /\ [][UserNext]_userVars

-----------------------------------------------------------------------------
(***************************************************************************)
(* Whatever runs at once, fails, is killed or loses power: a reader finds  *)
(* the effect of the replacements in their order, so no edit is lost and   *)
(* nothing is torn; the backup is a content the file once had; what a user *)
(* command reported as done survives a power loss; the file keeps its      *)
(* access, and a new one is readable by whom the policy says; and a user   *)
(* command that failed leaves no copy of the password hashes behind.       *)
(***************************************************************************)
UserlistSafe ==
    /\ file.data = history[Len(history)]
    /\ bak = NoFile \/ bak.data \in versions
    /\ target # "config" =>
         /\ acked <= kept
         /\ file = NoFile \/ file.access =
              IF initially # NoFile THEN "custom"
              ELSE IF target = "managed" THEN "service" ELSE "private"
         /\ target \in {"inactive", "unmanaged"} => (initially = NoFile => file = NoFile)
         /\ \A c \in Commands : result[c] = "failed" => temp[c] = NoFile
=============================================================================
