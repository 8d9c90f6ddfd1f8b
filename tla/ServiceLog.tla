----------------------------- MODULE ServiceLog -----------------------------
(***************************************************************************)
(* The Windows service (platform/windows/service.rs) and the log files it  *)
(* owns (runtime.rs).  The process keeps its log until it exits: the file  *)
(* and its rotation targets are appended to, renamed and removed while     *)
(* reloads change which files the server reads.  Startup and every reload  *)
(* check that the two never meet, by name, through a junction or through a *)
(* hard link.  A process reports STOPPED before it lets its log go, so it  *)
(* may still rotate while its successor is already running.                *)
(*                                                                         *)
(* A path is a sequence of components and a component a sequence of name   *)
(* parts, so that x.log, x.log.1 and x.log.bak are <<"x">>, <<"x", "1">>   *)
(* and <<"x", "bak">>; names are compared as Windows does, without case.   *)
(***************************************************************************)
EXTENDS Naturals, Sequences, SequencesExt, FiniteSets

CONSTANTS
    Configs,        \* what the configuration file may come to say
    ConfigPath, Marker, \* the configuration file and the service's marker file
    DefaultLog,     \* alighieri.log in the default directory
    Junction, JunctionTarget,   \* a junction and where it leads
    HardLink,       \* two names of one file
    Numerals,       \* "1", "2", ... up to MAX_LOG_ROTATE_KEEP
    MaxReloads      \* bound: reloads and restarts

Path == Seq(Seq(STRING))
ASSUME ServiceAssumption ==
    /\ Numerals \in Seq(STRING) /\ IsInjective(Numerals)
    /\ Configs \subseteq [valid : BOOLEAN, logfile : Path, keep : 0 .. Len(Numerals),
                          sources : SUBSET Path, userlist : Path, program : Path,
                          tls : SUBSET Path, cache : SUBSET Path,
                          patterns : SUBSET [dir : Path, prefix : Seq(STRING)]]

NoPath == <<>>
NoFamily == [base |-> NoPath, keep |-> 0]

VARIABLES
    service,    \* SCM status: "start pending", "running", "stop pending" or "stopped"
    starting,   \* what comes next in run_service
    onDisk,     \* the configuration file
    config,     \* the configuration in effect
    family,     \* the log the process holds: active_log_path, active_log_rotate_keep
    leaving,    \* the logs of processes that have a successor and have not exited
    disturbed,  \* history: one of those has rotated since the log in use was checked
    linked,     \* the names that the hard-linked file has now
    reloads

serviceVars == <<service, starting, onDisk, config, family, leaving, disturbed, linked, reloads>>

-----------------------------------------------------------------------------
(* Paths.                                                                  *)

\* windows_service_normalized_path: the junction is followed.
Normalized(p) ==
    IF IsPrefix(Junction, p) THEN JunctionTarget \o SubSeq(p, Len(Junction) + 1, Len(p)) ELSE p

Parent(p) == Front(p)
SameOrDescendant(p, ancestor) == IsPrefix(ancestor, p)

\* windows_service_suffixed_sibling_path.
Sibling(p, prefix, suffix) == Append(Parent(p), prefix \o Last(p) \o suffix)

\* windows_service_validate_path_spelling and windows_service_reject_unresolved_reparse_points
\* refuse a path that cannot be compared.
ValidSpelling(p) == Last(p) # <<"odd">>

\* rotated_path.
Rotated(p, i) == Append(Parent(p), Append(Last(p), Numerals[i]))

\* WindowsServiceLogFamily.
Member(f, i) == IF i = 0 THEN f.base ELSE Rotated(f.base, i)
Members(f) == {Member(f, i) : i \in 0 .. f.keep}

\* member_index.
IsMember(f, p) ==
    \/ p = f.base
    \/ \E i \in 1 .. f.keep : Parent(p) = Parent(f.base) /\ Last(p) = Append(Last(f.base), Numerals[i])

\* conflicting_tree_member, for the tree below p.
TreeConflicts(f, p) ==
    \E m \in Members(f) : SameOrDescendant(m, p) \/ SameOrDescendant(p, m)

\* member_containing_path.
ContainsDir(f, p) == \E m \in Members(f) : SameOrDescendant(p, m)

-----------------------------------------------------------------------------
(* What a configuration c protects: c = [valid, logfile, keep, sources,    *)
(* program, tls, cache, patterns].                                         *)

\* windows_service_auth_program_candidates.
Programs(p) == IF Last(Last(p)) = "exe" THEN {p} ELSE {p, Sibling(p, <<>>, <<"exe">>)}

Protected(c) ==
    {ConfigPath, Sibling(ConfigPath, <<>>, <<"bak">>), Marker} \cup c.sources
    \cup (IF c.userlist = NoPath THEN {}
          ELSE {c.userlist, Sibling(c.userlist, <<>>, <<"bak">>),
                Sibling(c.userlist, <<".">>, <<"lock">>)})
    \cup (IF c.program = NoPath THEN {} ELSE Programs(c.program))
    \cup c.tls

\* pattern.matches_file_name for [dir, prefix]: names that begin with the prefix.
PatternMatches(pattern, p) ==
    Parent(p) = Normalized(pattern.dir) /\ IsPrefix(pattern.prefix, Last(p))

\* windows_service_log_path, resolved.
LogPath(c) == Normalized(IF c.logfile = NoPath THEN DefaultLog ELSE c.logfile)

\* Two names of one file: the pair that is linked, or one name.
SameFile(p, q) == p = q \/ {p, q} \subseteq linked

\* validate_windows_service_log_family_against_files: by name, then by identity.
FilesApart(c, f) ==
    /\ \A p \in Protected(c) : ~IsMember(f, Normalized(p))
    /\ \A p \in Protected(c), m \in Members(f) : ~SameFile(m, Normalized(p))

\* validate_windows_service_active_log_paths.
ActivePathsValid(c, f) ==
    /\ \A p \in Protected(c) \ c.sources : ValidSpelling(p)
    /\ c.program # NoPath => Len(c.program) > 1
    /\ \A pattern \in c.patterns :
          /\ ~ContainsDir(f, Normalized(pattern.dir))
          /\ \A m \in Members(f) : ~PatternMatches(pattern, m)
    /\ FilesApart(c, f)
    /\ \A p \in c.sources : ~TreeConflicts(f, Normalized(p))
    /\ \A p \in c.cache : ValidSpelling(p) /\ ~TreeConflicts(f, Normalized(p))

FamilyOf(c) == [base |-> LogPath(c), keep |-> c.keep]

\* validate_windows_service_logging_paths: the log the configuration itself selects.
LoggingPathsValid(c) ==
    /\ c.logfile # NoPath => ValidSpelling(c.logfile)
    /\ ActivePathsValid(c, FamilyOf(c))

-----------------------------------------------------------------------------
(* run_service.                                                            *)

\* set_stopped: the guard of the log is dropped only after it, on return.
Stop(reason) == service' = "stopped" /\ starting' = reason

LoadServiceConfig ==
    /\ service = "start pending" /\ starting = "load"
    /\ IF onDisk.valid THEN config' = onDisk /\ starting' = "log" /\ UNCHANGED service
       ELSE Stop("config") /\ UNCHANGED config
    /\ UNCHANGED <<onDisk, family, leaving, disturbed, linked, reloads>>

\* init_service_logging.  The directory or the file may also fail to open.
InitServiceLogging ==
    /\ service = "start pending" /\ starting = "log"
    /\ \/ /\ LoggingPathsValid(config)
          /\ family' = FamilyOf(config) /\ disturbed' = FALSE
          /\ starting' = "bind" /\ UNCHANGED service
       \/ Stop("logging") /\ UNCHANGED <<family, disturbed>>
    /\ UNCHANGED <<onDisk, config, leaving, linked, reloads>>

\* The runtime is built and the server bound, or one of them fails.
BindServer ==
    /\ service = "start pending" /\ starting = "bind"
    /\ \/ service' = "running" /\ starting' = "done"
       \/ Stop("bind")
    /\ UNCHANGED <<onDisk, config, family, leaving, disturbed, linked, reloads>>

\* An editor, the wizard or an installer rewrites the configuration.
Edit(c) ==
    /\ reloads < MaxReloads /\ onDisk' = c /\ c # onDisk
    /\ UNCHANGED <<service, starting, config, family, leaving, disturbed, linked, reloads>>

\* Faulty: the reload is checked against the log its configuration would select.
ReloadValid_NextOnly(c) == LoggingPathsValid(c)

\* The reload validator: the log of the next start, and the log now held.
ReloadValid(c) == LoggingPathsValid(c) /\ ActivePathsValid(c, family)

ServiceReload ==
    /\ service = "running" /\ reloads < MaxReloads /\ reloads' = reloads + 1
    /\ IF onDisk.valid /\ ReloadValid(onDisk)
       THEN /\ config' = [onDisk EXCEPT !.logfile = config.logfile, !.keep = config.keep]
            /\ disturbed' = FALSE
       ELSE UNCHANGED <<config, disturbed>>
    /\ UNCHANGED <<service, starting, onDisk, family, leaving, linked>>

\* The active file of f is renamed to .1 and so on, the oldest is removed: names of
\* the linked file move with it.
Rotation(f) ==
    LET moved(p) ==
          IF \E i \in 0 .. f.keep : p = Member(f, i)
          THEN LET i == CHOOSE i \in 0 .. f.keep : p = Member(f, i)
               IN  IF i = f.keep THEN {} ELSE {Member(f, i + 1)}
          ELSE {p}
    IN  linked' = UNION {moved(p) : p \in linked}

Held == family # NoFamily

\* The log worker rotates at a record or at the guard's flush: from
\* init_service_logging to the exit, whatever the status.
Rotate ==
    /\ Held /\ Rotation(family)
    /\ UNCHANGED <<service, starting, onDisk, config, family, leaving, disturbed, reloads>>

\* STOP, SHUTDOWN or a server that fails.
StopRequested ==
    /\ service = "running" /\ service' = "stop pending"
    /\ UNCHANGED <<starting, onDisk, config, family, leaving, disturbed, linked, reloads>>

\* STOPPED is reported while the log is still held.
Stopped ==
    /\ service = "stop pending" /\ service' = "stopped"
    /\ UNCHANGED <<starting, onDisk, config, family, leaving, disturbed, linked, reloads>>

\* run_service returns: LogGuard is dropped, and the process ends.
Exit ==
    /\ service = "stopped" /\ Held /\ family' = NoFamily
    /\ UNCHANGED <<service, starting, onDisk, config, leaving, disturbed, linked, reloads>>

\* The service is started again, after a stop or a failed start, and takes the log
\* the file now selects.  Its predecessor may still have to exit.
Restart ==
    /\ service = "stopped" /\ reloads < MaxReloads
    /\ reloads' = reloads + 1
    /\ service' = "start pending" /\ starting' = "load"
    /\ leaving' = IF Held THEN leaving \cup {[family |-> family, before |-> reloads]} ELSE leaving
    /\ family' = NoFamily
    /\ UNCHANGED <<onDisk, config, disturbed, linked>>

\* A predecessor rotates what it still holds, or exits.
RotateLeaving(old) ==
    /\ Rotation(old.family) /\ disturbed' = TRUE
    /\ UNCHANGED <<service, starting, onDisk, config, family, leaving, reloads>>

ExitLeaving(old) ==
    /\ leaving' = leaving \ {old}
    /\ UNCHANGED <<service, starting, onDisk, config, family, disturbed, linked, reloads>>

ServiceInit ==
    /\ onDisk \in Configs /\ config = onDisk
    /\ service = "start pending" /\ starting = "load"
    /\ family = NoFamily /\ leaving = {} /\ disturbed = FALSE
    /\ linked = HardLink /\ reloads = 0

ServiceNext ==
    \/ LoadServiceConfig \/ InitServiceLogging \/ BindServer
    \/ (\E c \in Configs : Edit(c)) \/ ServiceReload \/ Rotate
    \/ StopRequested \/ Stopped \/ Exit \/ Restart
    \/ \E old \in leaving : RotateLeaving(old) \/ ExitLeaving(old)

ServiceSpec == ServiceInit /\ [][ServiceNext]_serviceVars

-----------------------------------------------------------------------------
(***************************************************************************)
(* From init_service_logging until the process exits or has a successor,   *)
(* also after it reported STOPPED, no file of its log that it may append   *)
(* to, rename or remove is one the configuration in effect reads, writes   *)
(* beside or runs; none is so by another hard-linked name, as long as no   *)
(* predecessor has rotated since the last check; none lies in or above the *)
(* ACME cache; and none would be read as configuration by the next reload. *)
(* Of the log that a predecessor still holds nothing is promised: its      *)
(* successor does not check it.                                            *)
(***************************************************************************)
LogApart ==
    Held =>
      /\ \A m \in Members(family), p \in Protected(config) :
            m # Normalized(p) /\ (~disturbed => ~SameFile(m, Normalized(p)))
      /\ \A m \in Members(family), p \in config.cache :
            ~IsPrefix(Normalized(p), m) /\ ~IsPrefix(m, Normalized(p))
      /\ \A m \in Members(family), pattern \in config.patterns : ~PatternMatches(pattern, m)
=============================================================================
