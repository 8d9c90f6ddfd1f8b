------------------------------- MODULE Server -------------------------------
(***************************************************************************)
(* The accept loop, its connection tasks and the driver that reloads and   *)
(* stops the server (server.rs, runtime.rs), over the abuse controls.      *)
(*                                                                         *)
(* Three kinds of actors run beside each other: the accept loop, one task  *)
(* per connection and the driver.  What they do between two awaits is one  *)
(* step, except where another thread can get in between: admit holds the   *)
(* clients lock over its own read of the limits, and update_config takes   *)
(* the locks of the limits, of the map and of each state one by one.       *)
(*                                                                         *)
(* A definition named after another, with an underscore and a word, is a   *)
(* faulty variant of it: a bug the properties are known to catch.          *)
(***************************************************************************)
EXTENDS Abuse

CONSTANTS
    Tasks,          \* as many as there can be connections
    Configs,        \* what the configuration file may hold
    StartConfig,    \* what it held when the server was bound
    Headers,        \* the PROXY headers that upstreams send
    MaxReloads,     \* bound: reload requests
    MaxPanics       \* bound: tasks that panic

\* RDP leaves the choice of the outbound address to the agent.
validate_startup(config) == config.egress = "rdp" => config.external = "any"

ASSUME BindAssumption ==
    /\ validate_startup(StartConfig)
    /\ {MaxTracked, PruneEvery, MaxCount, MaxReloads} \subseteq Nat \ {0}
    /\ IsFiniteSet(Tasks) /\ IsFiniteSet(Ips) /\ None \notin Ips \cup Tasks
    /\ None \notin ClientStates
    /\ \A h \in Headers : h.source \in Ips
    /\ \A c \in Configs \cup {StartConfig} :
          /\ c = [egress |-> c.egress, external |-> c.external, trusted |-> c.trusted,
                  limits |-> c.limits]
          /\ c.limits \in RateLimits

VARIABLES
    loop,       \* where the accept loop is
    task,       \* the connection tasks
    clientsLock,    \* the task inside admit, or None
    gauge,      \* active_connections of Metrics
    cut,        \* history: tasks that ended without closed_connection
    state,      \* ServerState: configuration, and whose users and command it has
    driver,     \* where the driver is
    loaded,     \* the configuration it is applying
    retune,     \* clients update_config has still to retune
    reloads,    \* reloads begun
    shutdown    \* requested, and signalled to the accept loop

abuseVars == <<limits, clients, admissions>>
taskVars == <<task, clientsLock, gauge, cut>>
driverVars == <<state, driver, loaded, retune, reloads, shutdown>>
vars == <<abuseVars, taskVars, driverVars, loop>>

NoTask == [pc |-> "none", ip |-> None, peer |-> None, config |-> None, users |-> 0, command |-> 0,
           seen |-> None, orphan |-> FALSE]

Running == {t \in Tasks : task[t].pc # "none"}
Admitted == {t \in Tasks : task[t].pc \in {"handshake", "serving", "failing", "refused"}}

\* Server::bind: the start configuration passed validate_startup.
Init ==
    /\ limits = StartConfig.limits
    /\ clients = [ip \in Ips |-> None] /\ admissions = 0
    /\ loop = "accept" /\ task = [t \in Tasks |-> NoTask] /\ clientsLock = None
    /\ gauge = 0 /\ cut = 0
    /\ state = [config |-> StartConfig, generation |-> 0, users |-> 0, command |-> 0]
    /\ driver = "select" /\ loaded = None /\ retune = {}
    /\ reloads = 0
    /\ shutdown = [asked |-> FALSE, signalled |-> FALSE]

-----------------------------------------------------------------------------
(* The accept loop.  Between two connections it waits for a permit of the  *)
(* limiter and for accept; an accept that fails is tried again, at once or *)
(* after a pause, and changes nothing.                                     *)

\* With trusted upstreams only these may connect.
is_trusted_proxy_upstream(config, ip) == ip \in config.trusted

\* Faulty: headers are read from anyone.
SpawnTask_AnyUpstream(t, ip) ==
    /\ loop = "accept" /\ ~shutdown.signalled
    /\ task[t].pc = "none"
    /\ task' = [task EXCEPT ![t] =
            [NoTask EXCEPT !.pc = IF state.config.trusted = {} THEN "admit" ELSE "header",
                           !.ip = ip, !.peer = ip, !.config = state.config,
                           !.users = state.users, !.command = state.command]]
    /\ UNCHANGED <<abuseVars, clientsLock, gauge, cut, driverVars, loop>>

\* One read lock for the whole snapshot; then the task has the permit.  A peer the gate
\* turns away leaves no trace.
SpawnTask(t, ip) ==
    /\ loop = "accept" /\ ~shutdown.signalled
    /\ task[t].pc = "none"
    /\ state.config.trusted # {} => is_trusted_proxy_upstream(state.config, ip)
    /\ task' = [task EXCEPT ![t] =
            [NoTask EXCEPT !.pc = IF state.config.trusted = {} THEN "admit" ELSE "header",
                           !.ip = ip, !.peer = ip, !.config = state.config,
                           !.users = state.users, !.command = state.command]]
    /\ UNCHANGED <<abuseVars, clientsLock, gauge, cut, driverVars, loop>>

StopAccepting ==
    /\ loop = "accept" /\ shutdown.signalled
    /\ loop' = IF Running = {} THEN "done" ELSE "draining"
    /\ UNCHANGED <<abuseVars, taskVars, driverVars>>

\* Faulty: the tasks are only waited for.
DrainTimeout_Never == FALSE

\* shutdown.draintimeout, at once when it is 0.
DrainTimeout ==
    /\ loop = "draining" /\ Running # {}
    /\ loop' = "aborting"
    /\ UNCHANGED <<abuseVars, taskVars, driverVars>>

Drained ==
    /\ loop \in {"draining", "aborting"} /\ Running = {}
    /\ loop' = "done"
    /\ UNCHANGED <<abuseVars, taskVars, driverVars>>

AcceptLoop ==
    \/ \E t \in Tasks, ip \in Ips : SpawnTask(t, ip)
    \/ StopAccepting \/ DrainTimeout \/ Drained

-----------------------------------------------------------------------------
(* The connection tasks.                                                   *)

\* proxy_protocol.rs: the client's address, "peer" for a header without one, or "bad".
\* A header is sound when its version, its fields and its length are.
parse_v1_line(h) ==
    CASE h.command = "UNKNOWN" -> "peer"
      [] h.command # "UNKNOWN" /\ h.sound /\ h.family \in {"inet", "inet6"} -> h.source
      [] OTHER -> "bad"

read_v2(h) ==
    CASE h.command = "LOCAL" /\ h.sound -> "peer"
      [] h.command = "PROXY" /\ h.sound /\ h.family \notin {"inet", "inet6"} -> "peer"
      [] h.command = "PROXY" /\ h.sound /\ h.family \in {"inet", "inet6"} /\ h.stream -> h.source
      [] OTHER -> "bad"

read_header(h) ==
    CASE h.format = "v1" -> parse_v1_line(h)
      [] h.format = "v2" -> read_v2(h)
      [] OTHER -> "bad"

ReadHeader(t, h) ==
    /\ task[t].pc = "header" /\ read_header(h) # "bad"
    /\ task' = [task EXCEPT ![t].pc = "admit",
                            ![t].ip = IF read_header(h) = "peer" THEN @ ELSE read_header(h)]
    /\ UNCHANGED <<abuseVars, clientsLock, gauge, cut, driverVars, loop>>

\* An invalid header, or none within the handshake timeout.
HeaderFails(t) ==
    /\ task[t].pc = "header"
    /\ task' = [task EXCEPT ![t] = NoTask]
    /\ UNCHANGED <<abuseVars, clientsLock, gauge, cut, driverVars, loop>>

\* Faulty: the limits are read before the lock is taken.
AdmitLock_ReadFirst(t) ==
    \/ /\ task[t].pc = "admit" /\ task[t].seen = None
       /\ task' = [task EXCEPT ![t].seen = limits]
       /\ UNCHANGED <<abuseVars, clientsLock, gauge, cut, driverVars, loop>>
    \/ /\ task[t].pc = "admit" /\ task[t].seen # None /\ clientsLock = None
       /\ clientsLock' = t
       /\ task' = [task EXCEPT ![t].pc = "locked"]
       /\ UNCHANGED <<abuseVars, gauge, cut, driverVars, loop>>

\* admit takes the lock of the map and then reads the limits.
AdmitLock(t) ==
    /\ task[t].pc = "admit" /\ clientsLock = None
    /\ clientsLock' = t
    /\ task' = [task EXCEPT ![t].pc = "locked", ![t].seen = limits]
    /\ UNCHANGED <<abuseVars, gauge, cut, driverVars, loop>>

\* A task whose client's entry left the map keeps a state nobody else sees.
Detach(tasks, map) ==
    [t \in Tasks |-> [tasks[t] EXCEPT
        !.orphan = @ \/ (t \in Admitted /\ tasks[t].ip \in Tracked(clients) \ Tracked(map))]]

Decide(t, map) ==
    LET ip == task[t].ip
        refused == Refusal(map[ip], task[t].seen) # "none"
        left == [map EXCEPT ![ip] = Decided(@, task[t].seen)]
    IN  /\ clients' = left
        /\ retune' = retune \ {i \in Ips : map[i] = None}
        /\ task' = [Detach(task, left) EXCEPT ![t] =
              IF refused THEN NoTask
              ELSE [task[t] EXCEPT !.pc = "handshake", !.seen = None]]
        /\ gauge' = IF refused THEN gauge ELSE gauge + 1
        /\ admissions' = count_admission
        /\ clientsLock' = None
        /\ UNCHANGED <<limits, cut, state, driver, loaded, reloads, shutdown, loop>>

Admit(t) ==
    /\ task[t].pc = "locked"
    /\ \E map \in checkout_state(task[t].ip, task[t].seen) : Decide(t, map)

\* TlsListener::accept, when there is one, within the handshake timeout.
Handshake(t) ==
    /\ task[t].pc = "handshake"
    /\ task' = [task EXCEPT ![t].pc = "serving"]
    /\ UNCHANGED <<abuseVars, clientsLock, gauge, cut, driverVars, loop>>

\* Connection::handle meets a wrong password: record_auth_failure reads the limits...
AuthFailureRead(t) ==
    /\ task[t].pc = "serving"
    /\ task' = [task EXCEPT ![t].pc = "failing", ![t].seen = limits]
    /\ UNCHANGED <<abuseVars, clientsLock, gauge, cut, driverVars, loop>>

\* ... and then counts the failure, under the lock of the map.
RecordAuthFailure(t) ==
    /\ task[t].pc = "failing" /\ clientsLock = None
    /\ \E map \in checkout_state(task[t].ip, task[t].seen) :
          /\ clients' = [map EXCEPT ![task[t].ip] = Failed(@, task[t].seen)]
          /\ retune' = retune \ {i \in Ips : map[i] = None}
          /\ task' = [Detach(task, map) EXCEPT ![t] = [@ EXCEPT !.pc = "refused", !.seen = None]]
          /\ admissions' = count_admission
          /\ UNCHANGED <<limits, clientsLock, gauge, cut, state, driver, loaded, reloads, shutdown,
                         loop>>

\* Dropping a ClientPermit releases the state it was given.
Release(t) ==
    clients' = IF task[t].orphan \/ clients[task[t].ip] = None THEN clients
               ELSE [clients EXCEPT ![task[t].ip] = Released(@)]

\* The connection ends, or its TLS handshake does not lead to one.
Close(t) ==
    /\ task[t].pc \in {"handshake", "serving", "refused"}
    /\ gauge' = IF gauge = 0 THEN 0 ELSE gauge - 1
    /\ Release(t)
    /\ task' = [task EXCEPT ![t] = NoTask]
    /\ UNCHANGED <<limits, admissions, clientsLock, cut, driverVars, loop>>

\* A task that ends at an await drops its permits and never reaches closed_connection.
CutTask(t) ==
    /\ task[t].pc \in {"header", "admit", "handshake", "serving", "refused"}
    /\ IF t \in Admitted
       THEN Release(t) /\ cut' = cut + 1
       ELSE clients' = clients /\ cut' = cut
    /\ task' = [task EXCEPT ![t] = NoTask]
    /\ UNCHANGED <<limits, admissions, clientsLock, gauge, driverVars, loop>>

\* conns.shutdown, when the drain timeout has passed.
AbortTask(t) == loop = "aborting" /\ CutTask(t)

\* The panic is caught by the JoinSet.
PanicTask(t) == task[t].pc = "serving" /\ cut < MaxPanics /\ CutTask(t)

Task(t) ==
    \/ \E h \in Headers : ReadHeader(t, h)
    \/ HeaderFails(t) \/ AdmitLock(t) \/ Admit(t) \/ Handshake(t)
    \/ AuthFailureRead(t) \/ RecordAuthFailure(t) \/ Close(t)
    \/ AbortTask(t) \/ PanicTask(t)

-----------------------------------------------------------------------------
(* The driver, and the requests that reach it.                             *)

RequestShutdown ==
    /\ ~shutdown.asked
    /\ shutdown' = [shutdown EXCEPT !.asked = TRUE]
    /\ UNCHANGED <<abuseVars, taskVars, state, driver, loaded, retune, reloads, loop>>

\* A reload request that waited in its channel.  The file is read on a thread of its own.
BeginReload ==
    /\ driver = "select" /\ reloads < MaxReloads
    /\ reloads' = reloads + 1
    /\ driver' = "loading"
    /\ UNCHANGED <<abuseVars, taskVars, state, loaded, retune, shutdown, loop>>

\* preserve_process_config: what only a restart may change.
preserve_process_config(config) == [config EXCEPT !.egress = StartConfig.egress]

\* prepare_effective_reload_config: validated as it will be in effect; then its users are read.
LoadConfig(config) ==
    /\ driver = "loading"
    /\ validate_startup(preserve_process_config(config))
    /\ loaded' = preserve_process_config(config)
    /\ driver' = "lock"
    /\ UNCHANGED <<abuseVars, taskVars, state, retune, reloads, shutdown, loop>>

\* The file or the userlist cannot be read, or the configuration is refused.
ReloadFails ==
    /\ driver = "loading"
    /\ driver' = "select"
    /\ UNCHANGED <<abuseVars, taskVars, state, loaded, retune, reloads, shutdown, loop>>

\* The write lock of the state is the last await: nothing below can be cancelled.
SwapState ==
    /\ driver = "lock"
    /\ state' = [config |-> loaded, generation |-> reloads, users |-> reloads, command |-> reloads]
    /\ driver' = "limits"
    /\ UNCHANGED <<abuseVars, taskVars, loaded, retune, reloads, shutdown, loop>>

\* update_config: the limits, ...
SetLimits ==
    /\ driver = "limits"
    /\ limits' = loaded.limits
    /\ driver' = "snapshot"
    /\ UNCHANGED <<clients, admissions, taskVars, state, loaded, retune, reloads, shutdown, loop>>

\* ... the clients of the moment, ...
SnapshotClients ==
    /\ driver = "snapshot" /\ clientsLock = None
    /\ retune' = Tracked(clients)
    /\ driver' = "retune"
    /\ UNCHANGED <<abuseVars, taskVars, state, loaded, reloads, shutdown, loop>>

\* ... and each of their buckets.
RetuneClient(ip) ==
    /\ driver = "retune" /\ ip \in retune
    /\ clients' = [clients EXCEPT ![ip] = reconcile_bandwidth(@, loaded.limits)]
    /\ retune' = retune \ {ip}
    /\ UNCHANGED <<limits, admissions, taskVars, state, driver, loaded, reloads, shutdown, loop>>

ReloadEnds ==
    /\ driver = "retune" /\ retune = {}
    /\ driver' = "select" /\ loaded' = None
    /\ UNCHANGED <<abuseVars, taskVars, state, retune, reloads, shutdown, loop>>

\* The stop wins over a reload that has not reached its last await.
BeginShutdown ==
    /\ driver \in {"select", "loading", "lock"} /\ shutdown.asked
    /\ shutdown' = [shutdown EXCEPT !.signalled = TRUE]
    /\ driver' = "stopping" /\ loaded' = None
    /\ UNCHANGED <<abuseVars, taskVars, state, retune, reloads, loop>>

ServerReturns ==
    /\ driver = "stopping" /\ loop = "done"
    /\ driver' = "returned"
    /\ UNCHANGED <<abuseVars, taskVars, state, loaded, retune, reloads, shutdown, loop>>

Driver ==
    \/ BeginReload \/ (\E config \in Configs : LoadConfig(config)) \/ ReloadFails
    \/ SwapState \/ SetLimits \/ SnapshotClients \/ (\E ip \in Ips : RetuneClient(ip))
    \/ ReloadEnds \/ BeginShutdown \/ ServerReturns

-----------------------------------------------------------------------------
Clock ==
    /\ \E ip \in Ips, kind \in {"connections", "authFailures"} : WindowEnds(ip, kind)
    /\ UNCHANGED <<taskVars, driverVars, loop>>

Next ==
    \/ AcceptLoop \/ (\E t \in Tasks : Task(t)) \/ Driver \/ Clock
    \/ RequestShutdown

Spec == Init /\ [][Next]_vars

(***************************************************************************)
(* The runtime polls what can run, timers fire, and who waits for the      *)
(* clients lock gets it although others take it in between.  The reads of  *)
(* a reload need not return, and no connection need end before it is       *)
(* aborted.                                                                *)
(***************************************************************************)
Fairness ==
    /\ WF_vars(StopAccepting \/ DrainTimeout \/ Drained)
    /\ \A t \in Tasks : SF_vars(AdmitLock(t) \/ RecordAuthFailure(t)) /\ WF_vars(Admit(t) \/ AbortTask(t))
    /\ SF_vars(SnapshotClients)
    /\ WF_vars(SwapState \/ SetLimits \/ ReloadEnds \/ BeginShutdown \/ ServerReturns
               \/ \E ip \in Ips : RetuneClient(ip))

FairSpec == Spec /\ Fairness

-----------------------------------------------------------------------------
(***************************************************************************)
(* Type correctness.                                                       *)
(***************************************************************************)
TypeOK ==
    /\ loop \in {"accept", "draining", "aborting", "done"}
    /\ driver \in {"select", "loading", "lock", "limits", "snapshot", "retune",
                   "stopping", "returned"}
    /\ clientsLock \in Tasks \cup {None}
    /\ gauge \in 0 .. Cardinality(Tasks) + cut
    /\ retune \subseteq Ips
    /\ \A t \in Tasks : task[t].pc \in {"none", "header", "admit", "locked", "handshake", "serving",
                                        "failing", "refused"}

(***************************************************************************)
(* One state per client: his connections are all counted in the entry that *)
(* admit will look at next, whatever was pruned or evicted meanwhile, so   *)
(* the limit on concurrent connections cannot be split or leak.            *)
(***************************************************************************)
ConnectionsAccounted ==
    \A ip \in Ips :
        Cardinality({t \in Admitted : task[t].ip = ip})
            = IF clients[ip] = None THEN 0 ELSE clients[ip].active

(***************************************************************************)
(* update_config against admit: when no reload is being applied, the       *)
(* limits are those of the configuration in force, and no bucket a client  *)
(* shares has been left at, or reverted to, an older rate.                 *)
(***************************************************************************)
LimitsApplied ==
    driver \notin {"limits", "snapshot", "retune"} =>
        /\ limits = state.config.limits
        /\ \A ip \in Tracked(clients) :
              clients[ip].bucket # 0 /\ clientsLock = None => clients[ip].bucket = limits.byteRate

(***************************************************************************)
(* A reload is all or nothing: what is in force is a configuration that is *)
(* valid with the settings only a restart may change, and each connection  *)
(* has the users and the command of its own configuration.                 *)
(***************************************************************************)
ReloadWhole ==
    /\ validate_startup(state.config) /\ state.config.egress = StartConfig.egress
    /\ state.users = state.generation /\ state.command = state.generation
    /\ \A t \in Running : task[t].users = task[t].command

(***************************************************************************)
(* The address a client is admitted under comes from a header only when    *)
(* the configuration the connection runs under trusts who sent it, and     *)
(* then no one else gets in.                                               *)
(***************************************************************************)
SourceTrusted ==
    \A t \in Running :
        /\ task[t].ip # task[t].peer => task[t].peer \in task[t].config.trusted
        /\ task[t].config.trusted # {} => task[t].peer \in task[t].config.trusted

(***************************************************************************)
(* The gauge of active connections counts the admitted ones, and for good  *)
(* each task that panicked or was aborted: that drift is the code's, and   *)
(* nothing else adds to it.                                                *)
(***************************************************************************)
GaugeExact == gauge = Cardinality(Admitted) + cut

(***************************************************************************)
(* Every connection is counted once where the limits look, through         *)
(* reloads, evictions, panics and aborts, and once where the operator      *)
(* looks, where the panicked and the aborted ones stay counted.            *)
(***************************************************************************)
Accounted == TypeOK /\ ConnectionsAccounted /\ GaugeExact

(***************************************************************************)
(* Each connection runs under one configuration: what is in force is       *)
(* whole, its users and its command belong together, and it is the one     *)
(* whose upstreams the address of the client was taken from.               *)
(***************************************************************************)
OneConfiguration == ReloadWhole /\ SourceTrusted

(***************************************************************************)
(* A requested shutdown ends the server, whatever its clients do and       *)
(* whatever a reload is waiting for.                                       *)
(***************************************************************************)
ShutdownEnds == shutdown.asked ~> driver = "returned"
=============================================================================
