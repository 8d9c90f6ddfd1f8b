---------------------------- MODULE ServerProofs ----------------------------
(***************************************************************************)
(* The server and its abuse controls, for any number of connection tasks,  *)
(* addresses, configurations and reloads: what the limits count, what a    *)
(* reload leaves in force, and whose word is taken for a client's address. *)
(***************************************************************************)
EXTENDS Server, FiniteSetTheorems, TLAPS

USE BindAssumption

\* What may be in force: the configuration of the start, and those a reload accepts.
InForce ==
    {StartConfig} \cup
    {preserve_process_config(c) : c \in {c \in Configs : validate_startup(preserve_process_config(c))}}

TaskStates ==
    [pc : {"none", "header", "admit", "locked", "handshake", "serving", "failing", "refused"},
     ip : Ips \cup {None}, peer : Ips \cup {None}, config : InForce \cup {None},
     users : Nat, command : Nat, seen : RateLimits \cup {None}, orphan : BOOLEAN]

Types ==
    /\ clients \in [Ips -> ClientStates \cup {None}] /\ limits \in RateLimits
    /\ task \in [Tasks -> TaskStates] /\ clientsLock \in Tasks \cup {None}
    /\ gauge \in Nat /\ cut \in Nat /\ reloads \in Nat
    /\ state \in [config : InForce, generation : Nat, users : Nat, command : Nat]
    /\ loop \in {"accept", "draining", "aborting", "done"}
    /\ driver \in {"select", "loading", "lock", "limits", "snapshot", "retune", "stopping", "returned"}

\* A running task knows its client, and holds the lock in admit only.  No task
\* has a state that is not in the map.
TasksSound ==
    \A t \in Tasks :
        /\ task[t].pc # "none" => task[t].ip \in Ips /\ task[t].peer \in Ips /\ task[t].config \in InForce
        /\ task[t].pc \in {"locked", "failing"} => task[t].seen \in RateLimits
        /\ task[t].pc = "locked" <=> clientsLock = t
        /\ ~task[t].orphan

\* The driver applies what LoadConfig accepted.
DriverSound ==
    /\ driver \in {"lock", "limits", "snapshot", "retune"} => loaded \in InForce
    /\ driver \in {"limits", "snapshot", "retune"} => loaded = state.config
    /\ driver # "limits" => limits = state.config.limits
    /\ retune \subseteq Tracked(clients) /\ (driver # "retune" => retune = {})

\* Between SetLimits and SnapshotClients a task in admit may still have the
\* limits of before, and leave its client's bucket at their rate; the
\* snapshot waits for that task, so the client is retuned.
BucketsSound ==
    /\ driver # "snapshot" =>
          \A t \in Tasks : task[t].pc = "locked" => task[t].seen = limits
    /\ driver # "snapshot" =>
          \A ip \in Tracked(clients) \ retune :
              clients[ip].bucket # 0 => clients[ip].bucket = limits.byteRate

\* Only a task whose configuration has trusted upstreams reads a header.
SourceSound ==
    /\ state.users = state.generation /\ state.command = state.generation
    /\ \A t \in Running :
          /\ task[t].users = task[t].command
          /\ task[t].pc = "header" => task[t].config.trusted # {}
          /\ task[t].ip # task[t].peer => task[t].peer \in task[t].config.trusted
          /\ task[t].config.trusted # {} => task[t].peer \in task[t].config.trusted

ServerInv ==
    /\ Types /\ TasksSound /\ DriverSound /\ BucketsSound /\ SourceSound
    /\ ConnectionsAccounted /\ GaugeExact

-----------------------------------------------------------------------------
(***************************************************************************)
(* Configurations.                                                         *)
(***************************************************************************)

LEMMA InForceFacts ==
  ASSUME NEW c \in InForce
  PROVE  validate_startup(c) /\ c.egress = StartConfig.egress /\ c.limits \in RateLimits
<1>1. CASE c = StartConfig
  BY <1>1
<1>2. ASSUME NEW d \in Configs, c = preserve_process_config(d),
             validate_startup(preserve_process_config(d))
      PROVE  validate_startup(c) /\ c.egress = StartConfig.egress /\ c.limits \in RateLimits
  <2>1. d = [egress |-> d.egress, external |-> d.external, trusted |-> d.trusted, limits |-> d.limits]
        /\ d.limits \in RateLimits
    OBVIOUS
  <2>2. c = [egress |-> StartConfig.egress, external |-> d.external, trusted |-> d.trusted,
             limits |-> d.limits]
    BY <1>2, <2>1 DEF preserve_process_config
  <2> QED
    BY <1>2, <2>1, <2>2
<1> QED
  BY <1>1, <1>2 DEF InForce

-----------------------------------------------------------------------------
(***************************************************************************)
(* The operators of the abuse controls.                                    *)
(***************************************************************************)

ActiveOf(c) == IF c = None THEN 0 ELSE c.active

LEMMA WindowTypes ==
  ASSUME NEW w \in Windows, NEW n \in Nat
  PROVE  reset_if_expired(w) \in Windows /\ increment_window(w, n) \in Windows
<1>1. reset_if_expired(w) \in Windows
  BY DEF reset_if_expired, NewWindow, Windows
<1>2. ASSUME NEW x \in Windows PROVE [x EXCEPT !.count = Least(@ + 1, MaxCount)] \in Windows
  <2>1. x.count \in Nat /\ Least(x.count + 1, MaxCount) \in Nat
    BY DEF Windows, Least
  <2> QED
    BY <2>1 DEF Windows
<1> QED
  BY <1>1, <1>2 DEF increment_window

LEMMA DecidedFacts ==
  ASSUME NEW c \in ClientStates, NEW l \in RateLimits
  PROVE  /\ Decided(c, l) \in ClientStates
         /\ Refusal(c, l) # "none" => Decided(c, l).active = c.active /\ Decided(c, l).bucket = c.bucket
         /\ Refusal(c, l) = "none" => Decided(c, l).active = c.active + 1
                                      /\ Decided(c, l).bucket = l.byteRate
<1> DEFINE failures == IF l.authFailureRate = 0 THEN c.authFailures ELSE reset_if_expired(c.authFailures)
           count == increment_window(c.connections, l.connectionRate)
<1>1. failures \in Windows /\ count \in Windows /\ c.connections \in Windows /\ c.active \in Nat
      /\ c.bucket \in Nat /\ l.byteRate \in Nat
  BY WindowTypes DEF ClientStates, RateLimits
<1> DEFINE seen == [c EXCEPT !.authFailures = failures]
           counted == [seen EXCEPT !.connections = increment_window(@, l.connectionRate)]
<1>2. seen = [connections |-> c.connections, authFailures |-> failures, active |-> c.active, bucket |-> c.bucket]
  BY DEF ClientStates
<1> HIDE DEF failures
<1>3. counted = [connections |-> count, authFailures |-> failures, active |-> c.active, bucket |-> c.bucket]
  <2>1. counted = [seen EXCEPT !.connections = increment_window(seen.connections, l.connectionRate)]
    OBVIOUS
  <2>2. seen.connections = c.connections
    BY <1>2
  <2> HIDE DEF seen, counted
  <2> QED
    BY <1>2, <2>1, <2>2
<1> HIDE DEF seen, counted, count
<1>4. reconcile_bandwidth([counted EXCEPT !.active = @ + 1], l)
        = [connections |-> count, authFailures |-> failures, active |-> c.active + 1, bucket |-> l.byteRate]
  <2>1. [counted EXCEPT !.active = @ + 1]
          = [connections |-> count, authFailures |-> failures, active |-> c.active + 1, bucket |-> c.bucket]
    BY <1>3
  <2> DEFINE more == [counted EXCEPT !.active = @ + 1]
  <2>2. more = [connections |-> count, authFailures |-> failures, active |-> c.active + 1, bucket |-> c.bucket]
    BY <2>1
  <2> HIDE DEF more
  <2>3. [more EXCEPT !.bucket = l.byteRate]
          = [connections |-> count, authFailures |-> failures, active |-> c.active + 1, bucket |-> l.byteRate]
    BY <2>2
  <2> QED
    BY <2>3 DEF reconcile_bandwidth, more
<1>5. Refusal(c, l) \in {"authFailureRate", "concurrentConnections", "connectionRate", "none"}
  BY DEF Refusal
<1>6. Decided(c, l) = CASE Refusal(c, l) \in {"authFailureRate", "concurrentConnections"} -> seen
                        [] Refusal(c, l) = "connectionRate" -> counted
                        [] Refusal(c, l) = "none" -> reconcile_bandwidth([counted EXCEPT !.active = @ + 1], l)
  BY DEF Decided, seen, counted, failures
<1>7. CASE Refusal(c, l) \in {"authFailureRate", "concurrentConnections"}
  BY <1>1, <1>2, <1>6, <1>7 DEF ClientStates
<1>8. CASE Refusal(c, l) = "connectionRate"
  BY <1>1, <1>3, <1>6, <1>8 DEF ClientStates
<1>9. CASE Refusal(c, l) = "none"
  BY <1>1, <1>4, <1>6, <1>9 DEF ClientStates
<1> QED
  BY <1>5, <1>7, <1>8, <1>9

LEMMA FailedFacts ==
  ASSUME NEW c \in ClientStates, NEW l \in RateLimits
  PROVE  Failed(c, l) \in ClientStates /\ Failed(c, l).active = c.active /\ Failed(c, l).bucket = c.bucket
<1>1. increment_window(c.authFailures, l.authFailureRate) \in Windows
  BY WindowTypes DEF ClientStates, RateLimits
<1> QED
  BY <1>1 DEF Failed, ClientStates

\* Looking up or creating the state of a client takes away only states that
\* count no connection, and adds only the new one.
Checked(map, ip) ==
    /\ map \in [Ips -> ClientStates \cup {None}] /\ map[ip] # None
    /\ \A i \in Ips : \/ map[i] = clients[i]
                      \/ map[i] = None /\ clients[i].active = 0
                      \/ map[i] = NewClient /\ i = ip /\ ActiveOf(clients[i]) = 0

LEMMA CheckoutFacts ==
  ASSUME clients \in [Ips -> ClientStates \cup {None}], NEW ip \in Ips, NEW config,
         NEW map \in checkout_state(ip, config)
  PROVE  Checked(map, ip)
<1> DEFINE Less(m) == /\ m \in [Ips -> ClientStates \cup {None}]
                      /\ \A i \in Ips : m[i] = clients[i] \/ (m[i] = None /\ clients[i].active = 0)
           swept == IF admissions = 0
                    THEN {prune_expired_clients(clients, config, full) : full \in SUBSET Ips}
                    ELSE {clients}
           room(m) == IF Cardinality(Tracked(m)) >= MaxTracked /\ m[ip] = None
                      THEN evict_idle_clients(m)
                      ELSE {m}
<1>1. ASSUME NEW m \in swept PROVE Less(m)
  BY <1>1 DEF prune_expired_clients, is_expired
<1>2. ASSUME NEW m, Less(m), NEW n \in room(m) PROVE Less(n)
  <2>1. CASE n = m
    BY <1>2, <2>1
  <2>2. ASSUME NEW i \in Tracked(m), m[i].active = 0, n = [j \in Ips |-> IF j = i THEN None ELSE m[j]]
        PROVE  Less(n)
    BY <1>2, <2>2 DEF Tracked
  <2> QED
    BY <1>2, <2>1, <2>2 DEF evict_idle_clients
<1> HIDE DEF swept, room
<1>3. PICK m \in UNION {room(m) : m \in swept} :
          map = [i \in Ips |-> IF i = ip /\ m[i] = None THEN NewClient ELSE m[i]]
  BY DEF checkout_state, swept, room
<1>4. Less(m)
  BY <1>1, <1>2, <1>3
<1>5. NewClient \in ClientStates /\ NewClient # None
  <2>1. NewWindow \in Windows
    BY DEF NewWindow, Windows
  <2>2. NewClient \in ClientStates
    BY <2>1 DEF NewClient, ClientStates
  <2> QED
    BY <2>2
<1> QED
  BY <1>3, <1>4, <1>5 DEF Checked, ActiveOf

-----------------------------------------------------------------------------
(***************************************************************************)
(* Counting.                                                               *)
(***************************************************************************)

\* The tasks that count against a client.
Of(ip) == {t \in Admitted : task[t].ip = ip}

LEMMA SetsFinite == /\ IsFiniteSet(Admitted) /\ Cardinality(Admitted) \in Nat
                    /\ \A ip \in Ips : IsFiniteSet(Of(ip)) /\ Cardinality(Of(ip)) \in Nat
<1>1. Admitted \in SUBSET Tasks /\ \A ip \in Ips : Of(ip) \in SUBSET Tasks
  BY DEF Admitted, Of
<1> QED
  BY <1>1, FS_Subset, FS_CardinalityType

\* An entry that counts no connection has no admitted task.
LEMMA IdleEntry ==
  ASSUME Types, TasksSound, ConnectionsAccounted, NEW ip \in Ips, ActiveOf(clients[ip]) = 0,
         NEW t \in Admitted
  PROVE  task[t].ip # ip
<1>1. Cardinality(Of(ip)) = 0
  BY DEF ConnectionsAccounted, ActiveOf, Of
<1> QED
  BY <1>1, SetsFinite, FS_EmptySet DEF Of

\* No step takes the state away from under an admitted task.
LEMMA NobodyDetached ==
  ASSUME Types, TasksSound, ConnectionsAccounted, NEW ip \in Ips, NEW map, Checked(map, ip),
         NEW left, \A i \in Ips : map[i] # None => left[i] # None
  PROVE  Detach(task, left) = task
<1>1. ASSUME NEW t \in Admitted PROVE task[t].ip \notin Tracked(clients) \ Tracked(left)
  <2> SUFFICES ASSUME task[t].ip \in Ips, clients[task[t].ip] # None, left[task[t].ip] = None PROVE FALSE
    BY DEF Tracked
  <2>1. map[task[t].ip] = None /\ clients[task[t].ip].active = 0
    BY DEF Checked
  <2> QED
    BY <2>1, IdleEntry DEF ActiveOf
<1>2. ASSUME NEW t \in Tasks
      PROVE  [task[t] EXCEPT !.orphan = @ \/ (t \in Admitted /\ task[t].ip \in Tracked(clients) \ Tracked(left))]
               = task[t]
  <2>1. task[t].orphan = FALSE
    BY DEF TasksSound, Types, TaskStates
  <2>2. (task[t].orphan \/ (t \in Admitted /\ task[t].ip \in Tracked(clients) \ Tracked(left))) = FALSE
    BY <1>1, <2>1
  <2>3. task[t] \in TaskStates
    BY DEF Types
  <2> QED
    BY <2>1, <2>2, <2>3 DEF TaskStates
<1> QED
  BY <1>2 DEF Detach, Types

\* A step that neither admits nor ends an admitted task.
LEMMA CountsFrame ==
  ASSUME ConnectionsAccounted, GaugeExact, Admitted' = Admitted, UNCHANGED <<gauge, cut>>,
         \A t \in Admitted : task'[t].ip = task[t].ip,
         \A ip \in Ips : ActiveOf(clients'[ip]) = ActiveOf(clients[ip])
  PROVE  ConnectionsAccounted' /\ GaugeExact'
<1>1. \A ip \in Ips : Of(ip)' = Of(ip)
  BY DEF Of
<1>2. ConnectionsAccounted'
  BY <1>1 DEF ConnectionsAccounted, ActiveOf, Of
<1> QED
  BY <1>2 DEF GaugeExact

\* A task is admitted: it is counted once more, here and in the gauge.
LEMMA CountsAdmit ==
  ASSUME Types, ConnectionsAccounted, GaugeExact, NEW t \in Tasks, t \notin Admitted,
         NEW ip \in Ips, Admitted' = Admitted \cup {t}, task'[t].ip = ip,
         \A u \in Admitted : task'[u].ip = task[u].ip,
         gauge' = gauge + 1, cut' = cut,
         ActiveOf(clients'[ip]) = ActiveOf(clients[ip]) + 1,
         \A i \in Ips \ {ip} : ActiveOf(clients'[i]) = ActiveOf(clients[i])
  PROVE  ConnectionsAccounted' /\ GaugeExact'
<1>1. Of(ip)' = Of(ip) \cup {t} /\ t \notin Of(ip) /\ \A i \in Ips \ {ip} : Of(i)' = Of(i)
  BY DEF Of
<1>2. Cardinality(Of(ip) \cup {t}) = Cardinality(Of(ip)) + 1
      /\ Cardinality(Admitted \cup {t}) = Cardinality(Admitted) + 1
  BY <1>1, SetsFinite, FS_AddElement
<1>3. \A i \in Ips : Cardinality(Of(i)) = ActiveOf(clients[i])
  BY DEF ConnectionsAccounted, ActiveOf, Of
<1>4. \A i \in Ips : Cardinality(Of(i)') = ActiveOf(clients'[i])
  BY <1>1, <1>2, <1>3
<1>5. ConnectionsAccounted'
  BY <1>4 DEF ConnectionsAccounted, ActiveOf, Of
<1>6. GaugeExact'
  BY <1>2, SetsFinite DEF GaugeExact, Types
<1> QED
  BY <1>5, <1>6

\* An admitted task ends: closed_connection lowers the gauge, or the task is
\* one of those that never reach it.
LEMMA CountsEnd ==
  ASSUME Types, ConnectionsAccounted, GaugeExact, NEW t \in Admitted,
         NEW ip \in Ips, task[t].ip = ip, Admitted' = Admitted \ {t},
         \A u \in Admitted \ {t} : task'[u].ip = task[u].ip,
         \/ gauge' = (IF gauge = 0 THEN 0 ELSE gauge - 1) /\ cut' = cut
         \/ gauge' = gauge /\ cut' = cut + 1,
         ActiveOf(clients'[ip]) = (IF ActiveOf(clients[ip]) = 0 THEN 0 ELSE ActiveOf(clients[ip]) - 1),
         \A i \in Ips \ {ip} : ActiveOf(clients'[i]) = ActiveOf(clients[i])
  PROVE  ConnectionsAccounted' /\ GaugeExact'
<1>1. Of(ip)' = Of(ip) \ {t} /\ t \in Of(ip) /\ \A i \in Ips \ {ip} : Of(i)' = Of(i)
  BY DEF Of
<1>2. Cardinality(Of(ip) \ {t}) = Cardinality(Of(ip)) - 1
      /\ Cardinality(Admitted \ {t}) = Cardinality(Admitted) - 1
      /\ Cardinality(Of(ip)) # 0 /\ Cardinality(Admitted) # 0
  BY <1>1, SetsFinite, FS_RemoveElement, FS_EmptySet
<1>3. \A i \in Ips : Cardinality(Of(i)) = ActiveOf(clients[i])
  BY DEF ConnectionsAccounted, ActiveOf, Of
<1>4. \A i \in Ips : Cardinality(Of(i)') = ActiveOf(clients'[i])
  BY <1>1, <1>2, <1>3
<1>5. ConnectionsAccounted'
  BY <1>4 DEF ConnectionsAccounted, ActiveOf, Of
<1>6. GaugeExact'
  BY <1>2, SetsFinite DEF GaugeExact, Types
<1> QED
  BY <1>5, <1>6

-----------------------------------------------------------------------------
(***************************************************************************)
(* The steps.                                                              *)
(***************************************************************************)

LEMMA ServerStart == Init => ServerInv
<1> SUFFICES ASSUME Init PROVE ServerInv
  OBVIOUS
<1>1. StartConfig \in InForce /\ StartConfig.limits \in RateLimits
  BY DEF InForce
<1>2. NoTask \in TaskStates
  BY DEF NoTask, TaskStates
<1>3. Types
  BY <1>1, <1>2 DEF Init, Types
<1>4. TasksSound /\ SourceSound
  BY DEF Init, TasksSound, SourceSound, NoTask, Running
<1>5. DriverSound /\ BucketsSound
  BY <1>1 DEF Init, DriverSound, BucketsSound, Tracked, NoTask
<1>6. Admitted = {} /\ \A ip \in Ips : Of(ip) = {}
  BY DEF Init, Admitted, Of, NoTask
<1>7. ConnectionsAccounted /\ GaugeExact
  BY <1>6, FS_EmptySet DEF Init, ConnectionsAccounted, GaugeExact, Of
<1> QED
  BY <1>3, <1>4, <1>5, <1>7 DEF ServerInv

\* A step of one task that is neither admitted by it nor ends by it, and
\* that touches nothing but the task and the lock.
LEMMA QuietTaskStep ==
  ASSUME ServerInv, NEW t \in Tasks, NEW new \in TaskStates,
         task' = [task EXCEPT ![t] = new],
         UNCHANGED <<abuseVars, gauge, cut, driverVars, loop>>,
         t \in Admitted <=> new.pc \in {"handshake", "serving", "failing", "refused"},
         t \in Admitted => new.ip = task[t].ip,
         clientsLock' \in Tasks \cup {None},
         \A u \in Tasks : task'[u].pc = "locked" <=> clientsLock' = u,
         new.pc # "none" => new.ip \in Ips /\ new.peer \in Ips /\ new.config \in InForce,
         new.pc \in {"locked", "failing"} => new.seen \in RateLimits,
         new.pc = "locked" => new.seen = limits,
         ~new.orphan,
         new.pc # "none" =>
             /\ new.users = new.command
             /\ new.pc = "header" => new.config.trusted # {}
             /\ new.ip # new.peer => new.peer \in new.config.trusted
             /\ new.config.trusted # {} => new.peer \in new.config.trusted
  PROVE  ServerInv'
<1> USE DEF ServerInv, abuseVars, driverVars
<1>1. Types'
  BY DEF Types
<1>2. task'[t] = new /\ \A u \in Tasks \ {t} : task'[u] = task[u]
  BY DEF Types
<1>3. TasksSound'
  BY <1>2 DEF TasksSound
<1>4. DriverSound'
  BY DEF DriverSound, Tracked
<1>5. BucketsSound'
  BY <1>2 DEF BucketsSound, Tracked
<1>6. SourceSound'
  BY <1>2 DEF SourceSound, Running
<1>7. Admitted' = Admitted
  BY <1>2 DEF Admitted
<1>8. ConnectionsAccounted' /\ GaugeExact'
  BY <1>2, <1>7, CountsFrame DEF Admitted
<1> QED
  BY <1>1, <1>3, <1>4, <1>5, <1>6, <1>8

LEMMA SpawnKeeps ==
  ASSUME ServerInv, NEW t \in Tasks, NEW ip \in Ips, SpawnTask(t, ip)
  PROVE  ServerInv'
<1> DEFINE pc == IF state.config.trusted = {} THEN "admit" ELSE "header"
           new == [NoTask EXCEPT !.pc = pc, !.ip = ip, !.peer = ip, !.config = state.config,
                                 !.users = state.users, !.command = state.command]
<1>1. state.config \in InForce /\ state.users \in Nat /\ state.command \in Nat
      /\ state.users = state.command
  BY DEF ServerInv, Types, SourceSound
<1>2. NoTask \in TaskStates /\ pc \in {"admit", "header"}
  BY DEF NoTask, TaskStates
<1>3. /\ new \in TaskStates /\ new.pc = pc /\ new.ip = ip /\ new.peer = ip /\ new.config = state.config
      /\ new.users = state.users /\ new.command = state.command /\ ~new.orphan
  <2>1. ~NoTask.orphan
    BY DEF NoTask
  <2> HIDE DEF pc
  <2> QED
    BY <1>1, <1>2, <2>1 DEF TaskStates
<1>4. task' = [task EXCEPT ![t] = new] /\ task[t].pc = "none"
      /\ UNCHANGED <<abuseVars, clientsLock, gauge, cut, driverVars, loop>>
      /\ (state.config.trusted # {} => ip \in state.config.trusted)
  BY DEF SpawnTask, is_trusted_proxy_upstream
<1> HIDE DEF new
<1>5. clientsLock' \in Tasks \cup {None} /\ \A u \in Tasks : task'[u].pc = "locked" <=> clientsLock' = u
  BY <1>2, <1>3, <1>4 DEF ServerInv, Types, TasksSound
<1>6. t \notin Admitted
  BY <1>4 DEF Admitted
<1> QED
  BY <1>1, <1>2, <1>3, <1>4, <1>5, <1>6, QuietTaskStep

LEMMA HeaderKeeps ==
  ASSUME ServerInv, NEW t \in Tasks, (\E h \in Headers : ReadHeader(t, h)) \/ HeaderFails(t)
  PROVE  ServerInv'
<1> USE DEF ServerInv
<1>1. task[t] \in TaskStates /\ task[t].pc = "header" /\ t \notin Admitted
      /\ UNCHANGED <<abuseVars, clientsLock, gauge, cut, driverVars, loop>>
  BY DEF Types, ReadHeader, HeaderFails, Admitted
<1>2. task[t].ip \in Ips /\ task[t].peer \in Ips /\ task[t].config \in InForce /\ ~task[t].orphan
      /\ task[t].users = task[t].command /\ task[t].peer \in task[t].config.trusted
  BY <1>1 DEF TasksSound, SourceSound, Running
<1>3. ASSUME NEW h \in Headers, ReadHeader(t, h) PROVE ServerInv'
  <2> DEFINE ip == IF read_header(h) = "peer" THEN task[t].ip ELSE read_header(h)
             new == [task[t] EXCEPT !.pc = "admit", !.ip = ip]
  <2>1. ip \in Ips
    <3>1. read_header(h) \in Ips \cup {"peer", "bad"} /\ read_header(h) # "bad"
      BY <1>3 DEF ReadHeader, read_header, parse_v1_line, read_v2
    <3> QED
      BY <1>2, <3>1
  <2>2. task' = [task EXCEPT ![t] = new]
    BY <1>3 DEF ReadHeader, Types
  <2> HIDE DEF ip
  <2>3. new \in TaskStates /\ new.pc = "admit" /\ new.ip = ip /\ new.peer = task[t].peer
        /\ new.config = task[t].config /\ new.users = task[t].users /\ new.command = task[t].command
        /\ new.orphan = task[t].orphan
    BY <1>1, <2>1 DEF TaskStates
  <2> HIDE DEF new
  <2>4. clientsLock' \in Tasks \cup {None} /\ \A u \in Tasks : task'[u].pc = "locked" <=> clientsLock' = u
    BY <1>1, <2>2, <2>3 DEF Types, TasksSound
  <2> QED
    BY <1>1, <1>2, <2>1, <2>2, <2>3, <2>4, QuietTaskStep
<1>4. ASSUME HeaderFails(t) PROVE ServerInv'
  <2>1. task' = [task EXCEPT ![t] = NoTask]
    BY <1>4 DEF HeaderFails
  <2>2. NoTask \in TaskStates /\ NoTask.pc = "none" /\ ~NoTask.orphan
    BY DEF NoTask, TaskStates
  <2>3. clientsLock' \in Tasks \cup {None} /\ \A u \in Tasks : task'[u].pc = "locked" <=> clientsLock' = u
    BY <1>1, <2>1, <2>2 DEF Types, TasksSound
  <2> QED
    BY <1>1, <2>1, <2>2, <2>3, QuietTaskStep
<1> QED
  BY <1>3, <1>4

LEMMA LockKeeps ==
  ASSUME ServerInv, NEW t \in Tasks, AdmitLock(t) \/ Handshake(t) \/ AuthFailureRead(t)
  PROVE  ServerInv'
<1> USE DEF ServerInv
<1>1. task[t] \in TaskStates /\ UNCHANGED <<abuseVars, gauge, cut, driverVars, loop>>
      /\ limits \in RateLimits
  BY DEF Types, AdmitLock, Handshake, AuthFailureRead
<1>2. PICK pc \in {"locked", "serving", "failing"}, seen \in {limits, task[t].seen} :
          /\ task' = [task EXCEPT ![t] = [task[t] EXCEPT !.pc = pc, !.seen = seen]]
          /\ pc # "serving" => seen = limits
          /\ pc = "locked" => task[t].pc = "admit" /\ clientsLock = None /\ clientsLock' = t
          /\ pc # "locked" => task[t].pc \in {"handshake", "serving"} /\ UNCHANGED clientsLock
  <2>1. CASE AdmitLock(t)
    <3>1. task' = [task EXCEPT ![t] = [task[t] EXCEPT !.pc = "locked", !.seen = limits]]
      BY <2>1 DEF AdmitLock, Types
    <3> QED
      BY <2>1, <3>1 DEF AdmitLock
  <2>2. CASE Handshake(t)
    <3>1. task' = [task EXCEPT ![t] = [task[t] EXCEPT !.pc = "serving", !.seen = task[t].seen]]
      BY <1>1, <2>2 DEF Handshake, TaskStates
    <3> QED
      BY <2>2, <3>1 DEF Handshake
  <2>3. CASE AuthFailureRead(t)
    <3>1. task' = [task EXCEPT ![t] = [task[t] EXCEPT !.pc = "failing", !.seen = limits]]
      BY <2>3 DEF AuthFailureRead, Types
    <3> QED
      BY <2>3, <3>1 DEF AuthFailureRead
  <2> QED
    BY <2>1, <2>2, <2>3
<1> DEFINE new == [task[t] EXCEPT !.pc = pc, !.seen = seen]
<1>3. new \in TaskStates /\ new.pc = pc /\ new.ip = task[t].ip /\ new.peer = task[t].peer
      /\ new.config = task[t].config /\ new.users = task[t].users /\ new.command = task[t].command
      /\ new.orphan = task[t].orphan /\ new.seen = seen
  BY <1>1 DEF TaskStates
<1>4. task' = [task EXCEPT ![t] = new]
  BY <1>2
<1> HIDE DEF new
<1>5. clientsLock' \in Tasks \cup {None} /\ \A u \in Tasks : task'[u].pc = "locked" <=> clientsLock' = u
  BY <1>1, <1>2, <1>3, <1>4 DEF Types, TasksSound
<1>6. task[t].pc \in {"admit", "handshake", "serving"}
      /\ (t \in Admitted <=> pc \in {"handshake", "serving", "failing", "refused"})
  BY <1>2 DEF Admitted
<1>7. task[t].ip \in Ips /\ task[t].peer \in Ips /\ task[t].config \in InForce /\ ~task[t].orphan
      /\ task[t].users = task[t].command
      /\ (task[t].ip # task[t].peer => task[t].peer \in task[t].config.trusted)
      /\ (task[t].config.trusted # {} => task[t].peer \in task[t].config.trusted)
  BY <1>6 DEF TasksSound, SourceSound, Running
<1> QED
  BY <1>1, <1>2, <1>3, <1>4, <1>5, <1>6, <1>7, QuietTaskStep

\* The maps of clients that admit and record_auth_failure leave, when c is
\* the state of the client they were called for.
MapKept(map, ip, c) ==
    /\ clients' \in [Ips -> ClientStates \cup {None}] /\ clients'[ip] = c
    /\ \A i \in Ips \ {ip} : ActiveOf(clients'[i]) = ActiveOf(clients[i])
    /\ map[ip].active = ActiveOf(clients[ip])
    /\ \A i \in Ips : map[i] # None => clients'[i] # None
    /\ DriverSound'
    /\ driver # "snapshot" =>
          \A i \in Tracked(clients') \ retune' :
              clients'[i].bucket # 0 => clients'[i].bucket = limits.byteRate

LEMMA MapFacts ==
  ASSUME ServerInv, NEW ip \in Ips, NEW map, Checked(map, ip), NEW c \in ClientStates,
         clients' = [map EXCEPT ![ip] = c], retune' = retune \ {i \in Ips : map[i] = None},
         UNCHANGED <<limits, state, driver, loaded>>,
         driver # "snapshot" => c.bucket = map[ip].bucket \/ c.bucket = limits.byteRate
  PROVE  MapKept(map, ip, c)
<1> DEFINE left == [map EXCEPT ![ip] = c]
<1> USE DEF ServerInv
<1>1. map \in [Ips -> ClientStates \cup {None}] /\ map[ip] # None /\ c # None
  BY DEF Checked
<1>2. left \in [Ips -> ClientStates \cup {None}] /\ left[ip] = c /\ \A i \in Ips \ {ip} : left[i] = map[i]
  BY <1>1
<1>3. NewClient.active = 0 /\ NewClient.bucket = 0
  BY DEF NewClient
<1>4. \A i \in Ips \ {ip} : map[i] = clients[i] \/ (map[i] = None /\ ActiveOf(clients[i]) = 0)
  BY DEF Checked, ActiveOf
<1>5. \A i \in Ips \ {ip} : ActiveOf(left[i]) = ActiveOf(clients[i])
  BY <1>2, <1>4 DEF ActiveOf
<1>6. map[ip] \in ClientStates /\ map[ip].active = ActiveOf(clients[ip])
  BY <1>1, <1>3 DEF Checked, ActiveOf
<1>7. \A i \in Ips : map[i] # None => left[i] # None
  BY <1>1, <1>2
<1>8. DriverSound'
  <2>1. retune' \subseteq Tracked(clients')
    BY <1>7 DEF DriverSound, Tracked
  <2> QED
    BY <2>1 DEF DriverSound
<1>9. ASSUME driver # "snapshot", NEW i \in Tracked(clients') \ retune', clients'[i].bucket # 0
      PROVE  clients'[i].bucket = limits.byteRate
  <2>1. i \in Ips /\ map[i] # None /\ i \notin retune
    BY <1>1, <1>2, <1>9 DEF Tracked
  <2>2. map[i].bucket # 0 => map[i].bucket = limits.byteRate
    <3>1. CASE map[i] = clients[i]
      BY <1>9, <2>1, <3>1 DEF BucketsSound, Tracked
    <3>2. CASE map[i] = NewClient
      BY <1>3, <3>2
    <3> QED
      BY <2>1, <3>1, <3>2 DEF Checked
  <2>3. CASE i = ip
    BY <1>2, <1>9, <2>2, <2>3
  <2>4. CASE i # ip
    BY <1>2, <1>9, <2>1, <2>2, <2>4
  <2> QED
    BY <2>3, <2>4
<1> QED
  BY <1>2, <1>5, <1>6, <1>7, <1>8, <1>9 DEF MapKept

LEMMA AdmitKeeps ==
  ASSUME ServerInv, NEW t \in Tasks, Admit(t)
  PROVE  ServerInv'
<1> USE DEF ServerInv
<1> DEFINE ip == task[t].ip
           seen == task[t].seen
<1>1. task[t].pc = "locked" /\ task[t] \in TaskStates /\ ip \in Ips /\ seen \in RateLimits
      /\ clientsLock = t /\ t \notin Admitted
  BY DEF Admit, Types, TasksSound, Admitted
<1>2. PICK map \in checkout_state(ip, seen) : Decide(t, map)
  BY DEF Admit
<1>3. Checked(map, ip)
  BY <1>1, CheckoutFacts DEF Types
<1> DEFINE c == Decided(map[ip], seen)
           refused == Refusal(map[ip], seen) # "none"
           left == [map EXCEPT ![ip] = c]
           new == IF refused THEN NoTask ELSE [task[t] EXCEPT !.pc = "handshake", !.seen = None]
<1>4. map[ip] \in ClientStates
  BY <1>1, <1>3 DEF Checked
<1>5. /\ c \in ClientStates
      /\ refused => c.active = map[ip].active /\ c.bucket = map[ip].bucket
      /\ ~refused => c.active = map[ip].active + 1 /\ c.bucket = seen.byteRate
  BY <1>1, <1>4, DecidedFacts
<1>6. /\ clients' = left /\ retune' = retune \ {i \in Ips : map[i] = None}
      /\ task' = [Detach(task, left) EXCEPT ![t] = new]
      /\ gauge' = (IF refused THEN gauge ELSE gauge + 1) /\ clientsLock' = None
      /\ UNCHANGED <<limits, cut, state, driver, loaded, reloads, loop>>
  BY <1>2, <1>3 DEF Decide, Checked
<1>7. driver # "snapshot" => c.bucket = map[ip].bucket \/ c.bucket = limits.byteRate
  BY <1>1, <1>5 DEF BucketsSound
<1> HIDE DEF c, refused, left, ip, seen
<1>8. clients' = [map EXCEPT ![ip] = c]
  BY <1>6 DEF left
<1>9. MapKept(map, ip, c)
  BY <1>1, <1>3, <1>5, <1>6, <1>7, <1>8, MapFacts
<1>10. task' = [task EXCEPT ![t] = new]
  <2>1. \A i \in Ips : map[i] # None => left[i] # None
    BY <1>6, <1>9 DEF MapKept
  <2>2. Detach(task, left) = task
    BY <1>1, <1>3, <2>1, NobodyDetached
  <2> QED
    BY <1>6, <2>2
<1>11. /\ new \in TaskStates /\ ~new.orphan
       /\ refused => new.pc = "none"
       /\ ~refused => /\ new.pc = "handshake" /\ new.ip = ip /\ new.peer = task[t].peer
                      /\ new.config = task[t].config /\ new.users = task[t].users
                      /\ new.command = task[t].command
  <2>1. NoTask \in TaskStates /\ NoTask.pc = "none" /\ ~NoTask.orphan
    BY DEF NoTask, TaskStates
  <2>2. ~task[t].orphan
    BY DEF TasksSound
  <2> QED
    BY <1>1, <2>1, <2>2 DEF TaskStates, ip
<1> HIDE DEF new
<1>12. task'[t] = new /\ \A u \in Tasks \ {t} : task'[u] = task[u]
  BY <1>10 DEF Types
<1>13. Types'
  <2>1. task' \in [Tasks -> TaskStates]
    BY <1>10, <1>11 DEF Types
  <2>2. gauge' \in Nat
    BY <1>6 DEF Types
  <2> QED
    BY <1>6, <1>9, <2>1, <2>2 DEF Types, MapKept
<1>14. task[t].peer \in Ips /\ task[t].config \in InForce /\ task[t].users = task[t].command
       /\ (ip # task[t].peer => task[t].peer \in task[t].config.trusted)
       /\ (task[t].config.trusted # {} => task[t].peer \in task[t].config.trusted)
  BY <1>1 DEF TasksSound, SourceSound, Running, ip
<1>15. TasksSound'
  <2>1. \A u \in Tasks : u # t => task[u].pc # "locked"
    BY <1>1 DEF TasksSound
  <2> QED
    BY <1>1, <1>6, <1>11, <1>12, <1>14, <2>1 DEF TasksSound
<1>16. BucketsSound'
  BY <1>6, <1>9, <1>15 DEF BucketsSound, TasksSound, MapKept
<1>17. SourceSound'
  BY <1>6, <1>11, <1>12, <1>14 DEF SourceSound, Running
<1>18. CASE refused
  <2>1. Admitted' = Admitted
    BY <1>1, <1>11, <1>12, <1>18 DEF Admitted
  <2>2. \A i \in Ips : ActiveOf(clients'[i]) = ActiveOf(clients[i])
    BY <1>5, <1>9, <1>18 DEF ActiveOf, MapKept
  <2>3. ConnectionsAccounted' /\ GaugeExact'
    BY <1>1, <1>6, <1>12, <1>18, <2>1, <2>2, CountsFrame DEF Admitted
  <2> QED
    BY <1>9, <1>13, <1>15, <1>16, <1>17, <2>3 DEF MapKept
<1>19. CASE ~refused
  <2>1. Admitted' = Admitted \cup {t}
    BY <1>1, <1>11, <1>12, <1>19 DEF Admitted
  <2>2. ActiveOf(clients'[ip]) = ActiveOf(clients[ip]) + 1
    BY <1>5, <1>9, <1>19 DEF ActiveOf, MapKept
  <2>3. ConnectionsAccounted' /\ GaugeExact'
    BY <1>1, <1>6, <1>9, <1>11, <1>12, <1>19, <2>1, <2>2, CountsAdmit DEF Admitted, MapKept
  <2> QED
    BY <1>9, <1>13, <1>15, <1>16, <1>17, <2>3 DEF MapKept
<1> QED
  BY <1>18, <1>19

LEMMA AuthFailureKeeps ==
  ASSUME ServerInv, NEW t \in Tasks, RecordAuthFailure(t)
  PROVE  ServerInv'
<1> USE DEF ServerInv
<1> DEFINE ip == task[t].ip
           seen == task[t].seen
<1>1. task[t].pc = "failing" /\ task[t] \in TaskStates /\ ip \in Ips /\ seen \in RateLimits
      /\ t \in Admitted /\ clientsLock = None
  BY DEF RecordAuthFailure, Types, TasksSound, Admitted
<1>2. PICK map \in checkout_state(ip, seen) :
          /\ clients' = [map EXCEPT ![ip] = Failed(@, seen)]
          /\ retune' = retune \ {i \in Ips : map[i] = None}
          /\ task' = [Detach(task, map) EXCEPT ![t] = [@ EXCEPT !.pc = "refused", !.seen = None]]
          /\ UNCHANGED <<limits, clientsLock, gauge, cut, state, driver, loaded, reloads, shutdown, loop>>
  BY DEF RecordAuthFailure
<1>3. Checked(map, ip)
  BY <1>1, CheckoutFacts DEF Types
<1> DEFINE c == Failed(map[ip], seen)
           new == [task[t] EXCEPT !.pc = "refused", !.seen = None]
<1>4. map[ip] \in ClientStates /\ map \in [Ips -> ClientStates \cup {None}]
  BY <1>1, <1>3 DEF Checked
<1>5. c \in ClientStates /\ c.active = map[ip].active /\ c.bucket = map[ip].bucket
  BY <1>1, <1>4, FailedFacts
<1>6. clients' = [map EXCEPT ![ip] = c]
  BY <1>2, <1>4
<1> HIDE DEF c, ip, seen
<1>7. MapKept(map, ip, c)
  BY <1>1, <1>2, <1>3, <1>5, <1>6, MapFacts
<1>8. Detach(task, map) = task
  BY <1>1, <1>3, NobodyDetached
<1>9. task' = [task EXCEPT ![t] = new]
  BY <1>2, <1>8 DEF Types
<1>10. /\ new \in TaskStates /\ new.orphan = task[t].orphan /\ new.pc = "refused" /\ new.ip = ip
       /\ new.peer = task[t].peer /\ new.config = task[t].config /\ new.users = task[t].users
       /\ new.command = task[t].command
  BY <1>1 DEF TaskStates, ip
<1> HIDE DEF new
<1>11. task'[t] = new /\ \A u \in Tasks \ {t} : task'[u] = task[u]
  BY <1>9 DEF Types
<1>12. Types'
  <2>1. task' \in [Tasks -> TaskStates]
    BY <1>9, <1>10 DEF Types
  <2> QED
    BY <1>2, <1>7, <2>1 DEF Types, MapKept
<1>13. TasksSound'
  BY <1>1, <1>2, <1>10, <1>11 DEF TasksSound, ip
<1>14. BucketsSound'
  <2>1. \A u \in Tasks : task'[u].pc # "locked"
    BY <1>1, <1>2, <1>13 DEF TasksSound
  <2> QED
    BY <1>2, <1>7, <2>1 DEF BucketsSound, MapKept
<1>15. SourceSound'
  <2>1. new.pc # "header" /\ new.users = new.command
        /\ (new.ip # new.peer => new.peer \in new.config.trusted)
        /\ (new.config.trusted # {} => new.peer \in new.config.trusted)
    BY <1>1, <1>10 DEF SourceSound, Running, ip
  <2> QED
    BY <1>2, <1>11, <2>1 DEF SourceSound, Running
<1>16. Admitted' = Admitted
  BY <1>1, <1>10, <1>11 DEF Admitted
<1>17. \A i \in Ips : ActiveOf(clients'[i]) = ActiveOf(clients[i])
  BY <1>5, <1>7 DEF MapKept, ActiveOf
<1>18. \A u \in Admitted : task'[u].ip = task[u].ip
  BY <1>10, <1>11 DEF Admitted, ip
<1>19. ConnectionsAccounted' /\ GaugeExact'
  BY <1>2, <1>16, <1>17, <1>18, CountsFrame
<1> QED
  BY <1>7, <1>12, <1>13, <1>14, <1>15, <1>19 DEF MapKept

\* A task that does not hold the lock ends.
LEMMA TaskEnds ==
  ASSUME ServerInv, NEW t \in Tasks, task[t].pc # "locked", task' = [task EXCEPT ![t] = NoTask],
         UNCHANGED <<limits, admissions, clientsLock, driverVars, loop>>,
         clients' \in [Ips -> ClientStates \cup {None}],
         \A i \in Ips : (clients'[i] = None <=> clients[i] = None)
                        /\ (clients[i] # None => clients'[i].bucket = clients[i].bucket),
         gauge' \in Nat, cut' \in Nat
  PROVE  /\ Types' /\ TasksSound' /\ DriverSound' /\ BucketsSound' /\ SourceSound'
         /\ Admitted' = Admitted \ {t} /\ \A u \in Admitted \ {t} : task'[u].ip = task[u].ip
<1> USE DEF ServerInv, driverVars
<1>1. NoTask \in TaskStates /\ NoTask.pc = "none" /\ ~NoTask.orphan
  BY DEF NoTask, TaskStates
<1>2. task'[t] = NoTask /\ \A u \in Tasks \ {t} : task'[u] = task[u]
  BY DEF Types
<1>3. Types'
  BY <1>1 DEF Types
<1>4. TasksSound'
  BY <1>1, <1>2 DEF TasksSound
<1>5. DriverSound'
  BY DEF DriverSound, Tracked
<1>6. BucketsSound'
  BY <1>1, <1>2 DEF BucketsSound, Tracked
<1>7. SourceSound'
  BY <1>1, <1>2 DEF SourceSound, Running
<1>8. Admitted' = Admitted \ {t} /\ \A u \in Admitted \ {t} : task'[u].ip = task[u].ip
  BY <1>1, <1>2 DEF Admitted
<1> QED
  BY <1>3, <1>4, <1>5, <1>6, <1>7, <1>8

\* Dropping the permit finds the client's entry in the map.
LEMMA ReleaseFacts ==
  ASSUME ServerInv, NEW t \in Admitted, Release(t)
  PROVE  /\ clients' \in [Ips -> ClientStates \cup {None}]
         /\ \A i \in Ips : (clients'[i] = None <=> clients[i] = None)
                           /\ (clients[i] # None => clients'[i].bucket = clients[i].bucket)
         /\ task[t].ip \in Ips
         /\ ActiveOf(clients'[task[t].ip]) = (IF ActiveOf(clients[task[t].ip]) = 0 THEN 0
                                              ELSE ActiveOf(clients[task[t].ip]) - 1)
         /\ \A i \in Ips \ {task[t].ip} : ActiveOf(clients'[i]) = ActiveOf(clients[i])
<1> USE DEF ServerInv
<1> DEFINE ip == task[t].ip
<1>1. t \in Tasks /\ ip \in Ips /\ ~task[t].orphan
  BY DEF Admitted, TasksSound
<1>2. CASE clients[ip] = None
  BY <1>1, <1>2 DEF Release, Types, ActiveOf
<1>3. CASE clients[ip] # None
  <2>1. clients[ip] \in ClientStates /\ clients' = [clients EXCEPT ![ip] = Released(clients[ip])]
    BY <1>1, <1>3 DEF Release, Types
  <2>2. Released(clients[ip]) \in ClientStates
        /\ Released(clients[ip]).active = (IF clients[ip].active = 0 THEN 0 ELSE clients[ip].active - 1)
        /\ Released(clients[ip]).bucket = clients[ip].bucket
    BY <2>1 DEF Released, ClientStates
  <2>3. clients'[ip] = Released(clients[ip]) /\ \A i \in Ips \ {ip} : clients'[i] = clients[i]
    BY <1>1, <2>1 DEF Types
  <2>4. Released(clients[ip]) # None
    BY <2>2
  <2> HIDE DEF ip
  <2> QED
    BY <1>1, <1>3, <2>1, <2>2, <2>3, <2>4 DEF Types, ActiveOf, ip
<1> QED
  BY <1>2, <1>3

LEMMA EndKeeps ==
  ASSUME ServerInv, NEW t \in Tasks, Close(t) \/ CutTask(t)
  PROVE  ServerInv'
<1> USE DEF ServerInv
<1>1. task[t].pc # "locked" /\ task' = [task EXCEPT ![t] = NoTask]
      /\ UNCHANGED <<limits, admissions, clientsLock, driverVars, loop>>
  BY DEF Close, CutTask
<1>2. CASE t \in Admitted
  <2>1. Release(t)
    BY <1>2 DEF Close, CutTask
  <2>2. \/ gauge' = (IF gauge = 0 THEN 0 ELSE gauge - 1) /\ cut' = cut
        \/ gauge' = gauge /\ cut' = cut + 1
    BY <1>2 DEF Close, CutTask
  <2>3. gauge' \in Nat /\ cut' \in Nat
    BY <2>2 DEF Types
  <2>4. /\ clients' \in [Ips -> ClientStates \cup {None}]
        /\ \A i \in Ips : (clients'[i] = None <=> clients[i] = None)
                          /\ (clients[i] # None => clients'[i].bucket = clients[i].bucket)
        /\ task[t].ip \in Ips
        /\ ActiveOf(clients'[task[t].ip]) = (IF ActiveOf(clients[task[t].ip]) = 0 THEN 0
                                             ELSE ActiveOf(clients[task[t].ip]) - 1)
        /\ \A i \in Ips \ {task[t].ip} : ActiveOf(clients'[i]) = ActiveOf(clients[i])
    BY <1>2, <2>1, ReleaseFacts
  <2>5. /\ Types' /\ TasksSound' /\ DriverSound' /\ BucketsSound' /\ SourceSound'
        /\ Admitted' = Admitted \ {t} /\ \A u \in Admitted \ {t} : task'[u].ip = task[u].ip
    BY <1>1, <2>3, <2>4, TaskEnds
  <2>6. ConnectionsAccounted' /\ GaugeExact'
    BY <1>2, <2>2, <2>4, <2>5, CountsEnd
  <2> QED
    BY <2>5, <2>6
<1>3. CASE t \notin Admitted
  <2>1. UNCHANGED <<clients, gauge, cut>>
    BY <1>3 DEF Close, CutTask, Admitted
  <2>2. /\ Types' /\ TasksSound' /\ DriverSound' /\ BucketsSound' /\ SourceSound'
        /\ Admitted' = Admitted \ {t} /\ \A u \in Admitted \ {t} : task'[u].ip = task[u].ip
    <3>1. clients' \in [Ips -> ClientStates \cup {None}] /\ gauge' \in Nat /\ cut' \in Nat
      BY <2>1 DEF Types
    <3> QED
      BY <1>1, <2>1, <3>1, TaskEnds
  <2>3. ConnectionsAccounted' /\ GaugeExact'
    BY <1>3, <2>1, <2>2, CountsFrame
  <2> QED
    BY <2>2, <2>3
<1> QED
  BY <1>2, <1>3

\* A step of the driver, the accept loop or the clock leaves the tasks alone.
LEMMA OthersStep ==
  ASSUME ServerInv, UNCHANGED taskVars,
         clients' \in [Ips -> ClientStates \cup {None}],
         \A i \in Ips : ActiveOf(clients'[i]) = ActiveOf(clients[i])
  PROVE  /\ TasksSound' /\ ConnectionsAccounted' /\ GaugeExact'
         /\ state' = state => SourceSound'
<1>1. TasksSound'
  BY DEF ServerInv, TasksSound, taskVars
<1>2. Admitted' = Admitted /\ UNCHANGED <<task, gauge, cut>>
  BY DEF taskVars, Admitted
<1>3. ConnectionsAccounted' /\ GaugeExact'
  BY <1>2, CountsFrame DEF ServerInv
<1>4. state' = state => SourceSound'
  BY <1>2 DEF ServerInv, SourceSound, Running
<1> QED
  BY <1>1, <1>3, <1>4

LEMMA DriverKeeps ==
  ASSUME ServerInv, Driver
  PROVE  ServerInv'
<1> USE DEF ServerInv
<1>0. UNCHANGED <<admissions, taskVars, loop>>
  BY DEF Driver, BeginReload, LoadConfig, ReloadFails, SwapState, SetLimits, SnapshotClients,
         RetuneClient, ReloadEnds, BeginShutdown, ServerReturns, abuseVars
<1>1. CASE BeginReload \/ ReloadFails \/ BeginShutdown \/ ServerReturns \/ ReloadEnds
  <2>1. UNCHANGED <<limits, clients, state, retune>> /\ reloads' \in Nat /\ driver # "snapshot"
        /\ driver' \in {"loading", "select", "stopping", "returned"}
        /\ driver # "limits" /\ (driver # "retune" \/ retune = {})
    BY <1>1 DEF BeginReload, ReloadFails, BeginShutdown, ServerReturns, ReloadEnds, abuseVars, Types
  <2>2. Types'
    BY <1>0, <2>1 DEF Types, taskVars
  <2>3. TasksSound' /\ ConnectionsAccounted' /\ GaugeExact' /\ SourceSound'
    BY <1>0, <2>1, OthersStep DEF Types
  <2>4. DriverSound' /\ BucketsSound'
    BY <1>0, <2>1 DEF DriverSound, BucketsSound, Tracked, taskVars
  <2> QED
    BY <2>2, <2>3, <2>4
<1>2. ASSUME NEW config \in Configs, LoadConfig(config) PROVE ServerInv'
  <2>1. UNCHANGED <<limits, clients, state, retune, reloads>> /\ driver = "loading" /\ driver' = "lock"
        /\ loaded' \in InForce
    BY <1>2 DEF LoadConfig, abuseVars, InForce
  <2>2. Types'
    BY <1>0, <2>1 DEF Types, taskVars
  <2>3. TasksSound' /\ ConnectionsAccounted' /\ GaugeExact' /\ SourceSound'
    BY <1>0, <2>1, OthersStep DEF Types
  <2>4. DriverSound' /\ BucketsSound'
    BY <1>0, <2>1 DEF DriverSound, BucketsSound, Tracked, taskVars
  <2> QED
    BY <2>2, <2>3, <2>4
<1>3. CASE SwapState
  <2>1. UNCHANGED <<limits, clients, retune, reloads, loaded>> /\ driver = "lock" /\ driver' = "limits"
        /\ loaded \in InForce /\ reloads \in Nat
        /\ state' = [config |-> loaded, generation |-> reloads, users |-> reloads, command |-> reloads]
    BY <1>3 DEF SwapState, abuseVars, DriverSound, Types
  <2>2. Types'
    BY <1>0, <2>1 DEF Types, taskVars
  <2>3. TasksSound' /\ ConnectionsAccounted' /\ GaugeExact'
    BY <1>0, <2>1, OthersStep DEF Types
  <2>4. DriverSound' /\ BucketsSound'
    BY <1>0, <2>1 DEF DriverSound, BucketsSound, Tracked, taskVars
  <2>5. SourceSound'
    BY <1>0, <2>1 DEF SourceSound, Running, taskVars
  <2> QED
    BY <2>2, <2>3, <2>4, <2>5
<1>4. CASE SetLimits
  <2>1. UNCHANGED <<clients, state, retune, reloads, loaded>> /\ driver = "limits" /\ driver' = "snapshot"
        /\ loaded \in InForce /\ loaded = state.config /\ limits' = loaded.limits
        /\ loaded.limits \in RateLimits
    BY <1>4, InForceFacts DEF SetLimits, DriverSound
  <2>2. Types'
    BY <1>0, <2>1 DEF Types, taskVars
  <2>3. TasksSound' /\ ConnectionsAccounted' /\ GaugeExact' /\ SourceSound'
    BY <1>0, <2>1, OthersStep DEF Types
  <2>4. DriverSound' /\ BucketsSound'
    BY <1>0, <2>1 DEF DriverSound, BucketsSound, Tracked
  <2> QED
    BY <2>2, <2>3, <2>4
<1>5. CASE SnapshotClients
  <2>1. UNCHANGED <<limits, clients, state, reloads, loaded>> /\ driver = "snapshot" /\ driver' = "retune"
        /\ clientsLock = None /\ retune' = Tracked(clients)
    BY <1>5 DEF SnapshotClients, abuseVars
  <2>2. Types'
    BY <1>0, <2>1 DEF Types, taskVars
  <2>3. TasksSound' /\ ConnectionsAccounted' /\ GaugeExact' /\ SourceSound'
    BY <1>0, <2>1, OthersStep DEF Types
  <2>4. DriverSound'
    BY <2>1 DEF DriverSound, Tracked
  <2>5. \A t \in Tasks : task[t].pc # "locked"
    BY <2>1 DEF TasksSound
  <2>6. BucketsSound'
    BY <1>0, <2>1, <2>5 DEF BucketsSound, Tracked, taskVars
  <2> QED
    BY <2>2, <2>3, <2>4, <2>6
<1>6. ASSUME NEW ip \in Ips, RetuneClient(ip) PROVE ServerInv'
  <2>1. UNCHANGED <<limits, state, driver, reloads, loaded>> /\ driver = "retune" /\ ip \in retune
        /\ clients' = [clients EXCEPT ![ip] = reconcile_bandwidth(clients[ip], loaded.limits)]
        /\ retune' = retune \ {ip} /\ loaded.limits = limits /\ limits \in RateLimits
    BY <1>6 DEF RetuneClient, DriverSound, Types
  <2>2. clients[ip] # None /\ clients[ip] \in ClientStates
    BY <2>1 DEF DriverSound, Tracked, Types
  <2> DEFINE c == reconcile_bandwidth(clients[ip], loaded.limits)
  <2>3. c \in ClientStates /\ c.active = clients[ip].active /\ c.bucket = limits.byteRate
    BY <2>1, <2>2 DEF reconcile_bandwidth, ClientStates, RateLimits
  <2>4. c # None
    BY <2>3
  <2> HIDE DEF c
  <2>5. clients'[ip] = c /\ (\A i \in Ips \ {ip} : clients'[i] = clients[i])
        /\ clients' \in [Ips -> ClientStates \cup {None}]
    BY <2>1, <2>3 DEF Types, c
  <2>6. \A i \in Ips : ActiveOf(clients'[i]) = ActiveOf(clients[i])
    BY <2>2, <2>3, <2>4, <2>5 DEF ActiveOf
  <2>7. Types'
    BY <1>0, <2>1, <2>5 DEF Types, taskVars
  <2>8. TasksSound' /\ ConnectionsAccounted' /\ GaugeExact' /\ SourceSound'
    BY <1>0, <2>1, <2>5, <2>6, OthersStep
  <2>9. DriverSound'
    BY <2>1, <2>4, <2>5 DEF DriverSound, Tracked
  <2>10. BucketsSound'
    BY <1>0, <2>1, <2>3, <2>4, <2>5 DEF BucketsSound, Tracked, taskVars
  <2> QED
    BY <2>7, <2>8, <2>9, <2>10
<1> QED
  BY <1>1, <1>2, <1>3, <1>4, <1>5, <1>6 DEF Driver

\* Windows end, the accept loop drains, a shutdown is asked for.
LEMMA ClockKeeps ==
  ASSUME ServerInv, Clock
  PROVE  ServerInv'
<1> USE DEF ServerInv
<1>1. PICK ip \in Ips, kind \in {"connections", "authFailures"} : WindowEnds(ip, kind)
  BY DEF Clock
<1>2. UNCHANGED <<limits, admissions, taskVars, driverVars, loop>> /\ clients[ip] # None
      /\ clients[ip] \in ClientStates
  BY <1>1 DEF Clock, WindowEnds, Types
<1> DEFINE c == [clients[ip] EXCEPT ![kind] = [clients[ip][kind] EXCEPT !.running = FALSE]]
<1>3. c \in ClientStates /\ c.active = clients[ip].active /\ c.bucket = clients[ip].bucket
  <2>1. CASE kind = "connections"
    BY <1>2, <2>1 DEF ClientStates, Windows
  <2>2. CASE kind = "authFailures"
    BY <1>2, <2>2 DEF ClientStates, Windows
  <2> QED
    BY <2>1, <2>2
<1>4. c # None
  BY <1>3
<1>5. clients' = [clients EXCEPT ![ip] = c]
  BY <1>1 DEF WindowEnds
<1> HIDE DEF c
<1>6. clients'[ip] = c /\ (\A i \in Ips \ {ip} : clients'[i] = clients[i])
      /\ clients' \in [Ips -> ClientStates \cup {None}]
  BY <1>3, <1>5 DEF Types
<1>7. \A i \in Ips : ActiveOf(clients'[i]) = ActiveOf(clients[i])
  BY <1>2, <1>3, <1>4, <1>6 DEF ActiveOf
<1>8. Types'
  BY <1>2, <1>6 DEF Types, taskVars, driverVars
<1>9. TasksSound' /\ ConnectionsAccounted' /\ GaugeExact' /\ SourceSound'
  BY <1>2, <1>6, <1>7, OthersStep DEF driverVars
<1>10. DriverSound'
  BY <1>2, <1>4, <1>6 DEF DriverSound, Tracked, driverVars
<1>11. BucketsSound'
  BY <1>2, <1>3, <1>4, <1>6 DEF BucketsSound, Tracked, taskVars, driverVars
<1> QED
  BY <1>8, <1>9, <1>10, <1>11

LEMMA IdleKeeps ==
  ASSUME ServerInv, StopAccepting \/ DrainTimeout \/ Drained \/ RequestShutdown \/ UNCHANGED vars
  PROVE  ServerInv'
<1> USE DEF ServerInv
<1>1. UNCHANGED <<abuseVars, taskVars, state, driver, loaded, retune, reloads>>
      /\ loop' \in {"accept", "draining", "aborting", "done"}
  BY DEF StopAccepting, DrainTimeout, Drained, RequestShutdown, vars, driverVars, Types
<1>2. Types'
  BY <1>1 DEF Types, abuseVars, taskVars
<1>3. TasksSound' /\ ConnectionsAccounted' /\ GaugeExact' /\ SourceSound'
  BY <1>1, OthersStep DEF Types, abuseVars
<1>4. DriverSound' /\ BucketsSound'
  BY <1>1 DEF DriverSound, BucketsSound, Tracked, taskVars, abuseVars
<1> QED
  BY <1>2, <1>3, <1>4

LEMMA ServerStep == ServerInv /\ [Next]_vars => ServerInv'
<1> SUFFICES ASSUME ServerInv, [Next]_vars PROVE ServerInv'
  OBVIOUS
<1>1. CASE AcceptLoop
  BY <1>1, SpawnKeeps, IdleKeeps DEF AcceptLoop
<1>2. ASSUME NEW t \in Tasks, Task(t) PROVE ServerInv'
  BY <1>2, HeaderKeeps, LockKeeps, AdmitKeeps, AuthFailureKeeps, EndKeeps DEF Task, AbortTask, PanicTask
<1>3. CASE Driver
  BY <1>3, DriverKeeps
<1>4. CASE Clock
  BY <1>4, ClockKeeps
<1>5. CASE RequestShutdown \/ UNCHANGED vars
  BY <1>5, IdleKeeps
<1> QED
  BY <1>1, <1>2, <1>3, <1>4, <1>5 DEF Next

-----------------------------------------------------------------------------
(***************************************************************************)
(* Every step of the accept loop, the tasks and the driver keeps the       *)
(* invariant: no state is taken from an admitted client, and a bucket that *)
(* admit left at an old rate is one that update_config will retune.        *)
(***************************************************************************)
THEOREM ServerInvariant == Spec => []ServerInv
  BY ServerStart, ServerStep, PTL DEF Spec

(***************************************************************************)
(* What admit looks at counts the admitted connections of a client, and    *)
(* the gauge counts all of them but for those that panicked or were        *)
(* aborted.                                                                *)
(***************************************************************************)
THEOREM ConnectionsCounted == Spec => []Accounted
<1>1. ServerInv => Accounted
  <2> SUFFICES ASSUME ServerInv PROVE TypeOK
    BY DEF ServerInv, Accounted
  <2>1. Admitted \in SUBSET Tasks
    BY DEF Admitted
  <2>2. Cardinality(Admitted) \in Nat /\ Cardinality(Tasks) \in Nat
        /\ Cardinality(Admitted) <= Cardinality(Tasks)
    BY <2>1, FS_Subset, FS_CardinalityType
  <2>3. gauge \in 0 .. Cardinality(Tasks) + cut
    BY <2>2 DEF ServerInv, Types, GaugeExact
  <2>4. \A t \in Tasks : task[t].pc \in {"none", "header", "admit", "locked", "handshake", "serving",
                                        "failing", "refused"}
    BY DEF ServerInv, Types, TaskStates
  <2> QED
    BY <2>3, <2>4 DEF ServerInv, Types, TypeOK, DriverSound, Tracked
<1> QED
  BY <1>1, ServerInvariant, PTL

(***************************************************************************)
(* update_config against admit: between reloads the limits are those of    *)
(* the configuration in force, and so is the rate of every bucket.         *)
(***************************************************************************)
THEOREM LimitsAlwaysApplied == Spec => []LimitsApplied
<1>1. ServerInv => LimitsApplied
  <2> SUFFICES ASSUME ServerInv, driver \notin {"limits", "snapshot", "retune"}
               PROVE  /\ limits = state.config.limits
                      /\ \A ip \in Tracked(clients) :
                            clients[ip].bucket # 0 => clients[ip].bucket = limits.byteRate
    BY DEF LimitsApplied
  <2> QED
    BY DEF ServerInv, DriverSound, BucketsSound
<1> QED
  BY <1>1, ServerInvariant, PTL

(***************************************************************************)
(* A reload is all or nothing, and a client's address is taken from a      *)
(* header only when the task's own configuration trusts the sender.        *)
(***************************************************************************)
THEOREM ConfigurationWhole == Spec => []OneConfiguration
<1>1. ServerInv => OneConfiguration
  <2> SUFFICES ASSUME ServerInv PROVE ReloadWhole /\ SourceTrusted
    BY DEF OneConfiguration
  <2>1. validate_startup(state.config) /\ state.config.egress = StartConfig.egress
    BY InForceFacts DEF ServerInv, Types
  <2> QED
    BY <2>1 DEF ServerInv, SourceSound, ReloadWhole, SourceTrusted
<1> QED
  BY <1>1, ServerInvariant, PTL
=============================================================================
