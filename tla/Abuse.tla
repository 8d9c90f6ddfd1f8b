------------------------------- MODULE Abuse -------------------------------
(***************************************************************************)
(* The per-client abuse controls (abuse.rs): who is tracked, how many      *)
(* connections and authentication failures count against him, and the      *)
(* bucket that all his flows share.  The actions of Server use it.         *)
(*                                                                         *)
(* A limit of 0 is one that is not configured (config.rs rejects a zero).  *)
(* A window is the count of one and whether it is still running.  Of the   *)
(* bucket only its rate is kept, 0 when there is none; whether it is full  *)
(* is any choice (Throttle and Udp have the buckets).                      *)
(***************************************************************************)
EXTENDS Integers, FiniteSets

CONSTANTS
    Ips,
    MaxTracked,     \* MAX_TRACKED_CLIENTS
    PruneEvery,     \* PRUNE_EVERY_N_ADMISSIONS
    MaxCount,       \* bound: where the counts of a window saturate
    None

VARIABLES
    limits,     \* RateLimits in force
    clients,    \* the state tracked for an address, or None
    admissions  \* checkouts since the last prune

RateLimits == [connectionRate : Nat, authFailureRate : Nat, concurrent : Nat, byteRate : Nat]
Windows == [count : Nat, running : BOOLEAN]
ClientStates == [connections : Windows, authFailures : Windows, active : Nat, bucket : Nat]

NewWindow == [count |-> 0, running |-> TRUE]
NewClient == [connections |-> NewWindow, authFailures |-> NewWindow, active |-> 0, bucket |-> 0]

Least(a, b) == IF a < b THEN a ELSE b

Tracked(map) == {ip \in Ips : map[ip] # None}

reset_if_expired(w) == IF w.running THEN w ELSE NewWindow

is_limit_exceeded(w, limit) == limit # 0 /\ reset_if_expired(w).count >= limit

increment_window(w, limit) ==
    IF limit = 0 THEN w
    ELSE [reset_if_expired(w) EXCEPT !.count = Least(@ + 1, MaxCount)]

window_is_prunable(w, limit) == limit = 0 \/ w.count = 0 \/ ~w.running

\* Faulty: the sweep looks at the windows only.
is_expired_Active(client, config, full) ==
    /\ window_is_prunable(client.connections, config.connectionRate)
    /\ window_is_prunable(client.authFailures, config.authFailureRate)

is_expired(client, config, full) ==
    /\ client.active = 0
    /\ window_is_prunable(client.connections, config.connectionRate)
    /\ window_is_prunable(client.authFailures, config.authFailureRate)
    /\ client.bucket = 0 \/ full

reconcile_bandwidth(client, config) == [client EXCEPT !.bucket = config.byteRate]

prune_expired_clients(map, config, full) ==
    [ip \in Ips |-> IF map[ip] # None /\ is_expired(map[ip], config, ip \in full) THEN None
                   ELSE map[ip]]

\* The possible maps after room for one more client was made.
evict_idle_clients(map) ==
    LET idle == {ip \in Tracked(map) : map[ip].active = 0}
    IN  IF idle = {} THEN {map}
        ELSE {[i \in Ips |-> IF i = ip THEN None ELSE map[i]] : ip \in idle}

\* The possible maps when the state of ip has been looked up or created.
checkout_state(ip, config) ==
    LET swept == IF admissions = 0
                 THEN {prune_expired_clients(clients, config, full) : full \in SUBSET Ips}
                 ELSE {clients}
        room(map) == IF Cardinality(Tracked(map)) >= MaxTracked /\ map[ip] = None
                     THEN evict_idle_clients(map)
                     ELSE {map}
    IN  {[i \in Ips |-> IF i = ip /\ map[i] = None THEN NewClient ELSE map[i]] :
            map \in UNION {room(map) : map \in swept}}

count_admission == (admissions + 1) % PruneEvery

\* What admit decides on the state it checked out, and the state it leaves.
Refusal(client, config) ==
    CASE is_limit_exceeded(client.authFailures, config.authFailureRate) -> "authFailureRate"
      [] config.concurrent # 0 /\ client.active >= config.concurrent -> "concurrentConnections"
      [] config.connectionRate # 0
         /\ increment_window(client.connections, config.connectionRate).count
              > config.connectionRate -> "connectionRate"
      [] OTHER -> "none"

Decided(client, config) ==
    LET failures == IF config.authFailureRate = 0 THEN client.authFailures
                    ELSE reset_if_expired(client.authFailures)
        seen == [client EXCEPT !.authFailures = failures]
        counted == [seen EXCEPT !.connections = increment_window(@, config.connectionRate)]
        refusal == Refusal(client, config)
    IN  CASE refusal \in {"authFailureRate", "concurrentConnections"} -> seen
          [] refusal = "connectionRate" -> counted
          [] refusal = "none" -> reconcile_bandwidth([counted EXCEPT !.active = @ + 1], config)

Failed(client, config) ==
    [client EXCEPT !.authFailures = increment_window(@, config.authFailureRate)]

\* saturating_sub
Released(client) == [client EXCEPT !.active = IF @ = 0 THEN 0 ELSE @ - 1]

WindowEnds(ip, kind) ==
    /\ clients[ip] # None /\ clients[ip][kind].running /\ clients[ip][kind].count # 0
    /\ clients' = [clients EXCEPT ![ip][kind].running = FALSE]
    /\ UNCHANGED <<limits, admissions>>
=============================================================================
