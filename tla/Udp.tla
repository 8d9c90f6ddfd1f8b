-------------------------------- MODULE Udp --------------------------------
(***************************************************************************)
(* A UDP association: the two tasks of run_udp_associate and, when a       *)
(* plugin owns it, the facades of drive_owned_association with the         *)
(* pass-through of splice_association (relay.rs, plugin.rs).  The parent   *)
(* closes it when the control connection ends, a direction ends or nothing *)
(* was accepted for Idle; the check is made once per tick.                 *)
(*                                                                         *)
(* Sources and destinations are canonical addresses; a source is a port of *)
(* the client's address, or another host.  The bucket of the client is     *)
(* shared with its other connections and a reload retunes it (Throttle).   *)
(***************************************************************************)
EXTENDS Throttle, Sequences, FiniteSets

CONSTANTS
    Ports,          \* of the client
    Foreign,        \* a source that is not the client
    Dests,          \* [host, port] of what the client writes to
    Allowed,        \* those that the DNS policy and the socks rules pass
    MaxContacted,   \* MAX_CONTACTED_REMOTES
    Idle,           \* udp_timeout in ticks; 0 disables it
    Rates,          \* bytes per tick the client may be limited to
    MaxDebt,        \* bound: bytes promised to the client's other connections ahead of time
    MaxRecords,     \* bound: how often destinations are recorded
    None

ASSUME UdpAssumption ==
    /\ Allowed \subseteq Dests
    /\ \A d \in Dests : d = [host |-> d.host, port |-> d.port]
    /\ MaxContacted \in Nat \ {0} /\ Idle \in Nat /\ {MaxDebt, MaxRecords} \subseteq Nat
    /\ Rates \subseteq Nat \ {0}
    /\ Foreign \notin Ports /\ None \notin Ports

VARIABLES
    owned,      \* a plugin has taken the association over
    strict,     \* udp.strictreply: the port of a reply counts
    open,       \* the parent is still in its loop
    lock,       \* client_endpoint: None or the port of the client
    seen,       \* ContactedRemotes: key -> tick it was last recorded at, 0 if absent
    ticks,      \* of ContactedRemotes
    pending,    \* source of the datagram whose destination is being resolved, or None
    idle,       \* ticks since the ActivityClock was marked
    due,        \* the watchdog has not looked since the last tick
    bucket,     \* of the client
    sent,       \* history: the keys recorded, in order
    out         \* history: the last datagram that left, or None

vars == <<owned, strict, open, lock, seen, ticks, pending, idle, due, bucket, sent, out>>
config == <<owned, strict>>

\* ContactedRemotes::key
key(addr) == IF strict THEN addr ELSE [host |-> addr.host, port |-> 0]

Keys == Dests \cup {[host |-> d.host, port |-> 0] : d \in Dests}

\* requested_udp_endpoint: a request that names the client's own address, or
\* none, with a port, declares the endpoint; the reply path then needs no
\* datagram to know it.
requested_udp_endpoint == Ports \cup {None}

Init ==
    /\ owned \in BOOLEAN /\ strict \in BOOLEAN
    /\ open = TRUE
    /\ lock \in requested_udp_endpoint
    /\ seen = [k \in Keys |-> 0] /\ ticks = 0
    /\ pending = None
    /\ idle = 0 /\ due = FALSE
    /\ bucket \in {from_rate_window(rate) : rate \in Rates}
    /\ sent = <<>>
    /\ out = None

client_source_accepted(src) == src \in Ports /\ (lock = None \/ src = lock)

mark == idle' = 0

Present(map) == {k \in Keys : map[k] # 0}

\* Faulty: the entry that was just recorded may be the one to go.
record_EvictNewest(k) ==
    LET room == IF Cardinality(Present(seen)) >= MaxContacted /\ seen[k] = 0
                THEN [j \in Keys |-> IF seen[j] = ticks THEN 0 ELSE seen[j]]
                ELSE seen
    IN  [j \in Keys |-> IF j = k THEN ticks + 1 ELSE room[j]]

\* ContactedRemotes::record: at the cap, a new key evicts the one recorded
\* longest ago.
record(k) ==
    LET oldest == CHOOSE j \in Present(seen) : \A i \in Present(seen) : seen[j] <= seen[i]
        room == IF Cardinality(Present(seen)) >= MaxContacted /\ seen[k] = 0
                THEN [seen EXCEPT ![oldest] = 0]
                ELSE seen
    IN  [room EXCEPT ![k] = ticks + 1]

contains(addr) == seen[key(addr)] # 0

-----------------------------------------------------------------------------
(***************************************************************************)
(* From the client to the remote.                                          *)
(***************************************************************************)

\* The destination is recorded before the datagram is policed or sent, so
\* that no answer can overtake the record.  A send may fail.
Originate(dest, sends) ==
    /\ Len(sent) < MaxRecords
    /\ seen' = record(key(dest)) /\ ticks' = ticks + 1
    /\ sent' = Append(sent, key(dest))
    /\ bucket' = police(bucket, 1)
    /\ out' = IF has(bucket, 1) /\ sends THEN [client |-> None, addr |-> dest] ELSE out

\* relay_client_to_remote, once the destination is known: only a datagram
\* that the policy, the rules and the plugins pass locks the endpoint and
\* counts as activity.  A failed send is counted and the relay goes on.
Forward(src, dest, sends) ==
    /\ dest \in Allowed
    /\ lock' = IF lock = None THEN src ELSE lock
    /\ mark
    /\ Originate(dest, sends)
    /\ UNCHANGED <<config, open, due>>

CoreForward(src, dest, sends) ==
    /\ open /\ ~owned /\ pending = None
    /\ client_source_accepted(src)
    /\ Forward(src, dest, sends)
    /\ UNCHANGED pending

\* The header names a host: the task waits for the resolver.
CoreResolve(src) ==
    /\ open /\ ~owned /\ pending = None
    /\ client_source_accepted(src)
    /\ pending' = src
    /\ UNCHANGED <<config, open, lock, seen, ticks, idle, due, bucket, sent, out>>

CoreResolved(dest, sends) ==
    /\ open /\ pending # None
    /\ Forward(pending, dest, sends)
    /\ pending' = None

\* No answer, a denied address, a rule or a plugin that drops it.
CoreUnresolved ==
    /\ open /\ pending # None
    /\ pending' = None
    /\ UNCHANGED <<config, open, lock, seen, ticks, idle, due, bucket, sent, out>>

\* Faulty: whatever arrives is activity.
CoreDrop_Marks(src) ==
    /\ open /\ ~owned /\ pending = None
    /\ mark
    /\ UNCHANGED <<config, open, lock, seen, ticks, pending, due, bucket, sent, out>>

\* Spoofed or off-lock, unparseable, fragmented, denied: nothing happens.
CoreDrop(src) ==
    /\ open /\ ~owned /\ pending = None
    /\ UNCHANGED vars

\* UpstreamOriginator::authorize and send_to.  A send that fails ends the
\* interceptor, and the association with it.
OwnedOriginate(dest, sends) ==
    IF dest \in Allowed
    THEN Originate(dest, sends) /\ open' = (sends \/ ~has(bucket, 1))
    ELSE UNCHANGED <<seen, ticks, bucket, sent, out, open>>

\* ClientDatagrams::recv and the origination under splice_association: what is
\* well formed and comes from the client locks the endpoint and is activity,
\* before the origin is authorized and also when it is then refused.
OwnedReceive(src, dest, sends) ==
    /\ open /\ owned
    /\ client_source_accepted(src)
    /\ lock' = IF lock = None THEN src ELSE lock
    /\ mark
    /\ OwnedOriginate(dest, sends)
    /\ UNCHANGED <<config, pending, due>>

-----------------------------------------------------------------------------
(***************************************************************************)
(* From the remote to the client.                                          *)
(***************************************************************************)

Deliver(remote, sends) ==
    /\ bucket' = police(bucket, 1)
    /\ out' = IF has(bucket, 1) /\ sends THEN [client |-> lock, addr |-> remote] ELSE out

\* relay_remote_to_client: no endpoint, a stranger or a plugin that drops it
\* leave everything as it is.
CoreReply(remote, sends) ==
    /\ open /\ ~owned
    /\ lock # None /\ contains(remote)
    /\ mark
    /\ Deliver(remote, sends)
    /\ UNCHANGED <<config, open, lock, seen, ticks, pending, due, sent>>

\* Faulty: the source of a reply is not looked at.
OwnedReply_Any(remote, sends) ==
    /\ open /\ owned
    /\ mark
    /\ IF lock # None
       THEN Deliver(remote, sends) /\ open' = (sends \/ ~has(bucket, 1))
       ELSE UNCHANGED <<bucket, out, open>>
    /\ UNCHANGED <<config, lock, seen, ticks, pending, due, sent>>

\* UpstreamOriginator::recv and ClientDatagrams::send: an answer is activity
\* even while there is nobody to pass it to.
OwnedReply(remote, sends) ==
    /\ open /\ owned
    /\ contains(remote)
    /\ mark
    /\ IF lock # None
       THEN Deliver(remote, sends) /\ open' = (sends \/ ~has(bucket, 1))
       ELSE UNCHANGED <<bucket, out, open>>
    /\ UNCHANGED <<config, lock, seen, ticks, pending, due, sent>>

-----------------------------------------------------------------------------
(***************************************************************************)
(* The parent, the clock and the server.                                   *)
(***************************************************************************)

\* The control connection ends, or a socket fails for good: both tasks are
\* aborted, or the interceptor is dropped.
ControlEnds ==
    /\ open
    /\ open' = FALSE /\ pending' = None
    /\ UNCHANGED <<config, lock, seen, ticks, idle, due, bucket, sent, out>>

Watchdog ==
    /\ open /\ due
    /\ due' = FALSE
    /\ IF Idle # 0 /\ idle >= Idle THEN open' = FALSE /\ pending' = None
       ELSE UNCHANGED <<open, pending>>
    /\ UNCHANGED <<config, lock, seen, ticks, idle, bucket, sent, out>>

\* The next tick of the interval; the parent is never a whole tick late.
Tick ==
    /\ open /\ ~due
    /\ due' = TRUE
    /\ idle' = Least(idle + 1, Idle)
    /\ bucket' = Pass(bucket, MaxDebt + 1)
    /\ UNCHANGED <<config, open, lock, seen, ticks, pending, sent, out>>

\* Another connection of the client is admitted under a new limit.
Retune(rate) ==
    /\ open
    /\ bucket' = update_rate_window(bucket, rate)
    /\ UNCHANGED <<config, open, lock, seen, ticks, pending, idle, due, sent, out>>

\* A TCP relay of the client shapes a chunk: it takes its bytes at once and
\* waits until they are earned.
Shape ==
    /\ open
    /\ refill(bucket).tokens > -MaxDebt
    /\ bucket' = reserve(bucket, 1)
    /\ UNCHANGED <<config, open, lock, seen, ticks, pending, idle, due, sent, out>>

\* What the relay takes as use of the association: in the core relay an allowed
\* datagram, in an owned association any well-formed one of the client's.
ClientDatagram ==
    \/ \E src \in Ports, dest \in Dests, sends \in BOOLEAN :
           CoreForward(src, dest, sends) \/ OwnedReceive(src, dest, sends)
    \/ \E dest \in Dests, sends \in BOOLEAN : CoreResolved(dest, sends)

RemoteDatagram ==
    \E remote \in Dests, sends \in BOOLEAN : CoreReply(remote, sends) \/ OwnedReply(remote, sends)

Next ==
    \/ ClientDatagram \/ RemoteDatagram
    \/ \E src \in Ports \cup {Foreign} : CoreResolve(src) \/ CoreDrop(src)
    \/ CoreUnresolved
    \/ ControlEnds \/ Watchdog \/ Tick \/ Shape
    \/ \E rate \in Rates : Retune(rate)

Spec == Init /\ [][Next]_vars

(***************************************************************************)
(* Fairness: the interval ticks and the parent looks at it; the resolver   *)
(* answers (dns.timeout).                                                  *)
(***************************************************************************)
FairSpec == Spec /\ WF_vars(Tick) /\ WF_vars(Watchdog) /\ WF_vars(CoreUnresolved)

-----------------------------------------------------------------------------
(***************************************************************************)
(* Properties.                                                             *)
(***************************************************************************)

TypeOK ==
    /\ open \in BOOLEAN /\ due \in BOOLEAN
    /\ lock \in Ports \cup {None} /\ pending \in Ports \cup {None}
    /\ seen \in [Keys -> 0 .. MaxRecords] /\ ticks \in 0 .. MaxRecords
    /\ idle \in 0 .. Idle

\* The last keys of the history, as many distinct ones as there is room for.
Recent ==
    {sent[i] : i \in {i \in DOMAIN sent :
        Cardinality({sent[j] : j \in i .. Len(sent)}) <= MaxContacted}}

\* At its limit the contacted set forgets the remote that was written to
\* longest ago and no other: an answer is awaited from exactly the last
\* MAX_CONTACTED_REMOTES peers.
ContactedRecent == Present(seen) = Recent

\* Whoever retunes the client's bucket, and whenever, a refill gives exactly
\* what the rates that ruled in the meantime have earned.
CreditEarned == refill(bucket).tokens = bucket.due

\* A client costs what he is allowed to: the last remotes are remembered and no
\* more, and his bucket holds what was earned.
ClientBounded == TypeOK /\ ContactedRecent /\ CreditEarned

Promise == INSTANCE Association WITH
    Endpoints <- Ports, Remotes <- Dests,
    endpoint <- lock, peers <- {sent[i] : i \in DOMAIN sent}

\* The core relay and the association that a plugin owns keep the same
\* promise (Association): "the facades enforce exactly those invariants".
KeepsPromise == Promise!Spec

\* An association that no accepted datagram keeps alive ends: what is spoofed,
\* malformed or unsolicited does not refresh it, nor in the core relay what is
\* refused.  An owned association is different: its facade marks activity before
\* the destination is authorized, so a client that only sends what is refused
\* keeps it open.
IdleEnds == Idle # 0 => ([]<><<ClientDatagram \/ RemoteDatagram>>_vars \/ <>~open)
=============================================================================
