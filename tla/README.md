# TLA+ models of alighieri

alighieri is a SOCKS5 proxy server in Rust. It relays client connections
directly or, with its RDP transport, multiplexes them over one dynamic virtual
channel of a Remote Desktop session to an agent that opens them on the other side.
Around the proxy are a configuration loader, a log worker, commands that edit the
user list, a Windows service and a configuration wizard. This directory holds TLA+
models of these parts, TLC configurations that check them on small instances, and
TLAPS proofs of what matters most in them for every value of the constants. Line
numbers and the correspondence between definitions and source are in the `map` of
`PROJECT.json`; paths below are relative to the repository.

## 1. Inventory

### Components

| Component | State | Operations | Hard behaviour | Correct when |
|---|---|---|---|---|
| RDP mux, streams (`src/rdp/mux.rs`) | `StreamShared`: buffers, credit counters, half-close and close flags; `CreditWindow`; entry in the driver's map | `poll_read`, `poll_write`, `poll_flush`, `poll_shutdown`, drop; outbound worker, credit worker; handlers of DATA, WINDOW_UPDATE, SHUTDOWN_WRITE, CLOSE | four actors per end around one mutex and two gates held across awaits; crossed CLOSEs | credit is neither lost nor forged, EOF means all was read, nothing follows a CLOSE, every stream retires |
| RDP mux, sessions (`src/rdp/mux.rs`) | slot semaphore, command channel, next ID; the two stream maps with tombstones; operations and relays of the agent | `resolve`, `open`, `open_ip`, cancellation; commands, frames, operation results, worker events, end of a session | timeouts at every await, late results, IDs allocated by racing callers, tombstones | no honest peer is rejected, permits are conserved, limits hold, requests return |
| RDP mux, queues (`src/rdp/mux.rs`) | control, ordered and reader queue per end, writer, outstanding PING | `frame_writer`, keepalive, `send_ordered`, reserved slots, operation and stream timeouts | bounded queues in a cycle, priority with a burst limit, drivers that await inside handlers | nothing starves, no PONG surprises, every wait ends |
| RDP wire format (`src/rdp/protocol.rs`) | partial frame of `FrameDecoder` | validation, encoding, `push`, `read_frame` | arbitrary chunking, bounded buffer | chunking never changes the result, bytes mean one frame |
| RDP bridges (`src/rdp/windows/client.rs`, `transport.rs`, `wts.rs`, `pipe.rs`, `pdu.rs`) | published generation, session bridge with its threads, pump queues | reconnect loop, COM callbacks, pipe and channel pumps, agent loop | two-sided shutdown, callbacks that may not wait, one thread that reads and writes | no gap in the bytes, one session, reconnection, nothing left behind |
| TCP relay (`src/relay.rs`) | two copy directions, activity clock, watchdog ticker, `close_seen` | `copy_direction`, `shaped_wait`, `relay_both_until` | biased select over a signal, two directions and a timer; shaping against idleness | errors are reported, nothing delivered is lost, an idle relay ends and a slow one does not |
| UDP relay (`src/relay.rs`, `src/plugin.rs`) | client endpoint, contacted remotes, idle clock, bucket | datagrams in both directions, in the core or by an interceptor, watchdog | spoofed or late datagrams, bounded contact map, receive errors | only contacted remotes reach the client, state is bounded, an idle association ends |
| DNS resolver (`src/dns.rs`) | TTL cache, negative cache, in-flight map, lookup slots | `resolve_domain`, leader and follower paths, uncancellable lookup | coalescing against cancellation, timeouts and reuse of a key | one lookup per name, no stale outcome, bounded lookups, every request returns |
| Server (`src/server.rs`, `src/runtime.rs`) | connection permits, configuration, tasks, gauge | accept loop, PROXY header, reload, drain and abort | reload and shutdown against accept | permits and counts return, a connection sees one configuration, shutdown ends |
| Abuse controls (`src/abuse.rs`) | per-source windows, counts, bucket | `admit`, `record_auth_failure`, `release`, prune, evict, `update_config` | pruning and eviction against live counts, retuning against admission | counts match connections, limits in force apply |
| Shaping (`src/throttle.rs`) | token buckets with debt | `reserve`, `police`, retune | shared buckets, all-or-nothing, retuning | a bucket holds what the rates in force have earned |
| Authentication (`src/auth.rs`) | verified cache, limiters, external child | password check, external command, reaper | timeout against a late exit, cache against reload | no acceptance by another configuration, no leaked slot |
| Access rules (`src/acl.rs`, `net.rs`, `proxy_protocol.rs`) | none | first match, gates, prefixes, host patterns | a gate that must be conservative | equal to what the rules say |
| SOCKS connection (`src/connection.rs`, `socks5.rs`) | per-connection phase and deadlines | greeting, authentication, request, rules, attempts, reply, plugin hooks, relay | order of checks, error replies, a client that is gone | a rejected client never reaches a relay, an allowed one is not refused, flows are paired |
| Configuration (`src/config.rs`) | builder, open files | settings, rules, includes, `build` | wildcards, links, cycles, boundaries | what takes effect is what the files say and the server can run on |
| Log worker (`src/runtime.rs`) | bounded queue, drop counter, rotating file | records, warnings, rotation, flush at exit | loggers that never wait, steps of a rotation failing | every record is written or counted, the files keep the end |
| Service (`src/platform/windows/service.rs`, `src/runtime.rs`) | service status, log held, configuration in effect | start, reload, stop, restart | a log that outlives the configuration that named it | log and rotation never touch what the service reads or runs |
| User commands (`src/main.rs`) | user list, backup, lock, temporary files | add, delete; the wizard's save | several at once, kill and power loss at each step | no update is lost, a reader finds a whole list |
| Wizard (`src/wizard.rs`) | form, import, token | requests, import, save | rules that only look like a template's | access is not widened unsaid, only a holder of the token saves |
| Metrics, management output, plugins, TLS, installers, event log | counters, operating system objects | rendering, system calls | mostly outside the repository | see section 7 |

### Interactions

- `Server` takes the client's address from the socket or a PROXY header, admits
  it through `Abuse`, and spawns a connection with the configuration of that moment.
- A SOCKS connection (`Connection`) authenticates (`Auth`), asks the rules (`Acl`),
  resolves (`Dns`), connects directly or through `ClientHandle` of the RDP mux, and
  hands two streams to the relay, which consults the buckets (`Throttle`) before
  each write; a UDP ASSOCIATE runs an association (`Udp`).
- A stream of the mux signals the relay when the remote has closed both halves;
  dropping the relay drops the stream, whose worker then queues a CLOSE.
- `ClientHandle` and the client driver talk over a bounded command channel with
  oneshot replies; the two drivers talk in frames (`Codec`) over an ordered
  transport (`BridgePath`) whose generations come and go (`Bridge`).
- A reload reads files (`Config`) that the user commands and the wizard replace
  (`UserFile`, `Wizard`), and changes `Server`'s configuration and `Abuse`'s limits;
  the service checks it against the log it holds (`ServiceLog`, `Log`).

Every hazard this gives rise to is listed at its line under `hazards` in
`PROJECT.json`, with the properties that would catch it.

## 2. Modules

| Module | Models | Instance | Proofs |
|---|---|---|---|
| `MuxStream` | one established stream, both ends | `MCMuxStream` | `MuxStreamProofs` |
| `MuxSession` | admission and life of the streams of a session | `MCMuxSession` | `MuxSessionProofs` |
| `MuxTransport` | queues, writer, keepalive, timeouts | `MCMuxTransport` | `MuxTransportProofs` |
| `Relay` | the TCP relay | `MCRelay` | `RelayProofs` |
| `Dns` | the shared resolver | `MCDns` | `HostProofs` |
| `Server`, `Abuse` | accept loop, tasks, reload, shutdown over the abuse controls | `MCServer` | `ServerProofs` |
| `Connection`, `Auth`, `Acl` | the life of a client connection | `MCConnection` | `ConnectionProofs` |
| `Udp`, `Throttle` | a UDP association over the client's bucket | `MCUdp` | `UdpProofs` |
| `Association` | what an association promises (abstract) | `MCUdp` | |
| `Bridge`, `BridgePath` | generations of the RDP transport; the bytes of one | `MCBridge` | `RelayProofs` |
| `Log` | log queue, worker, rotating file | `MCHost` | `HostProofs` |
| `UserFile` | replacing a file that others read | `MCHost` | `HostProofs` |
| `Config` | loading a configuration | `MCHost` | `HostProofs` |
| `ServiceLog` | the service and the log it holds | `MCHost` | `HostProofs` |
| `Wizard` | import, form, save | `MCHost` | `HostProofs` |
| `Codec` | the wire format | `MCHost` | |

A definition named after another with an underscore and a word
(`AgentRecvClose_StaleIgnored`) is a faulty variant of it: a bug someone could
have written, which a property is known to catch. `PROJECT.json` lists the pairs
under `mutants`.

### How the mux is divided

`mux.rs` is one file with three concerns that are nearly independent, and three
models that share their view of the frames:

- `MuxStream` looks at one stream in full detail: every critical section of the
  state mutex is a step, and the send gate and the credit gate are held over
  several steps, as the code holds them over awaits. The three queues between two
  drivers are one FIFO `wire[e]`, whose room is not bounded here. Bytes are
  positions; payloads are lengths.
- `MuxSession` looks at all streams with only their state in the two maps:
  handlers run to completion, callers may give up between any two of their awaits.
  What an open stream carries is left out.
- `MuxTransport` looks at the bounded queues: frames have a kind and no content,
  and what is checked is that the waits end. A handler that awaits is a driver
  which is inside it.

### State and actions

- **MuxStream.** The buffers, counters and flags are the fields of the code's
  structures; `available` is `CreditWindow`; `outPc`, `creditPc` and `driver` are
  where the two workers and the driver wait; `stream` is the entry in the driver's
  map. `written`, `sent`, `arrived`, `taken`, `granted`, `credited` are history that
  no guard reads.
- **MuxSession.** `pc`, `id`, `holdsSlot`, `reply` describe a caller; `slots`,
  `commands`, `nextStreamId`, `shutdown` the handle; `streams`, `permit`,
  `highestStreamId`, `operations`, `relays` the two drivers. One action per command,
  frame kind, result and event, and one per await at which a request may be given
  up. What the agent's address policy decides is a nondeterministic refusal.
- **MuxTransport.** `control`, `ordered`, `reader`, `writer`, `burst` are the
  queues and `frame_writer`; `driver` is the await inside a handler; `outbound` and
  `credit` are the workers that hold the gate or a reserved slot.
- **Relay.** One task: `pc`, `left`, `wait`, `nap`, `pieces` are the two
  `copy_direction`s, `ticker` and `quiet` the watchdog and the activity clock,
  `closeSeen` and `signal` the remote-close branch. Time passes in units and only
  when nothing that is due can be done. `stalled` is history.
- **Dns.** `pc` is where a request is or what it returned; `inflight`, `channel`
  and `leader` are the coalescing; `job` is the blocking lookup, which becomes an
  orphan when its leader is gone; `cache` and `negative` are the two caches. `seen` is
  history: the outcomes already sent when a request began.
- **Server.** `loop` is the accept loop, `task` the connection tasks with the
  configuration each was given, `driver` with `loaded` and `retune` the reload step
  by step, `clients` and `limits` the abuse controls. `admit` holds `clientsLock`
  over its own read of the limits, and `update_config` takes the three locks one by
  one, so both orders of the two happen. A panicking and an aborted task skip what
  the code skips; `cut` remembers them.
- **Connection.** `conn[c].phase` is the await a handler is at; every write to the
  client may find it gone, and then nothing after the write is done. `job` is what a
  verification has started and what outlives it: a hash on a blocking thread, or a
  child until it is reaped. The relay and the resolver end or answer in any way.
- **Udp.** `owned` chooses between the two tasks of the core and the facades over
  which an interceptor works. `seen` and `ticks` are `ContactedRemotes`, `bucket` is
  shared with the client's other connections (`Shape`) and retuned by reloads, `due`
  in it is history.
- **Bridge, BridgePath.** `Bridge` has one slot per channel with its bridge, two
  threads, pipe and actor; a loss without a cause spends a budget. `BridgePath` has
  each buffer and queue between the two mux sessions, with messages, PDUs and the
  reassembler; frames are numbers, so a gap shows.
- **Log.** A logger loses a record in two steps and the worker reports in two,
  as in the code; each system call of a rotation is a step that may fail.
- **UserFile.** Files have contents, access and whether they were synced; the
  disk is what a power loss is sure to keep. A process may be killed between any
  two steps.
- **Config.** The recursion of includes is a stack of open files; values are the
  classes that the checks tell apart.
- **ServiceLog, Wizard.** Paths are sequences of components, so that rotated,
  backup and lock names, junctions, links and hard links are what they are in the
  code. In `ServiceLog`, `family` is the log this process holds, from
  `init_service_logging` until it exits, which is after it reports STOPPED; a process
  that has a successor by then goes on in `leaving`, and `disturbed` says that it has
  rotated since the successor's last check. In `Wizard` a submission is any choice of
  fields, present or not, with any text; `Filled` applies the template's defaults
  and lets untouched paths follow the output, as the code does before it checks.
- **Codec.** The wire carries one symbol per field of fixed width; the decoder is
  called with pieces of it.

## 3. Runs

Every run sets `CHECK_DEADLOCK FALSE`: a stream that has closed, requests that
have returned, a server that has stopped, a configuration that is loaded are states
in which the system rightly stops. That something stops too early is what the
liveness properties are about.

| Run | Instance | What it shows |
|---|---|---|
| `stream_safe` | window 1, frames of 1 byte, 2 bytes one way and 1 the other, a transport that may fail at the agent | `CreditInv`, the inductive invariant of the proof; `CreditConserved`: no byte of the window leaks; `FramesLawful`: neither driver rejects a frame of an honest peer and nothing follows a CLOSE; `NothingLost`: EOF only after all was read, a flush only after all was queued |
| `stream_live` | window 1, 2 bytes one way, fair | `StreamsFinish`: a half-close completes and a dropped stream leaves both maps |
| `session` | three scenarios: one slot for competing callers, of whom one may time out waiting for it, and a session that may be lost; two slots and racing admissions; three callers and IDs for two | `NoProtocolError`; `SlotsAccounted`: permits conserved and limits kept; `TombstoneAnswered`; `NothingLeft`: slots return and requests end |
| `transport` | two scenarios: one stream with its workers and pings; both drivers with all queues full, until the session ends or they are drained | `TrafficSound`: bounds kept, no starving, every PONG expected; `NobodyStuck` |
| `relay_idle` | idle timeout 4, a wait of 5, 2 buffers, both kinds of relay, fair | `VerdictHonest`: no error masked, all delivered; `ShapedIsNotIdle` (with an idle timeout), `CloseKeepsDownload`, `RelayEnds` |
| `relay_drain` | no idle timeout, 1 buffer, fair | the documented `DrainBounded` is violated (finding 1) |
| `dns` | two requests for one name and one for another, one slot, caches of one entry, fair | `LookupsSound`: one flight per name, outcomes scoped, no fan-out, threads within the slots; `RequestsReturn` |
| `server` | two addresses, two tasks, room to track one client, one reload to either of two files, one panic, fair | `Accounted`: counts and permits match the connections, the gauge those and the tasks that were cut; `LimitsApplied`, `OneConfiguration`, `ShutdownEnds` |
| `connection` | two connections, a reload from a user list with two plugins to a command with the RDP egress, limiters and caches of one, fair | `Admitted`, `RefusalMeansDenied`, `GivenBack`, `ConnectionsDecide` |
| `udp` | two ports of the client and a stranger, four destinations on three hosts of which one is denied, two contacted remotes, two rates, fair | `ClientBounded`, `KeepsPromise` (the refinement), `IdleEnds`: an association nobody uses ends; what an owned one refuses is use, as it marks activity first |
| `bridge` | a path with queues of 1 loaded until all are full, or losing one part; two channel slots and two losses, fair | `NoGap`, `OneBridge`, `PathMoves`, `LifeGoesOn` |
| `host` | one of six machines in each behaviour (below) | `LogSound`, `UserlistSafe`, `LogApart`; `LoadRight`: a load reads what the files say; `ConfigUsable`: what comes into force is complete and in range; `ImportSafe`: saving an import widens nothing unsaid; `SavedGuarded`: what the wizard saves is guarded; `FramesExact` |

Where a run has several machines or scenarios, its module holds their sum: a
behaviour is one of them from beginning to end. `MCMuxSession` and `MCMuxTransport`
choose a scenario at the start. In `MCBridge` the machine that does not run starts
in its terminal state, so that each machine's fairness conditions are true of it.
`MCHost` checks invariants only. The sums share no state between their parts, as the
parts of the code do not within one process.

### Refinement

`Association` says in four actions what a UDP association promises: the client is
one endpoint, a datagram leaves only for an allowed destination, and one reaches
the client only from a peer the client has written to. `KeepsPromise` says that
`Udp` implements it, whether the core relays or an interceptor owns the
association, with the peers as the contacted set (history of what was recorded, so
that eviction only removes answers). The run checks it and `UdpProofs` proves it.

### Bounds, and why they are enough

- *MuxStream.* With a window and a frame of one byte the second byte cannot be
  sent before the first was read and its credit returned, so two bytes exercise the
  whole circle. `MaxBytes`, `Faulty` and `DropReasons` are bounds on the environment
  only. Larger windows are covered by the proofs.
- *MuxSession.* Two callers for two streams race for IDs and both can be late;
  callers for one stream make one wait for a slot, one for the command queue and one
  for a reply. `IdLimit` 5 is reached, which is the exhaustion of the u32 in the code.
- *MuxTransport.* A queue of one is full as soon as anything is in it; the ordered
  queue has one slot more than there are credit workers, as 512 slots against 128
  streams have. Ten requests, each of which may make the agent answer, fill every
  queue on both sides twice.
- *Relay.* A wait of 5 is longer than the idle timeout of 4; two buffers let a
  direction be shaped, written and shaped again.
- *Dns.* Three requests are a leader, a follower and a competitor for the slot and
  for the single entry of either cache.
- *Server.* With room for one client, the second address needs an eviction while
  the first may be connected; two tasks share or dispute an address; `PruneEvery` 2
  makes the second admission sweep. One reload meets every step of both tasks.
- *Connection.* With one permit per limiter a second verification waits; with one
  cache entry a second credential evicts; two destinations are one that the rules
  deny and one they pass, so that attempts go on past a denial. A name resolves to one
  address, to the same one twice, or to one that returns after another; the proofs
  take any set of answers (`Addresses`).
- *Udp.* Three allowed destinations exceed two contacted remotes; an idle timeout
  of two ticks can run out between two looks of the watchdog. The other connections
  of the client may owe one byte (`MaxDebt`), which takes two windows to earn back.
- *BridgePath.* Four frames from one side and two from the other fill the buffers,
  queues and the channel of one each; *Bridge*: two slots let a new session begin
  while the old one is still being torn down, and two losses strike both.
- *Host.* Four records over a queue of one, two faults and two rotated files; two
  commands with two faults; every pair of two include lines with a file, a wildcard
  and a link; each number at 0, the cap and beyond; configurations that differ from
  the service's in one thing each, put on disk while it runs or after it has exited,
  with two reloads or restarts; imported rules that differ from a template in one
  thing each, saved as imported or with one field changed; without an import all
  combinations of the fields that decide the listener, of the paths and of the public
  and UDP fields, each absent, blank, good or bad; two requests, so that a refused one
  comes before a save and another after it; two frames, good or bad, with any one symbol changed to one of four.

### Fairness

Each module assumes weak fairness of the steps the runtime takes by itself: a task
that can run is polled, a deadline that is pending passes, a gate and a queue are
FIFO (tokio's mutexes, semaphores and channels are). Further:

- an end of the mux whose peer is gone finds out, by the transport's end or by the
  keepalive timeout; an application that holds a stream keeps reading, as a relay
  does; lookups and connects of the agent end by their timeouts;
- in `Relay` time passes and naps end; neither peer need send, read, close or fail;
- in `Dns` the system's resolver need never return;
- in `Server` a task or the driver that waits for the clients lock gets it (strong
  fairness: the lock is held for a few lines without an await, and a waiting thread
  is not passed over for ever by the few that take it); clients need do nothing;
- in `Connection` the deadlines of reading, verifying, connecting and of a plugin's
  hook pass; a child need never die, and the reaper then gives it up;
- in `Udp` time passes and the watchdog looks once per tick;
- in `Bridge` and `BridgePath` each thread goes on when it can, and a part whose
  channel, pipe or queue is gone finds out; nothing need be lost.

Callers need not give up and no failure is obliged to happen.

## 4. Proofs

TLAPS checks eight proof modules; each extends the modules it is about, and proves
its results for every value of the constants that the module's assumptions allow.
Every invariant below was checked by TLC on the run's instance before it was proved.

**`MuxStreamProofs`**, from `Window`, `MaxData` positive and any `MaxBytes`. That no
DATA exceeds the window and no update the maximum is not inductive: it depends on how
much credit was sent for which bytes, some of it still in flight. The inductive
invariant `CreditInv` adds to `TypeOK` and `CreditSafe`:

- `Tiled`: the frames in flight, one after the other, cover exactly the bytes
  queued and not handled, and the credit granted and not applied;
- `LocalLedger`: at the receiver, credit advertised, credit being committed, bytes
  buffered and bytes read but not returned add up to the window;
- `FlowBound`: what the sender has, holds and has under way never exceeds what the
  receiver has advertised or is committing;
- `WorkerCounts`: what the credit worker holds at each of its points.

Theorems: `CreditInvariant`, `CreditSafety`, `TypeCorrect`. Lemmas about `Append` and
`Tail` of a tiled queue carry the induction over frames without recursion.

`StreamInv` goes on from there to the life of the stream. For each end it says that
the driver's record, the flags shared with the application and the frames in flight
agree (`Local`, `Frames`, `ClosedByPeer`, `Conserved`): CLOSE is queued once, by the
worker or by the driver, and nothing is queued behind it; SHUTDOWN_WRITE travels
behind the last byte; nothing is in flight for a stream the receiver has retired; a
stream closes under an application only because an application closed it; and the
ledger of the credit is exact, not only bounded, until one end begins to close. From
it follow `CreditIsConserved`, `FramesAlwaysLawful` and `NothingIsLost`. The proof has
one lemma per action, each of which shows what the acting end changes and that the
other end's entries stay. It also shows that the branches of `RecvClose` for a stream
that is opening or gone are not reached within one stream.

**`MuxSessionProofs`**, from any finite set of callers, of which some resolve a name
and some open an IP literal, and any positive limits. No property of the session is
inductive by itself, because a driver acts on what the other one did some frames ago.
`SessionInv` says:

- `Agreed`: which states of a stream at the client, at the agent and on the way
  occur together. `Row` lists them from RESOLVE to OPEN_OK, before the client closes;
  a client that has sent CLOSE keeps the row the agent is still in. With it
  `AgentReady` and `ClientReady`, which are what one driver can count on when the
  other has ended;
- `RecordSound`: which flags the worker of an open stream can have set;
- `Ordered`: IDs that the agent has not seen are in increasing order in the frames,
  then in the commands, then with the one caller that holds the admission lock, and
  neither driver has a trace of them (`Unborn`);
- `FramesNeat`: no frame is twice in a queue, and nothing of a stream follows its
  CLOSE;
- `Waiting`, `AsksOnce`: a caller has at most one request in the command queue or
  with the driver, and no answer while it has one;
- `Permitted`, `CommandsSound`, `EntrySound`: where the permit of a stream is, at
  each point of its life; `PermitsAccounted` then counts them.

The proof has one lemma per action. Each shows what the action does to its own
stream; three frame lemmas (`AgentFrame`, `ClientFrame`, `CallerFrame`) say once what
a step of the agent, of the client's driver or of a caller leaves alone: the other
streams, the other callers and their order. `OneDiffers` (sets that differ in one
element) carries the counting. Theorems: `SessionSound`, `DriversAgree`,
`TombstonesAnswered`, `PermitsKept`, `StreamsBounded`, `TypesCorrect`; the last three
are what the run checks as `SlotsAccounted`. In particular no branch that ends in a
protocol error can be taken between two honest drivers, and an outbound
worker never stops while its record is open in the map of a running driver: the
driver retires the record first.

**`MuxTransportProofs`**, from any finite set of streams smaller than the ordered
queue and any positive capacities. `TransportInv` counts reserved permits with the
frames they stand for, bounds `passed` by `burst`, and follows each heartbeat
(`OneHeartbeat`): of a PING and the PONG that answers it at most one is in any of the
seven places between the two drivers, it has the nonce its sender waits for, and no
PING is being sent while one is out. That a queue holds at most one frame of a kind
is preserved by `Append` and `Tail` (`Fewer`, `TakeOnly`, `AddOnly`), so a step is
either a shrinking of all places or the move of a frame from one place to the next.
Theorems: `TransportInvariant`, `PongAlwaysExpected`, `QueuesAlwaysServed`, together
`TrafficAlwaysSound`.

**`RelayProofs`**, from any timeouts (an idle timeout of at least two units, as a
quarter of it must be a tick), waits and traffic. `RelayInv` is `TypeOK`, `Progress`
(what a direction at each stage has left), `Flags` (the `done` flags and the signal
agree with the directions), `Naps` (with an idle timeout a shaped direction never
sleeps so long that the clock expires) and `Verdict`. Theorems: `RelayInvariant`,
`RelayTypeCorrect`, `HonestVerdict`, of which `ErrorReported` and `DownloadDelivered`
are the parts, `ShapedSurvives`, and `CloseSparesDownload` (an action property).

The module goes on with the bridges, from any set of channels and any positive
capacities. `LifeInv` adds to `OneBridge` that the open bridge is the active one and
what the loop's stage says of its driver, link and handle (`Generation`): a handle may
outlive its link only while the loop has not yet seen its driver end. Theorems:
`LifeInvariant`, `BridgeIsOne`. `NoGap` says only how much was read; it rests on what
every queue on the way holds. `PathInv` describes each as a run of consecutive frame
numbers (`Run`; `Chain` for a queue of messages, `Wires` for the PDUs of the channel,
whose last piece carries the message), each beginning where the one before it ends. A
part that overflows or stops breaks the chain only behind a closed session (`UpFlow`)
or a stopped actor (`DownFlow`), which forward nothing more. Where a run may be cut is
a function from positions to frame numbers, so that the lemmas about `Append`, `Tail`
and concatenation need no recursion. Theorems: `PathInvariant`, `PathHasNoGap`.

**`HostProofs`** holds the parts around the proxy.

*User commands*, from any sets of commands and users. `UserInv` relates the file and
the disk to the history of replacements (`Recorded`), says what a process has prepared
(`Prepared`), and that a user command from reading to replacing holds the lock and its
text is the file's (`Locked`): without that a replacement could undo another.
`Rights` follows access from the first file through temporary ones. Theorems:
`UserInvariant`, `UserlistIsSafe`.

*Log worker*, from any queue capacity, size limit and number of kept files. `Total` and the
rotation are recursive functions; what they compute is proved by taking the least
argument at which they would differ from a closed form (`Least`, from the
well-founded order of the naturals): `Total` is the last of its partial sums, and `k`
calls of a rotation leave `Shifted(files, k)` (`RotationShifts`). `AccountInv` then
counts each record once, with what the worker and the guard know of the drop counter
at each of their stages (`Owes`). `FileInv` says that there are places at which what
was accepted is cut into the files (`Cut`), so that a rotation that fails halfway
leaves an empty file and nothing out of order, and without faults that no file is
empty before an older one (`Full`). Theorem: `LogIsSound`.

*Service log*, from any set of configurations, junction and hard link and any number
of rotations (`Numerals` is any injective numbering). `LogApart` is inductive together
with `ServiceTypes` (no log is held before the start-up has checked it). It covers a
process from `init_service_logging` until it exits or has a successor, also after it
reported STOPPED. The step that could break it is a rotation, which moves the
hard-linked name: the new name is another member of the same family. A predecessor
that still rotates its own log may move that name anywhere, so what is said of
hard-linked names holds while it has not since the last check. Theorem:
`LogStaysApart`.

*Configuration*, from any listing, links and texts. `ConfigInv`: each setting present
was accepted by its parser, and `build` and the start-up checks held when they were
passed, since nothing changes a setting after them. Theorem: `EffectiveIsUsable`.

*Wizard*, from any links and hard links between paths, any imported configuration and
any fields. `FilledIsForm`: whatever was submitted, what the defaults make of it is a
form with at most one userlist and one log; `LogHasOwnPlace` takes from
the comparison of all pairs of roles that the log is none of the others, wherever the
optional roles put it in the list. Theorem: `SavedIsGuarded`. The first attempt failed
on the log path: it follows the output path before it is checked, which the model
had in the other order. `Acceptable_AsSubmitted` keeps that order as a mutant.

*Resolver*, from any finite set of callers, names and positive capacities.
`DnsInv` is `Types`, `Registered` (which caller the in-flight map names), `Channels`
(what each stage of a leader has published), `Past` (a remembered outcome was really
sent) and the three safety properties. Theorems: `DnsInvariant`, `CoalescingSound`
with its parts `OneFlightAlways`, `OutcomesAreScoped`, `TimeoutsDoNotFanOut`, and
`LookupsStayBounded`, with cardinalities of finite sets; together `LookupsAreSound`.
The caches do not matter to them and their type is left to TLC.

**`ServerProofs`**, from finite sets of tasks and addresses and any configurations
whose parts have their types. The limits count right because no task ever holds a
state that is not in the map: prune and evict take only entries without a connection
(`TasksSound`, `ConnectionsAccounted`). A reload reaches every bucket because the
snapshot waits for the clients lock: between `SetLimits` and `SnapshotClients` a task
inside `admit` may leave a bucket at the old rate, but it is then in the map that is
snapshot (`BucketsSound`). Theorems: `ServerInvariant`, `ConnectionsCounted`,
`LimitsAlwaysApplied`, `ConfigurationWhole`.

**`ConnectionProofs`**, from finite sets of connections and any generations, rules,
credentials, destinations and plugins. `GateSound`: `udp_associate_reachable` refuses
only a client none of whose datagrams the rules would pass. The argument is on the
first rule that passes the datagram: no earlier rule that matches all destinations
can block it, since it would have matched this one. `ConnectionInv` then says of each
handler what it has passed on its way (client rule, method, credentials: `Passed`),
that a candidate no longer offered was denied unless an attempt failed (`Tried`,
`Denied`), that plugins were asked and told in order (`Hooked`); of each cache that
it holds only what its own generation accepts (`CachesSound`); and of each permit that
it is free or held by the work it is for, which may outlive its connection
(`JobsSound`, `PermitsSound`). Theorems: `ConnectionInvariant`, `OnlyAdmitted`,
`RefusalsDenied`, `TakenIsGivenBack`.

**`UdpProofs`**, from any ports, destinations, positive rates and bounds. `Contacts`:
what `ContactedRemotes` has forgotten is older than everything it kept, and it forgets
only when full. `Credit`: the tokens and the idle time together make up what is due;
capping the idle time loses nothing, as the debt is at most `MaxDebt` and the capacity
is one window's rate. Theorems: `UdpInvariant`, `ClientAlwaysBounded`, and
`AssociationImplemented`, the refinement of `Association`: the initial states map to
initial states and every step to a step or a stutter. The refinement has no fairness.

Only model-checked: every liveness property, which is out of the prover's reach;
`LoadRight` and `FramesExact`, which compare with what a whole text or byte string
means, by operators that recurse over it or over the includes; and `ImportSafe`, which
quantifies over what two rule sets admit. `SlotsAccounted` spans the three instances of
`MCMuxSession`; each of its parts is a theorem for all of them.

## 5. Findings and remarks

**The drain after a normal close may be unbounded** (`relay_drain`). With
`iotimeout` 0, a close first seen by the recheck after an upload error
(`src/relay.rs:431`) sets `close_seen` without arming the watchdog, and a client
that does not read then keeps the relay for ever. `doc/rdp-transport.md:269`
promises a bound.

Met while modelling, without a run of their own:

- `doc/rdp-transport.md:240` says the agent ignores a late CLOSE;
  `handle_agent_frame` answers it (`src/rdp/mux.rs:2156`), and must: the variant
  that ignores it breaks `TombstoneAnswered`. The document is out of date.
- With `iotimeout` 0 a shaped nap may be longer than the post-close deadline
  (`src/relay.rs:534`), and a write that progresses in parts marks no activity until
  it is complete: the watchdog may end a slow tail with Ok, against
  `doc/rdp-transport.md:271`.
- `src/plugin.rs:772` calls `splice_association` equivalent to the core relay. What
  it lets through is (`KeepsPromise`); but a failed send ends an owned association,
  which the core counts and survives, and an owned one takes the endpoint and marks
  activity before the destination is authorized.
- `on_flow_end` has no timeout, unlike `on_flow`. A client that is gone when its
  refusal is written is not counted as an authentication failure
  (`src/connection.rs`, the `?` of the write). The limit of concurrent commands is
  per configuration, so a reload starts a new one.
- A rotation that fails at a later step removes one retained file with each retry,
  and a log file that a failed rotation closed stays closed until a line long enough
  to rotate arrives.
- `port = 10 80` in a rule is read as 1080, which `parse_endpoint` refuses; a
  repeated directive in a rule replaces the earlier one.
- The wizard leaves its temporary file when writing it fails, and only warns when
  the directory cannot be synced.
- `doc/windows-service.md:115` and `README.md:1370` describe a final flush of the log
  and then the `Stopped` status. The code reports STOPPED first
  (`src/platform/windows/service.rs:208`) and flushes when the guard is dropped on
  return, so a service that is started again at once may overlap a process that
  still writes and rotates a log its successor has not checked. `ServiceLog` has that
  order, and `LogApart` is stated accordingly.
- The wizard compares log and userlist of the public profile only; the LAN template
  has no such check.
- The agent does not look for Ctrl+C during its pause after a generation.
- `FrameDecoder` is used by tests only (the sessions use `read_frame`), and an
  error of `push` loses the frames decoded in the same call.

## 6. Plan

Done: the mux in three modules, relay, resolver, server with abuse controls,
connection with authentication and rules, UDP association with its refinement,
bridges, log, user list, configuration, service log, wizard and wire format. Next:

1. Abstract specifications: a reliable byte stream with half-close, implemented by
   `MuxStream`; a pool of stream permits, implemented by `MuxSession`.
2. `order_addresses` and the denied address categories of `Dns`.

## 7. Not modelled, and why

- *Handshake of the mux session and negotiation of limits*: a linear exchange before
  the session; `Bridge` has its place in a generation.
- *Metrics page, management output*: rendering of counters over HTTP, and the JSON
  that the command line prints.
- *Plugins and TLS*: the bodies of traits, and glue around rustls and ACME; their
  behaviour is outside the repository. When hooks are called is in `Connection`.
- *Installers, service managers, event log, registration, COM and WTS calls*:
  sequences of operating system calls; the bridges' own control is modelled.
- *Remaining command line*: arguments, help and prompts.
- Within the modelled parts: payload contents, error texts, tracing, HTML, the
  tokenizer, path spelling rules (one predicate), fractions of tokens, the preference
  order of resolved addresses, address categories of the resolver.
