-------------------------------- MODULE Dns --------------------------------
(***************************************************************************)
(* The shared resolver (dns.rs): the TTL cache, the short memory of names  *)
(* that timed out, and the coalescing of concurrent lookups, of which one  *)
(* caller is the leader and the rest follow it over a watch channel.  The  *)
(* blocking lookup of the system cannot be cancelled: it outlives a leader *)
(* that timed out or was dropped and keeps its slot until it returns.      *)
(*                                                                         *)
(* A caller makes one request and leads at most once, so its name stands   *)
(* for the channel it leads.  Time is abstract: an entry of a cache        *)
(* expires some time after it was stored, the oldest first, and a deadline *)
(* passes some time after the wait began.                                  *)
(*                                                                         *)
(* A definition named after another, with an underscore and a word, is a   *)
(* faulty variant of it: a bug the properties are known to catch.          *)
(***************************************************************************)
EXTENDS Naturals, Sequences, FiniteSets

CONSTANTS
    Callers,
    CacheKeys,      \* DnsCacheKey: host, whatever its case, and port
    NoCaller,       \* model value
    LookupSlots,    \* MAX_CONCURRENT_SYSTEM_LOOKUPS
    CacheCapacity,  \* MAX_DNS_CACHE_ENTRIES
    NegativeCapacity,   \* MAX_NEGATIVE_CACHE_ENTRIES
    Name,           \* what each caller resolves
    Caching         \* the callers whose policy has a cache_ttl

ASSUME SlotsAssumption ==
    /\ {LookupSlots, CacheCapacity, NegativeCapacity} \subseteq Nat \ {0}
    /\ IsFiniteSet(Callers) /\ NoCaller \notin Callers
    /\ Name \in [Callers -> CacheKeys] /\ Caching \subseteq Callers

VARIABLES
    pc,         \* where resolve_domain is or, at its end, what it returned
    leader,     \* the channel the caller follows
    found,      \* what its own lookup gave
    inflight,   \* the registered leader of each key
    channel,    \* what the caller has published as a leader
    job,        \* its blocking lookup
    cache, negative,    \* entries, the oldest first
    seen        \* history: the channels already published when the request began

callVars == <<pc, leader, found>>
vars == <<callVars, inflight, channel, job, cache, negative, seen>>

Results == {"ok", "error", "timeout"}
\* An orphan would run without a slot: no step of this code makes one.
Jobs == {"none", "running", "orphan", "ok", "error"}
Ended == Results \cup {"cancelled"}
Running == {c \in Callers : job[c] = "running"}

Step(c, from, to) == pc[c] = from /\ pc' = [pc EXCEPT ![c] = to]

-----------------------------------------------------------------------------
(* The two caches.                                                         *)

Of(entries, k) == SelectSeq(entries, LAMBDA entry : entry.key = k)
Without(entries, k) == SelectSeq(entries, LAMBDA entry : entry.key # k)
Live(entries) == SelectSeq(entries, LAMBDA entry : entry.live)
Hit(entries, k) == \E n \in 1 .. Len(entries) : entries[n] = [key |-> k, live |-> TRUE]

\* A full map is swept of expired entries and, if that freed nothing, of the oldest.
Insert(entries, k, capacity) ==
    LET swept == Live(entries)
    IN  Append(IF Len(entries) < capacity \/ Of(entries, k) # <<>> THEN Without(entries, k)
               ELSE IF Len(swept) < capacity THEN swept ELSE Tail(swept),
               [key |-> k, live |-> TRUE])

\* The lifetime of the oldest live entry passes.
Expire(entries) ==
    LET n == CHOOSE n \in 1 .. Len(entries) :
                 entries[n].live /\ \A m \in 1 .. n - 1 : ~entries[m].live
    IN  [entries EXCEPT ![n].live = FALSE]

CacheExpires ==
    /\ Live(cache) # <<>> /\ cache' = Expire(cache)
    /\ UNCHANGED <<callVars, inflight, channel, job, negative, seen>>

NegativeExpires ==
    /\ Live(negative) # <<>> /\ negative' = Expire(negative)
    /\ UNCHANGED <<callVars, inflight, channel, job, cache, seen>>

-----------------------------------------------------------------------------
(* resolve_domain.                                                         *)

Begin(c) ==
    /\ Step(c, "new", "cached")
    /\ seen' = [seen EXCEPT ![c] = {l \in Callers : channel[l] \in Results}]
    /\ UNCHANGED <<leader, found, inflight, channel, job, cache, negative>>

\* cached: an expired entry is removed by the caller that finds it.
Cached(c) ==
    /\ IF c \in Caching /\ Hit(cache, Name[c])
       THEN Step(c, "cached", "ok") /\ UNCHANGED cache
       ELSE /\ Step(c, "cached", "negative")
            /\ cache' = IF c \in Caching THEN Without(cache, Name[c]) ELSE cache
    /\ UNCHANGED <<leader, found, inflight, channel, job, negative, seen>>

NegativelyCached(c) ==
    /\ IF Hit(negative, Name[c])
       THEN Step(c, "negative", "timeout") /\ UNCHANGED negative
       ELSE Step(c, "negative", "join") /\ negative' = Without(negative, Name[c])
    /\ UNCHANGED <<leader, found, inflight, channel, job, cache, seen>>

JoinOrLead(c) ==
    /\ IF inflight[Name[c]] # NoCaller
       THEN /\ Step(c, "join", "follow")
            /\ leader' = [leader EXCEPT ![c] = inflight[Name[c]]]
            /\ UNCHANGED <<inflight, channel>>
       ELSE /\ Step(c, "join", "slot")
            /\ inflight' = [inflight EXCEPT ![Name[c]] = c]
            /\ channel' = [channel EXCEPT ![c] = "open"]
            /\ UNCHANGED leader
    /\ UNCHANGED <<found, job, cache, negative, seen>>

\* A follower takes what its leader sent; without a leader it starts again.
Follow(c) ==
    /\ channel[leader[c]] # "open"
    /\ Step(c, "follow", IF channel[leader[c]] = "dropped" THEN "cached" ELSE channel[leader[c]])
    /\ UNCHANGED <<leader, found, inflight, channel, job, cache, negative, seen>>

-----------------------------------------------------------------------------
(* The leader.                                                             *)

\* backend_lookup: the permit moves into the blocking job.
AcquireSlot(c) ==
    /\ Cardinality(Running) < LookupSlots
    /\ Step(c, "slot", "lookup")
    /\ job' = [job EXCEPT ![c] = "running"]
    /\ UNCHANGED <<leader, found, inflight, channel, cache, negative, seen>>

\* The system's resolver returns, to a leader that may have gone.
JobEnds(c, result) ==
    /\ job[c] = "running"
    /\ job' = [job EXCEPT ![c] = result]
    /\ UNCHANGED <<callVars, inflight, channel, cache, negative, seen>>

TakeResult(c) ==
    /\ job[c] \in {"ok", "error"}
    /\ Step(c, "lookup", "store")
    /\ found' = [found EXCEPT ![c] = job[c]]
    /\ UNCHANGED <<leader, inflight, channel, job, cache, negative, seen>>

\* The lookup is polled before its deadline is looked at.
Waiting(c) ==
    \/ pc[c] = "slot" /\ Cardinality(Running) >= LookupSlots
    \/ pc[c] = "lookup" /\ job[c] = "running"

\* Faulty: the slot is given up with the wait: the permit was not moved into the job.
LeaderTimeout_FreesSlot(c) ==
    /\ Waiting(c)
    /\ pc' = [pc EXCEPT ![c] = "store"]
    /\ found' = [found EXCEPT ![c] = "timeout"]
    /\ job' = [job EXCEPT ![c] = IF @ = "running" THEN "orphan" ELSE @]
    /\ UNCHANGED <<leader, inflight, channel, cache, negative, seen>>

\* The leader's timeout, around the wait for the slot and the lookup.
LeaderTimeout(c) ==
    /\ Waiting(c)
    /\ pc' = [pc EXCEPT ![c] = "store"]
    /\ found' = [found EXCEPT ![c] = "timeout"]
    /\ UNCHANGED <<leader, inflight, channel, job, cache, negative, seen>>

\* store, or store_negative.
Store(c) ==
    /\ Step(c, "store", "publish")
    /\ cache' = IF found[c] = "ok" /\ c \in Caching
                THEN Insert(cache, Name[c], CacheCapacity) ELSE cache
    /\ negative' = IF found[c] = "timeout"
                   THEN Insert(negative, Name[c], NegativeCapacity) ELSE negative
    /\ UNCHANGED <<leader, found, inflight, channel, job, seen>>

\* Faulty: the result is sent while callers can still find the channel.
Deregister_AfterSend(c) ==
    /\ Step(c, "publish", "send")
    /\ channel' = [channel EXCEPT ![c] = found[c]]
    /\ UNCHANGED <<leader, found, inflight, job, cache, negative, seen>>

\* publish, its first half: remove_inflight.
Deregister(c) ==
    /\ Step(c, "publish", "send")
    /\ inflight' = [inflight EXCEPT ![Name[c]] = NoCaller]
    /\ UNCHANGED <<leader, found, channel, job, cache, negative, seen>>

\* Its second half; the registration is then dropped, with nothing left to remove.
Send(c) ==
    /\ Step(c, "send", found[c])
    /\ channel' = [channel EXCEPT ![c] = found[c]]
    /\ UNCHANGED <<leader, found, inflight, job, cache, negative, seen>>

\* Where the request's future awaits: store locks the cache, store_negative does not wait.
Awaiting(c) ==
    \/ pc[c] \in {"cached", "follow", "slot", "lookup"}
    \/ pc[c] = "store" /\ c \in Caching /\ found[c] = "ok"

\* Faulty: A leader that is cancelled leaves its registration behind.
Cancel_KeepsEntry(c) ==
    /\ Awaiting(c)
    /\ pc' = [pc EXCEPT ![c] = "cancelled"]
    /\ channel' = [channel EXCEPT ![c] = IF @ = "open" THEN "dropped" ELSE @]
    /\ UNCHANGED <<leader, found, inflight, job, cache, negative, seen>>

\* The request's future is dropped at an await; InflightLead::drop.
Cancel(c) ==
    /\ Awaiting(c)
    /\ pc' = [pc EXCEPT ![c] = "cancelled"]
    /\ IF channel[c] = "open"
       THEN /\ inflight' = [inflight EXCEPT ![Name[c]] = NoCaller]
            /\ channel' = [channel EXCEPT ![c] = "dropped"]
       ELSE UNCHANGED <<inflight, channel>>
    /\ UNCHANGED <<leader, found, job, cache, negative, seen>>

-----------------------------------------------------------------------------
Init ==
    /\ pc = [c \in Callers |-> "new"]
    /\ leader = [c \in Callers |-> c]
    /\ found = [c \in Callers |-> "none"]
    /\ inflight = [k \in CacheKeys |-> NoCaller]
    /\ channel = [c \in Callers |-> "none"] /\ job = [c \in Callers |-> "none"]
    /\ cache = <<>> /\ negative = <<>>
    /\ seen = [c \in Callers |-> {}]

\* What the caller's task does once it has begun.
Advance(c) ==
    \/ Cached(c) \/ NegativelyCached(c) \/ JoinOrLead(c) \/ Follow(c)
    \/ AcquireSlot(c) \/ TakeResult(c) \/ LeaderTimeout(c)
    \/ Store(c) \/ Deregister(c) \/ Send(c)

Next ==
    \/ \E c \in Callers : Begin(c) \/ Advance(c) \/ Cancel(c)
    \/ \E c \in Callers, result \in {"ok", "error"} : JobEnds(c, result)
    \/ CacheExpires \/ NegativeExpires

Spec == Init /\ [][Next]_vars

(***************************************************************************)
(* A task that can run is polled and a deadline passes.  The system's      *)
(* resolver need never return.                                             *)
(***************************************************************************)
Fairness == \A c \in Callers : WF_vars(Advance(c))

FairSpec == Spec /\ Fairness

-----------------------------------------------------------------------------
Entries(capacity) == UNION {[1 .. n -> [key: CacheKeys, live: BOOLEAN]] : n \in 0 .. capacity}

(***************************************************************************)
(* Type correctness: neither cache holds more entries than its capacity.   *)
(***************************************************************************)
TypeOK ==
    /\ pc \in [Callers -> {"new", "cached", "negative", "join", "follow", "slot", "lookup",
                           "store", "publish", "send"} \cup Ended]
    /\ leader \in [Callers -> Callers]
    /\ found \in [Callers -> Results \cup {"none"}]
    /\ inflight \in [CacheKeys -> Callers \cup {NoCaller}]
    /\ channel \in [Callers -> Results \cup {"none", "open", "dropped"}]
    /\ job \in [Callers -> Jobs]
    /\ cache \in Entries(CacheCapacity) /\ negative \in Entries(NegativeCapacity)
    /\ seen \in [Callers -> SUBSET Callers]

Leading == {c \in Callers : pc[c] \in {"slot", "lookup", "store", "publish"}}

(***************************************************************************)
(* Concurrent requests for one name never look it up twice: a leader that  *)
(* has not published is the registered one of its key, whoever finished or *)
(* was cancelled before it.                                                *)
(***************************************************************************)
OneFlight == \A c \in Leading : inflight[Name[c]] = c

(***************************************************************************)
(* publish: a shared outcome reaches the requests it was coalesced with    *)
(* and no other.  One that begins after it was sent looks for itself.      *)
(***************************************************************************)
OutcomeScoped == \A c \in Callers : pc[c] = "follow" => leader[c] \notin seen[c]

(***************************************************************************)
(* Blocking lookups stay within the slots, those that nobody waits for any *)
(* more included.                                                          *)
(***************************************************************************)
Busy == {c \in Callers : job[c] \in {"running", "orphan"}}
LookupsBounded == Cardinality(Busy) <= LookupSlots

(***************************************************************************)
(* A leader that times out answers its followers: only one whose own       *)
(* client has gone sends them back to look for themselves.                 *)
(***************************************************************************)
NoFanOut == \A c \in Callers : channel[c] = "dropped" => pc[c] = "cancelled"

(***************************************************************************)
(* Coalescing, whole: one lookup per name at a time, its outcome for those *)
(* that asked while it ran, and a timeout that is shared and not retried   *)
(* by each.                                                                *)
(***************************************************************************)
Coalesced == OneFlight /\ OutcomeScoped /\ NoFanOut

(***************************************************************************)
(* resolve_domain and system_lookup together: lookups are shared soundly,  *)
(* and those that were given up neither answer anyone nor free their slot. *)
(***************************************************************************)
LookupsSound == Coalesced /\ LookupsBounded

(***************************************************************************)
(* Every request returns, although the system's resolver may never do and  *)
(* any leader may be cancelled.                                            *)
(***************************************************************************)
RequestsReturn == \A c \in Callers : pc[c] # "new" ~> pc[c] \in Ended
=============================================================================
