-------------------------------- MODULE Auth -------------------------------
(***************************************************************************)
(* Verification of SOCKS credentials (auth.rs), by the user list or by the *)
(* auth.command hook of the configuration a connection was accepted under. *)
(*                                                                         *)
(* Every generation of the configuration has a cache and a limiter of      *)
(* commands of its own; the limiter of password hashing is the process's.  *)
(* A job is what a connection's verification has started and what may      *)
(* outlive it: a hash on a blocking thread, or a child process until it is *)
(* reaped.  A password is right if it is in accepts, which stands for the  *)
(* hash comparison and for the exit status of the command.                 *)
(***************************************************************************)
EXTENDS Integers, Sequences, FiniteSets

CONSTANTS
    Conns,
    Generations,        \* of the configuration, 1 .. n
    Creds,              \* pairs [user, password]
    Configs,            \* Generations -> configuration
    MaxVerifications,   \* MAX_CONCURRENT_PASSWORD_VERIFICATIONS
    MaxCommands,        \* MAX_CONCURRENT_AUTH_COMMANDS
    CacheCapacity,      \* MAX_VERIFIED_CACHE_ENTRIES
    Framing             \* the credentials that hold a CR, LF or NUL

ASSUME AuthAssumption ==
    /\ MaxVerifications \in Nat \ {0} /\ MaxCommands \in Nat \ {0}
    /\ CacheCapacity \in Nat \ {0}

VARIABLES
    job,        \* conn -> where its verification stands
    hashFree,   \* permits left of password_verify_semaphore
    commandFree,\* generation -> permits left of its limiter
    verified    \* generation -> its VerifiedCache, oldest entry first

authVars == <<job, hashFree, commandFree, verified>>

\* With a permit: a hash (hashing), a child that is being fed (delivering),
\* awaited (running) or killed and awaited by the reaper (reaping).
\* A stuck child was given up by the reaper and left to the orphan queue.
JobStates == {"none", "waiting", "hashing", "hashed", "delivering", "running", "reaping", "stuck"}
ChildStates == {"delivering", "running", "reaping"}

AuthInit ==
    /\ job = [c \in Conns |-> "none"]
    /\ hashFree = MaxVerifications
    /\ commandFree = [g \in Generations |-> MaxCommands]
    /\ verified = [g \in Generations |-> <<>>]

Commanded(g) == Configs[g].command

accepts(g, cred) == cred \in Configs[g].users

\* Where the cache has its entry of the user, if it has one.
Entry(cache, user) == {i \in DOMAIN cache : cache[i].user = user}

\* The cache with that entry removed.
Without(cache, user) ==
    LET i == CHOOSE i \in Entry(cache, user) : TRUE
    IN  SubSeq(cache, 1, i - 1) \o SubSeq(cache, i + 1, Len(cache))

\* VerifiedCache::check
check(g, cred) ==
    \E i \in Entry(verified[g], cred.user) :
        verified[g][i].live /\ verified[g][i].password = cred.password

\* An expired entry is dropped by the check that meets it.
Checked(g, cred) ==
    IF \E i \in Entry(verified[g], cred.user) : ~verified[g][i].live
    THEN Without(verified[g], cred.user) ELSE verified[g]

\* What has not expired: entries expire oldest first.
Live(cache) ==
    LET live == {i \in DOMAIN cache : cache[i].live}
    IN  IF live = {} THEN <<>>
        ELSE SubSeq(cache, CHOOSE i \in live : \A j \in live : i <= j, Len(cache))

\* VerifiedCache::store: room is made by dropping what has expired, and else
\* by dropping the entry that would expire first.  An entry of the same user
\* is replaced and becomes the last to expire.
Room(cache, user) ==
    IF Entry(cache, user) # {} THEN Without(cache, user)
    ELSE IF Len(cache) < CacheCapacity THEN cache
    ELSE IF Len(Live(cache)) < CacheCapacity THEN Live(cache) ELSE Tail(Live(cache))

store(cache, cred) ==
    Append(Room(cache, cred.user), [user |-> cred.user, password |-> cred.password, live |-> TRUE])

\* Faulty: one cache serves every generation.
Remember_Shared(g, cred) ==
    [h \in Generations |-> IF Configs[g].ttl THEN store(verified[h], cred) ELSE verified[h]]

\* A success enters the cache of the database that verified it.
Remember(g, cred) ==
    IF Configs[g].ttl THEN [verified EXCEPT ![g] = store(@, cred)] ELSE verified

\* checked_add(ttl) has passed for one entry; entries expire oldest first.
EntryExpires(g) ==
    /\ \E i \in DOMAIN verified[g] :
           /\ verified[g][i].live /\ \A j \in 1 .. i - 1 : ~verified[g][j].live
           /\ verified' = [verified EXCEPT ![g][i].live = FALSE]
    /\ UNCHANGED <<job, hashFree, commandFree>>

-----------------------------------------------------------------------------
(***************************************************************************)
(* The steps of a job.  c is a connection, g the generation it runs under. *)
(***************************************************************************)

SetJob(c, state) == job' = [job EXCEPT ![c] = state]

TakeCommand(g) == commandFree[g] > 0 /\ commandFree' = [commandFree EXCEPT ![g] = @ - 1]
FreeCommand(g) == commandFree' = [commandFree EXCEPT ![g] = @ + 1]

\* verify_async of the user list takes a permit and hands it to the thread.
StartHash(c, g) ==
    /\ job[c] = "waiting" /\ ~Commanded(g)
    /\ hashFree > 0 /\ hashFree' = hashFree - 1
    /\ SetJob(c, "hashing")
    /\ UNCHANGED <<commandFree, verified>>

\* The thread ends and its permit with it; the connection is told, if it is
\* still there.
EndHash(c, waited) ==
    /\ job[c] = "hashing"
    /\ hashFree' = hashFree + 1
    /\ SetJob(c, IF waited THEN "hashed" ELSE "none")
    /\ UNCHANGED <<commandFree, verified>>

\* CommandAuth::run takes a slot and spawns the child under its guard.
Spawn(c, g) ==
    /\ job[c] = "waiting" /\ Commanded(g)
    /\ TakeCommand(g)
    /\ SetJob(c, "delivering")
    /\ UNCHANGED <<hashFree, verified>>

\* The child could not be spawned: the permit is dropped at once.
SpawnFails(c, g) ==
    /\ job[c] = "waiting" /\ Commanded(g)
    /\ commandFree[g] > 0
    /\ SetJob(c, "none")
    /\ UNCHANGED <<hashFree, commandFree, verified>>

Deliver(c) ==
    /\ job[c] = "delivering"
    /\ SetJob(c, "running")
    /\ UNCHANGED <<hashFree, commandFree, verified>>

\* The child does not take the credentials, or cannot be waited for: the
\* guard is dropped armed.
GuardDropped(c, from) ==
    /\ job[c] = from
    /\ SetJob(c, "reaping")
    /\ UNCHANGED <<hashFree, commandFree, verified>>

\* wait returned a status: the guard is disarmed and the slot is free.
Exit(c, g) ==
    /\ job[c] = "running"
    /\ SetJob(c, "none")
    /\ FreeCommand(g)
    /\ UNCHANGED hashFree

\* Faulty: the slot is given back with the kill.
Dropped_SlotFreed(c, g) ==
    /\ SetJob(c, CASE job[c] \in {"delivering", "running"} -> "reaping"
                   [] job[c] \in {"waiting", "hashed"} -> "none"
                   [] OTHER -> job[c])
    /\ commandFree' = IF job[c] \in {"delivering", "running"}
                      THEN [commandFree EXCEPT ![g] = @ + 1] ELSE commandFree
    /\ UNCHANGED <<hashFree, verified>>

\* The future of the verification is dropped, by its timeout or with its
\* connection: a hash goes on, a child is killed and reaped out of band.
Dropped(c, g) ==
    /\ SetJob(c, CASE job[c] \in {"delivering", "running"} -> "reaping"
                   [] job[c] \in {"waiting", "hashed"} -> "none"
                   [] OTHER -> job[c])
    /\ UNCHANGED <<hashFree, commandFree, verified>>

\* ChildReaper::drop: the killed child is gone, and then its slot is free.
Reaped(c, g) ==
    /\ job[c] = "reaping"
    /\ SetJob(c, "none") /\ FreeCommand(g)
    /\ UNCHANGED <<hashFree, verified>>

\* Faulty: the reaper waits for the child whatever it takes.
ReapTimeout_Never(c, g) == FALSE /\ UNCHANGED authVars

\* REAP_WAIT_TIMEOUT: the child is left to the orphan queue, the slot freed.
ReapTimeout(c, g) ==
    /\ job[c] = "reaping"
    /\ SetJob(c, "stuck") /\ FreeCommand(g)
    /\ UNCHANGED <<hashFree, verified>>

OrphanReaped(c) ==
    /\ job[c] = "stuck"
    /\ SetJob(c, "none")
    /\ UNCHANGED <<hashFree, commandFree, verified>>
=============================================================================
