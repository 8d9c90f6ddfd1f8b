-------------------------- MODULE ConnectionProofs --------------------------
(***************************************************************************)
(* Client connections, for any number of them, of configurations, rules,   *)
(* credentials and plugins: who is let through, what a refusal means, and  *)
(* what a connection gives back.                                           *)
(***************************************************************************)
EXTENDS Connection, FiniteSetTheorems, WellFoundedInduction, NaturalsInduction, TLAPS

-----------------------------------------------------------------------------
(***************************************************************************)
(* The rules.                                                              *)
(***************************************************************************)

(* A selector that AddrSpec::matches_all calls universal does match every   *)
(* destination, whatever its family, port and name.                        *)
LEMMA MatchesAllMatches ==
    ASSUME NEW spec, NEW dest, dest.addr.v6 \in BOOLEAN,
           \A cidr \in spec.cidrs : cidr.v6 \in BOOLEAN,
           MatchesAll(spec)
    PROVE  MatchesDest(spec, dest)
<1>1. PICK four \in spec.cidrs : four.prefix = 0 /\ ~four.v6
    BY DEF MatchesAll
<1>2. PICK six \in spec.cidrs : six.prefix = 0 /\ six.v6
    BY DEF MatchesAll
<1>3. PortMatches(spec, dest.port)
    BY DEF MatchesAll, PortMatches
<1>4. CASE dest.addr.v6 = TRUE
    <2>1. Contains(six, dest.addr)
        BY <1>2, <1>4 DEF Contains
    <2>2. QED
        BY <1>3, <2>1 DEF MatchesDest
<1>5. CASE dest.addr.v6 = FALSE
    <2>1. Contains(four, dest.addr)
        BY <1>1, <1>5 DEF Contains
    <2>2. QED
        BY <1>3, <2>1 DEF MatchesDest
<1>6. QED
    BY <1>4, <1>5

(* RuleSet::udp_associate_reachable is conservative: a client it refuses    *)
(* could not have sent a datagram to any destination, so the refusal of     *)
(* connection.rs before any socket is bound loses nothing.                 *)
THEOREM GateSound ==
    ASSUME NEW rules, NEW client, NEW method, NEW dest,
           DOMAIN rules \subseteq Nat,
           \A i \in DOMAIN rules : 1 .. i \subseteq DOMAIN rules,
           dest.addr.v6 \in BOOLEAN,
           \A i \in DOMAIN rules : \A cidr \in rules[i].to.cidrs : cidr.v6 \in BOOLEAN,
           MayPass(rules, client, dest, method)
    PROVE  udp_associate_reachable(rules, client, method)
<1>1. PICK i \in DOMAIN rules :
          /\ matches_socks(rules[i], client, dest, "udp", "udp", method)
          /\ rules[i].pass
          /\ \A j \in 1 .. i - 1 :
                 ~matches_socks(rules[j], client, dest, "udp", "udp", method)
    BY DEF MayPass, evaluate_socks
<1>2. Applies(rules[i], client, "udp", "udp", method)
    BY <1>1 DEF matches_socks
<1>3. ASSUME NEW j \in 1 .. i - 1,
             Applies(rules[j], client, "udp", "udp", method), MatchesAll(rules[j].to)
      PROVE  FALSE
    <2>1. j \in DOMAIN rules
        BY <1>1
    <2>2. MatchesDest(rules[j].to, dest)
        BY <1>3, <2>1, MatchesAllMatches
    <2>3. matches_socks(rules[j], client, dest, "udp", "udp", method)
        BY <1>3, <2>2 DEF matches_socks
    <2>4. QED
        BY <1>1, <2>3
<1>4. QED
    BY <1>1, <1>2, <1>3 DEF udp_associate_reachable

-----------------------------------------------------------------------------
(***************************************************************************)
(* The inductive invariant.                                                *)
(***************************************************************************)

Entries ==
    [user : {cred.user : cred \in Creds}, password : {cred.password : cred \in Creds},
     live : BOOLEAN]

\* The entries that the cache of a generation may hold.
Right(g) == {e \in Entries : accepts(g, [user |-> e.user, password |-> e.password])}

Replies ==
    {"ConnectionRefused", "TtlExpired", "HostUnreachable", "ConnectionNotAllowed",
     "NetworkUnreachable", "GeneralFailure"}

Told ==
    Replies \cup {None, "NoAcceptable", "method", "granted", "refused", "Succeeded",
                  "CommandNotSupported", "AddressTypeNotSupported"}

Early == {"new", "client", "greeting", "userpass"}
Served == {"request", "resolving", "trying", "connecting", "flow", "relay", "advertise", "udp"}
Plugged == {"flow", "relay", "flowEnd", "ended"}
Phases == Early \cup {"verify"} \cup Served \cup Plugged

Handlers ==
    [phase : Phases, gen : Generations, method : {None, "None", "UserPass"},
     cred : Creds \cup {None}, told : Told, counted : Nat, command : {None, "connect", "udp"},
     cands : Seq(Dests), offered : SUBSET Dests, error : Errors \cup {None},
     target : Dests \cup {None}, begun : SUBSET Nat, ended : SUBSET Nat, aborted : BOOLEAN]

Allows(r, dest) == evaluate_socks(Configs[r.gen].rules, Client, dest, "connect", "tcp", r.method)

\* What a handler has passed on its way: the client rule, a method of its
\* configuration and, before it serves a user, the credentials.
Passed(r) ==
    /\ r.phase \in Served \cup {"greeting", "userpass", "verify"} =>
          evaluate_client(Configs[r.gen].rules, Client, Proxy)
    /\ r.phase \in Served \cup {"userpass", "verify"} =>
          \E i \in DOMAIN Configs[r.gen].methods : Configs[r.gen].methods[i] = r.method
    /\ r.phase \in Served => (r.method = "UserPass" => accepts(r.gen, r.cred))
    /\ r.phase = "verify" => r.cred \in Creds

\* The candidate being connected to passes the rules, and so does the target.
\* Until an attempt fails, what was offered and is not a candidate any more
\* was denied.
Tried(r) ==
    /\ r.phase = "connecting" => r.cands # <<>> /\ Allows(r, Head(r.cands))
    /\ r.target # None => r.phase \in Plugged /\ Allows(r, r.target)
    /\ r.phase \in {"trying", "connecting"} /\ r.error = None =>
          \A dest \in r.offered : (\E i \in DOMAIN r.cands : r.cands[i] = dest) \/ ~Allows(r, dest)
    /\ r.phase \in Early \cup {"verify", "request", "resolving"} => r.offered = {}
    /\ r.phase \in {"resolving", "trying", "connecting"} => r.command = "connect"

\* The rules denied what a client is told they denied.
Denied(r) ==
    r.told = "ConnectionNotAllowed" =>
        /\ r.phase = "ended"
        /\ r.error = None =>
              IF r.command = "udp"
              THEN \A dest \in Dests : ~MayPass(Configs[r.gen].rules, Client, dest, r.method)
              ELSE \A dest \in r.offered : ~Allows(r, dest)

\* Plugins are asked, and told of the end, in order, each once.
Hooked(r) ==
    /\ r.phase \notin Plugged => r.begun = {} /\ r.ended = {}
    /\ r.phase = "flow" =>
          r.ended = {} /\ \E k \in 0 .. Configs[r.gen].plugins - 1 : r.begun = 1 .. k
    /\ r.phase = "relay" => r.ended = {} /\ r.begun \subseteq 1 .. Configs[r.gen].plugins
    /\ r.phase = "flowEnd" =>
          /\ r.begun \subseteq 1 .. Configs[r.gen].plugins
          /\ \E k \in 0 .. Configs[r.gen].plugins - 1 : r.ended = 1 .. k
    /\ r.phase = "ended" /\ ~r.aborted => r.begun \subseteq r.ended

\* A failure is counted when, and only when, the client is told of it.
Counted(r) ==
    /\ r.counted = IF r.told \in {"NoAcceptable", "refused"} THEN 1 ELSE 0
    /\ r.phase # "ended" => r.counted = 0

Sound(r) == r \in Handlers /\ Passed(r) /\ Tried(r) /\ Denied(r) /\ Hooked(r) /\ Counted(r)

HandlersSound == conn \in [Conns -> Handlers] /\ \A c \in Conns : Sound(conn[c])

\* Only a verification in progress waits, is being fed or awaited; before it
\* there is no job.
JobsSound ==
    /\ job \in [Conns -> JobStates]
    /\ \A c \in Conns :
          /\ job[c] \in {"waiting", "hashed", "delivering", "running"} => conn[c].phase = "verify"
          /\ conn[c].phase \in Early => job[c] = "none"

\* Each cache holds what its own generation accepts, within its capacity.
CachesSound ==
    /\ verified \in [Generations -> Seq(Entries)]
    /\ \A g \in Generations : verified[g] \in Seq(Right(g)) /\ Len(verified[g]) <= CacheCapacity

Hashing == {c \in Conns : job[c] = "hashing"}
Children(g) == {c \in Conns : conn[c].gen = g /\ job[c] \in ChildStates}

\* A permit is free or in the hands of the work it is for.
PermitsSound ==
    /\ hashFree \in Nat /\ hashFree + Cardinality(Hashing) = MaxVerifications
    /\ commandFree \in [Generations -> Nat]
    /\ \A g \in Generations : commandFree[g] + Cardinality(Children(g)) = MaxCommands

ConnectionInv ==
    generation \in Generations /\ HandlersSound /\ JobsSound /\ CachesSound /\ PermitsSound

-----------------------------------------------------------------------------
(***************************************************************************)
(* The cache of verified credentials.                                      *)
(***************************************************************************)

LEMMA Smallest ==
    ASSUME NEW T \in SUBSET Nat, T # {}
    PROVE  \E x \in T : \A y \in T : x <= y
<1> DEFINE R == {pair \in Nat \X Nat : pair[1] < pair[2]}
<1>1. IsWellFoundedOn(R, Nat)
    BY NatLessThanWellFounded DEF OpToRel
<1>2. \A x, y \in Nat : <<y, x>> \notin R => x <= y
    OBVIOUS
<1> HIDE DEF R
<1>3. \E x \in T : \A y \in T : ~(<<y, x>> \in R)
    BY <1>1, WFMin
<1>4. QED
    BY <1>2, <1>3

LEMMA SubSeqFacts ==
    ASSUME NEW S, NEW s \in Seq(S), NEW i \in 1 .. Len(s) + 1, NEW j \in 0 .. Len(s)
    PROVE  SubSeq(s, i, j) \in Seq(S) /\ Len(SubSeq(s, i, j)) = IF i <= j THEN j - i + 1 ELSE 0
OBVIOUS

LEMMA WithoutFacts ==
    ASSUME NEW S, NEW cache \in Seq(S), NEW user, Entry(cache, user) # {}
    PROVE  Without(cache, user) \in Seq(S) /\ Len(Without(cache, user)) = Len(cache) - 1
<1> DEFINE i == CHOOSE i \in Entry(cache, user) : TRUE
           a == SubSeq(cache, 1, i - 1)
           b == SubSeq(cache, i + 1, Len(cache))
<1>1. i \in 1 .. Len(cache)
    BY DEF Entry
<1> HIDE DEF i
<1>2. a \in Seq(S) /\ Len(a) = i - 1 /\ b \in Seq(S) /\ Len(b) = Len(cache) - i
    BY <1>1, SubSeqFacts
<1>3. Without(cache, user) = a \o b
    BY DEF Without, i
<1> HIDE DEF a, b
<1>4. a \o b \in Seq(S) /\ Len(a \o b) = Len(a) + Len(b)
    BY <1>2
<1>5. QED
    BY <1>1, <1>2, <1>3, <1>4

LEMMA LiveFacts ==
    ASSUME NEW S, NEW cache \in Seq(S)
    PROVE  Live(cache) \in Seq(S) /\ Len(Live(cache)) <= Len(cache)
<1> DEFINE live == {i \in DOMAIN cache : cache[i].live}
           first == CHOOSE i \in live : \A j \in live : i <= j
<1>1. CASE live = {}
    BY <1>1 DEF Live
<1>2. CASE live # {}
    <2>1. first \in 1 .. Len(cache)
        <3>1. live \in SUBSET Nat /\ live \subseteq 1 .. Len(cache)
            OBVIOUS
        <3> HIDE DEF live
        <3>2. first \in live
            BY <1>2, <3>1, Smallest
        <3>3. QED
            BY <3>1, <3>2
    <2>2. Live(cache) = SubSeq(cache, first, Len(cache))
        BY <1>2 DEF Live
    <2> HIDE DEF first
    <2>3. QED
        BY <2>1, <2>2, SubSeqFacts
<1>3. QED
    BY <1>1, <1>2

(* VerifiedCache::store: the cache stays within its capacity, and the new   *)
(* entry is the only one that enters it.                                   *)
LEMMA StoreFacts ==
    ASSUME NEW S, NEW cache \in Seq(S), Len(cache) <= CacheCapacity, NEW cred,
           [user |-> cred.user, password |-> cred.password, live |-> TRUE] \in S
    PROVE  store(cache, cred) \in Seq(S) /\ Len(store(cache, cred)) <= CacheCapacity
<1> DEFINE room == Room(cache, cred.user)
<1>1. room \in Seq(S) /\ Len(room) < CacheCapacity
    <2>1. CASE Entry(cache, cred.user) # {}
        BY <2>1, WithoutFacts, AuthAssumption DEF Room
    <2>2. CASE Entry(cache, cred.user) = {}
        <3>1. Live(cache) \in Seq(S) /\ Len(Live(cache)) <= Len(cache)
            BY LiveFacts
        <3>2. CASE Len(cache) < CacheCapacity \/ Len(Live(cache)) < CacheCapacity
            BY <2>2, <3>1, <3>2 DEF Room
        <3>3. CASE ~(Len(cache) < CacheCapacity \/ Len(Live(cache)) < CacheCapacity)
            <4>1. room = Tail(Live(cache))
                BY <2>2, <3>3 DEF Room
            <4>2. Len(Live(cache)) = CacheCapacity
                BY <3>1, <3>3, AuthAssumption
            <4>3. Tail(Live(cache)) \in Seq(S) /\ Len(Tail(Live(cache))) = CacheCapacity - 1
                BY <3>1, <4>2, AuthAssumption
            <4>4. QED
                BY <4>1, <4>3, AuthAssumption
        <3>4. QED
            BY <3>2, <3>3
    <2>3. QED
        BY <2>1, <2>2
<1> HIDE DEF room
<1>2. store(cache, cred) =
          Append(room, [user |-> cred.user, password |-> cred.password, live |-> TRUE])
    BY DEF store, room
<1>3. QED
    BY <1>1, <1>2, AuthAssumption

(* A cache holds nothing that its own generation would not accept: what     *)
(* UserDb::verify_async answers from it, it would answer after the hash.    *)
LEMMA CacheHonest ==
    ASSUME CachesSound, NEW g \in Generations, NEW cred \in Creds, check(g, cred)
    PROVE  accepts(g, cred)
<1>1. PICK i \in DOMAIN verified[g] :
          verified[g][i].user = cred.user /\ verified[g][i].password = cred.password
    BY DEF check, Entry
<1>2. verified[g][i] \in Right(g)
    BY <1>1 DEF CachesSound
<1>3. cred = [user |-> cred.user, password |-> cred.password]
    BY ConnectionAssumption
<1>4. QED
    BY <1>1, <1>2, <1>3 DEF Right

LEMMA StoreKeeps ==
    ASSUME CachesSound, NEW g \in Generations, NEW cred \in Creds, accepts(g, cred),
           verified' = Remember(g, cred)
    PROVE  CachesSound'
<1> DEFINE e == [user |-> cred.user, password |-> cred.password, live |-> TRUE]
<1>1. cred = [user |-> cred.user, password |-> cred.password]
    BY ConnectionAssumption
<1>2. e \in Right(g) /\ Right(g) \subseteq Entries
    BY <1>1 DEF Right, Entries
<1>3. store(verified[g], cred) \in Seq(Right(g)) /\ Len(store(verified[g], cred)) <= CacheCapacity
    BY <1>2, StoreFacts DEF CachesSound
<1>4. store(verified[g], cred) \in Seq(Entries)
    BY <1>2, <1>3
<1>5. CASE Configs[g].ttl
    BY <1>3, <1>4, <1>5 DEF Remember, CachesSound, Right, accepts
<1>6. CASE ~Configs[g].ttl
    BY <1>6 DEF Remember, CachesSound, Right, accepts
<1>7. QED
    BY <1>5, <1>6

LEMMA CheckKeeps ==
    ASSUME CachesSound, NEW g \in Generations, NEW cred,
           verified' = [verified EXCEPT ![g] = Checked(g, cred)]
    PROVE  CachesSound'
<1>1. /\ Checked(g, cred) \in Seq(Right(g)) /\ Checked(g, cred) \in Seq(Entries)
      /\ Len(Checked(g, cred)) <= CacheCapacity
    <2>1. CASE \E i \in Entry(verified[g], cred.user) : ~verified[g][i].live
        BY <2>1, WithoutFacts, AuthAssumption DEF Checked, CachesSound
    <2>2. CASE ~\E i \in Entry(verified[g], cred.user) : ~verified[g][i].live
        BY <2>2 DEF Checked, CachesSound
    <2>3. QED
        BY <2>1, <2>2
<1>2. QED
    BY <1>1 DEF CachesSound, Right, accepts

LEMMA ExpiryKeeps ==
    ASSUME CachesSound, NEW g \in Generations, EntryExpires(g)
    PROVE  CachesSound'
<1>1. PICK i \in DOMAIN verified[g] : verified' = [verified EXCEPT ![g][i].live = FALSE]
    BY DEF EntryExpires
<1> DEFINE e == verified[g][i]
           new == [verified[g] EXCEPT ![i].live = FALSE]
<1>2. e \in Right(g)
    BY <1>1 DEF CachesSound
<1>3. [e EXCEPT !.live = FALSE] \in Right(g)
    BY <1>2 DEF Right, Entries
<1>4. new \in Seq(Right(g)) /\ new \in Seq(Entries) /\ Len(new) = Len(verified[g])
    BY <1>1, <1>3 DEF CachesSound, Right
<1>5. verified' = [verified EXCEPT ![g] = new]
    BY <1>1 DEF CachesSound
<1> HIDE DEF new
<1>6. QED
    BY <1>4, <1>5 DEF CachesSound, Right, accepts

-----------------------------------------------------------------------------
(***************************************************************************)
(* Permits.                                                                *)
(***************************************************************************)

One(b) == IF b THEN 1 ELSE 0

(* Two sets that differ in one element at most.                            *)
LEMMA Neighbours ==
    ASSUME NEW S, NEW T, IsFiniteSet(S), NEW c, T \ {c} = S \ {c}
    PROVE  /\ Cardinality(S) \in Nat /\ Cardinality(T) \in Nat
           /\ Cardinality(T) + One(c \in S) = Cardinality(S) + One(c \in T)
           /\ Cardinality(S) >= One(c \in S)
<1> DEFINE U == S \ {c}
<1>1. IsFiniteSet(U) /\ c \notin U /\ Cardinality(U) \in Nat
    BY FS_Subset, FS_CardinalityType
<1>2. Cardinality(U \cup {c}) = Cardinality(U) + 1
    BY <1>1, FS_AddElement
<1>3. S = IF c \in S THEN U \cup {c} ELSE U
    OBVIOUS
<1>4. T = IF c \in T THEN U \cup {c} ELSE U
    OBVIOUS
<1> HIDE DEF U
<1>5. Cardinality(S) = Cardinality(U) + One(c \in S)
    BY <1>1, <1>2, <1>3 DEF One
<1>6. Cardinality(T) = Cardinality(U) + One(c \in T)
    <2>1. CASE c \in T
        <3>1. T = U \cup {c} /\ One(c \in T) = 1
            BY <1>4, <2>1 DEF One
        <3>2. QED
            BY <1>2, <3>1
    <2>2. CASE c \notin T
        <3>1. T = U /\ One(c \in T) = 0
            BY <1>4, <2>2 DEF One
        <3>2. QED
            BY <1>1, <3>1
    <2>3. QED
        BY <2>1, <2>2
<1>7. One(c \in S) \in {0, 1} /\ One(c \in T) \in {0, 1}
    BY DEF One
<1>8. QED
    BY <1>1, <1>5, <1>6, <1>7

\* The job of one connection moves, and with it the permits it takes or
\* gives back.
Moves(c, j) ==
    /\ j \in JobStates
    /\ job' = [job EXCEPT ![c] = j]
    /\ hashFree' + One(j = "hashing") = hashFree + One(job[c] = "hashing")
    /\ hashFree' \in Nat
    /\ commandFree' = [commandFree EXCEPT ![conn[c].gen] =
                           @ + One(job[c] \in ChildStates) - One(j \in ChildStates)]
    /\ commandFree[conn[c].gen] + One(job[c] \in ChildStates) >= One(j \in ChildStates)

LEMMA PermitsKept ==
    ASSUME HandlersSound, JobsSound, PermitsSound, NEW c \in Conns, NEW j, Moves(c, j),
           \A d \in Conns : conn'[d].gen = conn[d].gen
    PROVE  PermitsSound'
<1> DEFINE g == conn[c].gen
<1>1. g \in Generations
    BY DEF HandlersSound, Handlers
<1>2. IsFiniteSet(Conns) /\ IsFiniteSet(Hashing) /\ \A h \in Generations : IsFiniteSet(Children(h))
    BY ConnectionAssumption, FS_Subset DEF Hashing, Children
<1>3. \A d \in Conns : job'[d] = IF d = c THEN j ELSE job[d]
    BY DEF Moves, JobsSound
<1>4. /\ Hashing' \ {c} = Hashing \ {c}
      /\ (c \in Hashing) = (job[c] = "hashing") /\ (c \in Hashing') = (j = "hashing")
    BY <1>3 DEF Hashing
<1>5. /\ Cardinality(Hashing) \in Nat /\ Cardinality(Hashing') \in Nat
      /\ Cardinality(Hashing') + One(job[c] = "hashing") = Cardinality(Hashing) + One(j = "hashing")
    BY <1>2, <1>4, Neighbours
<1>7. hashFree' \in Nat /\ hashFree' + Cardinality(Hashing') = MaxVerifications
    <2>1. One(job[c] = "hashing") \in Nat /\ One(j = "hashing") \in Nat
        BY DEF One
    <2>2. hashFree' + One(j = "hashing") = hashFree + One(job[c] = "hashing") /\ hashFree' \in Nat
        BY DEF Moves
    <2>3. QED
        BY <1>5, <2>1, <2>2, AuthAssumption DEF PermitsSound
<1>8. commandFree' \in [Generations -> Nat]
    <2>1. One(job[c] \in ChildStates) \in Nat /\ One(j \in ChildStates) \in Nat
        BY DEF One
    <2>2. QED
        BY <1>1, <2>1 DEF Moves, PermitsSound
<1>9. ASSUME NEW h \in Generations, h # g
      PROVE  commandFree'[h] + Cardinality(Children(h)') = MaxCommands
    <2>1. Children(h)' = Children(h)
        BY <1>3, <1>9 DEF Children
    <2>2. commandFree'[h] = commandFree[h]
        BY <1>1, <1>9 DEF Moves, PermitsSound
    <2>3. QED
        BY <2>1, <2>2 DEF PermitsSound
<1>10. commandFree'[g] + Cardinality(Children(g)') = MaxCommands
    <2>1. /\ Children(g)' \ {c} = Children(g) \ {c}
          /\ (c \in Children(g)) = (job[c] \in ChildStates)
          /\ (c \in Children(g)') = (j \in ChildStates)
        BY <1>3 DEF Children
    <2>2. /\ Cardinality(Children(g)) \in Nat /\ Cardinality(Children(g)') \in Nat
          /\ Cardinality(Children(g)') + One(job[c] \in ChildStates)
                 = Cardinality(Children(g)) + One(j \in ChildStates)
        BY <1>1, <1>2, <2>1, Neighbours
    <2>3. One(job[c] \in ChildStates) \in Nat /\ One(j \in ChildStates) \in Nat
        BY DEF One
    <2>4. commandFree'[g] = commandFree[g] + One(job[c] \in ChildStates) - One(j \in ChildStates)
        BY <1>1 DEF Moves, PermitsSound
    <2>5. QED
        BY <1>1, <2>2, <2>3, <2>4, AuthAssumption DEF PermitsSound
<1>11. QED
    <2>1. \A h \in Generations : commandFree'[h] + Cardinality(Children(h)') = MaxCommands
        BY <1>9, <1>10
    <2>2. QED
        BY <1>7, <1>8, <2>1 DEF PermitsSound

(* Which permits each step of a verification moves.                        *)
LEMMA JobMoves ==
    ASSUME HandlersSound, JobsSound, PermitsSound, NEW c \in Conns
    PROVE  LET g == conn[c].gen IN
           /\ job[c] = "none" /\ SetJob(c, "waiting") /\ UNCHANGED <<hashFree, commandFree>>
                  => Moves(c, "waiting")
           /\ StartHash(c, g) => Moves(c, "hashing")
           /\ \A waited \in BOOLEAN :
                  EndHash(c, waited) => Moves(c, IF waited THEN "hashed" ELSE "none")
           /\ job[c] = "hashed" /\ SetJob(c, "none") /\ UNCHANGED <<hashFree, commandFree>>
                  => Moves(c, "none")
           /\ Spawn(c, g) => Moves(c, "delivering")
           /\ SpawnFails(c, g) => Moves(c, "none")
           /\ Deliver(c) => Moves(c, "running")
           /\ \A from \in {"delivering", "running"} : GuardDropped(c, from) => Moves(c, "reaping")
           /\ Exit(c, g) => Moves(c, "none")
           /\ Reaped(c, g) => Moves(c, "none")
           /\ ReapTimeout(c, g) => Moves(c, "stuck")
           /\ OrphanReaped(c) => Moves(c, "none")
<1> DEFINE g == conn[c].gen
<1>1. g \in Generations /\ commandFree \in [Generations -> Nat] /\ hashFree \in Nat
      /\ job \in [Conns -> JobStates]
    BY DEF HandlersSound, Handlers, PermitsSound, JobsSound
<1>2. UNCHANGED commandFree =>
          commandFree' = [commandFree EXCEPT ![g] = @ + 1 - 1]
          /\ commandFree' = [commandFree EXCEPT ![g] = @ + 0 - 0]
    BY <1>1
<1>3. /\ TakeCommand(g) => commandFree' = [commandFree EXCEPT ![g] = @ + 0 - 1]
      /\ FreeCommand(g) => commandFree' = [commandFree EXCEPT ![g] = @ + 1 - 0]
    BY <1>1 DEF TakeCommand, FreeCommand
<1> HIDE DEF g
<1>4. /\ job[c] = "none" /\ SetJob(c, "waiting") /\ UNCHANGED <<hashFree, commandFree>>
             => Moves(c, "waiting")
      /\ StartHash(c, g) => Moves(c, "hashing")
      /\ job[c] = "hashed" /\ SetJob(c, "none") /\ UNCHANGED <<hashFree, commandFree>>
             => Moves(c, "none")
    BY <1>1, <1>2 DEF Moves, JobStates, ChildStates, One, SetJob, StartHash, g
<1>5. \A waited \in BOOLEAN : EndHash(c, waited) => Moves(c, IF waited THEN "hashed" ELSE "none")
    BY <1>1, <1>2 DEF Moves, JobStates, ChildStates, One, SetJob, EndHash, g
<1>6. /\ Spawn(c, g) => Moves(c, "delivering")
      /\ SpawnFails(c, g) => Moves(c, "none")
      /\ Deliver(c) => Moves(c, "running")
    BY <1>1, <1>2, <1>3 DEF Moves, JobStates, ChildStates, One, SetJob, Spawn, SpawnFails, Deliver,
        TakeCommand, g
<1>7. \A from \in {"delivering", "running"} : GuardDropped(c, from) => Moves(c, "reaping")
    BY <1>1, <1>2 DEF Moves, JobStates, ChildStates, One, SetJob, GuardDropped, g
<1>8. /\ Exit(c, g) => Moves(c, "none")
      /\ Reaped(c, g) => Moves(c, "none")
      /\ ReapTimeout(c, g) => Moves(c, "stuck")
      /\ OrphanReaped(c) => Moves(c, "none")
    BY <1>1, <1>2, <1>3 DEF Moves, JobStates, ChildStates, One, SetJob, Exit, Reaped, ReapTimeout,
        OrphanReaped, FreeCommand, g
<1>9. QED
    BY <1>4, <1>5, <1>6, <1>7, <1>8 DEF g

-----------------------------------------------------------------------------
(***************************************************************************)
(* Handlers.                                                               *)
(***************************************************************************)

LEMMA StepSound ==
    ASSUME HandlersSound, NEW c \in Conns, NEW r, Sound(r), Step(c, r)
    PROVE  /\ HandlersSound'
           /\ \A d \in Conns : conn'[d] = IF d = c THEN r ELSE conn[d]
<1>1. r \in Handlers
    BY DEF Sound
<1>2. conn' \in [Conns -> Handlers] /\ \A d \in Conns : conn'[d] = IF d = c THEN r ELSE conn[d]
    BY <1>1 DEF HandlersSound, Step
<1>3. \A d \in Conns : Sound(conn'[d])
    BY <1>2 DEF HandlersSound
<1>4. QED
    BY <1>2, <1>3 DEF HandlersSound, Sound, Passed, Tried, Denied, Hooked, Counted, Allows, MayPass,
        accepts

(* A handler steps while nothing is verified for it.                       *)
LEMMA QuietStep ==
    ASSUME ConnectionInv, NEW c \in Conns, NEW r, Step(c, r), UNCHANGED <<authVars, generation>>,
           Sound(r), conn[c].phase # "verify", r.phase \in Early => conn[c].phase \in Early,
           r.gen = conn[c].gen \/ conn[c].phase = "new"
    PROVE  ConnectionInv'
<1> USE DEF ConnectionInv
<1>1. HandlersSound' /\ \A d \in Conns : conn'[d] = IF d = c THEN r ELSE conn[d]
    BY StepSound
<1>2. JobsSound'
    BY <1>1 DEF JobsSound, authVars, JobStates, Early
<1>3. CachesSound'
    BY DEF CachesSound, authVars, Right, accepts
<1>4. Hashing' = Hashing
    BY DEF Hashing, authVars
<1>5. conn[c].phase = "new" => job[c] \notin ChildStates
    BY DEF JobsSound, Early, ChildStates
<1>6. \A g \in Generations : Children(g)' = Children(g)
    BY <1>1, <1>5 DEF Children, authVars
<1>7. PermitsSound'
    BY <1>4, <1>6 DEF PermitsSound, authVars
<1>8. QED
    BY <1>1, <1>2, <1>3, <1>7

(* A verification moves, and its handler with it.                          *)
LEMMA VerifyStep ==
    ASSUME ConnectionInv, NEW c \in Conns, NEW r, NEW j, Step(c, r), Moves(c, j), CachesSound',
           UNCHANGED generation, Sound(r), r.gen = conn[c].gen,
           j \in {"waiting", "hashed", "delivering", "running"} => r.phase = "verify",
           r.phase \in Early => j = "none"
    PROVE  ConnectionInv'
<1> USE DEF ConnectionInv
<1>1. HandlersSound' /\ \A d \in Conns : conn'[d] = IF d = c THEN r ELSE conn[d]
    BY StepSound
<1>2. job' \in [Conns -> JobStates] /\ \A d \in Conns : job'[d] = IF d = c THEN j ELSE job[d]
    BY DEF JobsSound, Moves
<1>3. JobsSound'
    BY <1>1, <1>2 DEF JobsSound
<1>4. PermitsSound'
    BY <1>1, PermitsKept
<1>5. QED
    BY <1>1, <1>3, <1>4

LEMMA Standing ==
    ASSUME HandlersSound, NEW c \in Conns, UNCHANGED conn
    PROVE  Step(c, conn[c]) /\ Sound(conn[c])
BY DEF HandlersSound, Step

(* Before the flow a handler may return at any step, with or without a      *)
(* reply that says nothing of the rules or of the credentials; it may be    *)
(* aborted at any time.                                                    *)
LEMMA Ends ==
    ASSUME NEW r, Sound(r), NEW what \in Told, NEW b \in BOOLEAN,
           IF b THEN r.phase # "ended" ELSE r.phase \notin Plugged,
           what = r.told \/ what \notin {"ConnectionNotAllowed", "NoAcceptable", "refused"}
    PROVE  Sound([r EXCEPT !.phase = "ended", !.told = what, !.aborted = b])
<1> DEFINE n == [r EXCEPT !.phase = "ended", !.told = what, !.aborted = b]
<1>1. n \in Handlers
    BY DEF Sound, Handlers, Phases, Plugged
<1>2. /\ n.phase = "ended" /\ n.gen = r.gen /\ n.method = r.method /\ n.told = what
      /\ n.counted = r.counted /\ n.target = r.target /\ n.begun = r.begun
      /\ n.ended = r.ended /\ n.error = r.error /\ n.aborted = b
    BY <1>1 DEF Sound, Handlers
<1> HIDE DEF n
<1>3. Passed(n)
    BY <1>2 DEF Passed, Served
<1>4. Tried(n)
    BY <1>2 DEF Sound, Tried, Plugged, Allows, Early
<1>5. Denied(n)
    BY <1>2 DEF Sound, Denied, Plugged
<1>6. Hooked(n)
    BY <1>2 DEF Sound, Hooked, Plugged
<1>7. Counted(n)
    BY <1>2 DEF Sound, Counted, Plugged
<1>8. QED
    BY <1>1, <1>3, <1>4, <1>5, <1>6, <1>7 DEF Sound, n

LEMMA Returns ==
    ASSUME NEW r, Sound(r)
    PROVE  /\ r.phase \notin Plugged => Sound(Finished(r))
           /\ r.phase # "ended" => Sound([Finished(r) EXCEPT !.aborted = TRUE])
           /\ r.phase \notin Plugged =>
                  \A what \in Told \ {"ConnectionNotAllowed", "NoAcceptable", "refused"} :
                      Sound([Finished(r) EXCEPT !.told = what])
           /\ Finished(r).gen = r.gen /\ Finished(r).phase = "ended"
<1>1. r \in Handlers /\ r.told \in Told /\ r.aborted \in BOOLEAN
    BY DEF Sound, Handlers
<1>2. Finished(r) = [r EXCEPT !.phase = "ended", !.told = r.told, !.aborted = r.aborted]
    BY <1>1 DEF Finished, Handlers
<1>3. [Finished(r) EXCEPT !.aborted = TRUE] =
          [r EXCEPT !.phase = "ended", !.told = r.told, !.aborted = TRUE]
    BY <1>1 DEF Finished, Handlers
<1>4. \A what : [Finished(r) EXCEPT !.told = what] =
          [r EXCEPT !.phase = "ended", !.told = what, !.aborted = r.aborted]
    BY <1>1 DEF Finished, Handlers
<1>6. r.phase \notin Plugged => r.phase # "ended"
    BY DEF Plugged
<1>7. ASSUME r.phase \notin Plugged
      PROVE  Sound(Finished(r))
    <2>1. Sound([r EXCEPT !.phase = "ended", !.told = r.told, !.aborted = r.aborted])
        BY <1>1, <1>6, <1>7, Ends
    <2>2. QED
        BY <1>2, <2>1
<1>8. r.phase # "ended" => Sound([Finished(r) EXCEPT !.aborted = TRUE])
    BY <1>1, <1>3, Ends
<1>9. ASSUME r.phase \notin Plugged,
             NEW what \in Told \ {"ConnectionNotAllowed", "NoAcceptable", "refused"}
      PROVE  Sound([Finished(r) EXCEPT !.told = what])
    <2>1. Sound([r EXCEPT !.phase = "ended", !.told = what, !.aborted = r.aborted])
        BY <1>1, <1>6, <1>9, Ends
    <2>2. QED
        BY <1>4, <2>1
<1>10. Finished(r).gen = r.gen /\ Finished(r).phase = "ended"
    BY <1>1 DEF Finished, Handlers
<1>11. QED
    BY <1>7, <1>8, <1>9, <1>10

LEMMA ReturnKeeps ==
    ASSUME ConnectionInv, NEW c \in Conns, conn[c].phase \notin Plugged \cup {"verify"},
           Step(c, Finished(conn[c])), UNCHANGED <<authVars, generation>>
    PROVE  ConnectionInv'
<1>1. Sound(conn[c])
    BY DEF ConnectionInv, HandlersSound
<1>2. Sound(Finished(conn[c])) /\ Finished(conn[c]).gen = conn[c].gen
      /\ Finished(conn[c]).phase \notin Early
    BY <1>1, Returns DEF Early
<1>3. QED
    BY <1>2, QuietStep

(* The client is told, and the handler goes on as r, or he is gone.        *)
LEMMA TellKeeps ==
    ASSUME ConnectionInv, NEW c \in Conns, conn[c].phase \notin Plugged \cup {"verify"},
           NEW what, NEW r \in Handlers, Tell(c, what, r), Sound([r EXCEPT !.told = what]),
           r.gen = conn[c].gen, r.phase \notin Early, UNCHANGED <<authVars, generation>>
    PROVE  ConnectionInv'
<1> DEFINE n == [r EXCEPT !.told = what]
<1>1. n.gen = conn[c].gen /\ n.phase \notin Early /\ Sound(n)
    BY DEF Handlers
<1> HIDE DEF n
<1>2. CASE Step(c, n)
    BY <1>1, <1>2, QuietStep
<1>3. CASE Step(c, Finished(conn[c]))
    BY <1>3, ReturnKeeps
<1>4. QED
    BY <1>2, <1>3 DEF Tell, n

LEMMA RefuseKeeps ==
    ASSUME ConnectionInv, NEW c \in Conns, conn[c].phase \notin Plugged \cup {"verify"},
           NEW what \in Told \ {"ConnectionNotAllowed", "NoAcceptable", "refused"},
           Refuse(c, what), UNCHANGED <<authVars, generation>>
    PROVE  ConnectionInv'
<1>1. Sound(conn[c])
    BY DEF ConnectionInv, HandlersSound
<1>2. /\ Sound(Finished(conn[c])) /\ Sound([Finished(conn[c]) EXCEPT !.told = what])
      /\ Finished(conn[c]).gen = conn[c].gen /\ Finished(conn[c]).phase \notin Early
    BY <1>1, Returns DEF Early
<1>3. Finished(conn[c]) \in Handlers
    BY <1>2 DEF Sound
<1>4. QED
    BY <1>2, <1>3, TellKeeps DEF Refuse

-----------------------------------------------------------------------------
(***************************************************************************)
(* Admission.                                                              *)
(***************************************************************************)

LEMMA AcceptKeeps ==
    ASSUME ConnectionInv, NEW c \in Conns, Accept(c)
    PROVE  ConnectionInv'
<1> DEFINE r == conn[c]
           n == [r EXCEPT !.phase = "client", !.gen = generation]
<1>1. Sound(r) /\ r.phase = "new" /\ generation \in Generations
    BY DEF ConnectionInv, HandlersSound, Accept, In
<1>2. n \in Handlers
    BY <1>1 DEF Sound, Handlers, Phases, Early
<1>3. /\ n.phase = "client" /\ n.target = r.target /\ n.offered = r.offered /\ n.told = r.told
      /\ n.counted = r.counted /\ n.begun = r.begun /\ n.ended = r.ended
    BY <1>1 DEF Sound, Handlers
<1>4. Step(c, n) /\ UNCHANGED <<authVars, generation>>
    BY DEF Accept
<1> HIDE DEF n
<1>5. Passed(n)
    BY <1>3 DEF Passed, Served
<1>6. Tried(n)
    BY <1>1, <1>3 DEF Sound, Tried, Plugged, Early
<1>7. Denied(n)
    BY <1>1, <1>3 DEF Sound, Denied
<1>8. Hooked(n) /\ Counted(n)
    BY <1>1, <1>3 DEF Sound, Hooked, Counted, Plugged
<1>9. Sound(n)
    BY <1>2, <1>5, <1>6, <1>7, <1>8 DEF Sound
<1>10. QED
    BY <1>1, <1>4, <1>9, QuietStep DEF Early

LEMMA AdmitKeeps ==
    ASSUME ConnectionInv, NEW c \in Conns, AdmitClient(c)
    PROVE  ConnectionInv'
<1> DEFINE r == conn[c]
           n == [r EXCEPT !.phase = "greeting"]
<1>1. Sound(r) /\ r.phase = "client" /\ r \in Handlers
    BY DEF ConnectionInv, HandlersSound, AdmitClient, In, Sound
<1>2. CASE evaluate_client(Config(c).rules, Client, Proxy)
    <2>1. Step(c, n) /\ UNCHANGED <<authVars, generation>>
        BY <1>2 DEF AdmitClient
    <2>2. n \in Handlers
        BY <1>1 DEF Handlers, Phases, Early
    <2>3. /\ n.phase = "greeting" /\ n.target = r.target /\ n.offered = r.offered /\ n.told = r.told
          /\ n.counted = r.counted /\ n.begun = r.begun /\ n.ended = r.ended /\ n.gen = r.gen
        BY <1>1 DEF Handlers
    <2> HIDE DEF n
    <2>4. Passed(n)
        BY <1>2, <2>3 DEF Passed, Served, Config
    <2>5. Tried(n)
        BY <1>1, <2>3 DEF Sound, Tried, Plugged, Early
    <2>6. Denied(n)
        BY <1>1, <2>3 DEF Sound, Denied
    <2>7. Hooked(n) /\ Counted(n)
        BY <1>1, <2>3 DEF Sound, Hooked, Counted, Plugged
    <2>8. Sound(n)
        BY <2>2, <2>4, <2>5, <2>6, <2>7 DEF Sound
    <2>9. QED
        BY <1>1, <2>1, <2>3, <2>8, QuietStep DEF Early
<1>3. CASE ~evaluate_client(Config(c).rules, Client, Proxy)
    BY <1>1, <1>3, ReturnKeeps DEF AdmitClient, Plugged
<1>4. QED
    BY <1>2, <1>3

LEMMA ReadFailsKeeps ==
    ASSUME ConnectionInv, NEW c \in Conns, ReadFails(c)
    PROVE  ConnectionInv'
BY ReturnKeeps DEF ReadFails, Plugged

(* The method the proxy answers with is one of its configuration, if it     *)
(* answers with one at all.                                                *)
LEMMA ChosenFacts ==
    ASSUME HandlersSound, NEW c \in Conns, NEW methods, Chosen(c, methods) # None
    PROVE  /\ Chosen(c, methods) \in {"None", "UserPass"}
           /\ \E i \in DOMAIN Config(c).methods : Config(c).methods[i] = Chosen(c, methods)
<1> DEFINE all == Config(c).methods
           wanted == {i \in DOMAIN all : all[i] \in methods}
           first == CHOOSE i \in wanted : \A j \in wanted : i <= j
<1>1. all \in Seq({"None", "UserPass"})
    BY ConnectionAssumption DEF Config, HandlersSound, Handlers
<1>2. wanted # {} /\ Chosen(c, methods) = all[first]
    BY DEF Chosen
<1> HIDE DEF all
<1>3. wanted \in SUBSET Nat
    BY <1>1
<1>4. first \in wanted
    <2> HIDE DEF wanted
    <2>1. QED
        BY <1>2, <1>3, Smallest
<1> HIDE DEF first
<1>5. QED
    BY <1>1, <1>2, <1>4 DEF all

LEMMA GreetingKeeps ==
    ASSUME ConnectionInv, NEW c \in Conns, NEW methods, Greeting(c, methods)
    PROVE  ConnectionInv'
<1> DEFINE r == conn[c]
           m == Chosen(c, methods)
<1>1. Sound(r) /\ r.phase = "greeting" /\ r \in Handlers /\ HandlersSound
      /\ UNCHANGED <<authVars, generation>>
    BY DEF ConnectionInv, HandlersSound, Greeting, In, Sound
<1>2. None # "None"
    BY ConnectionAssumption
<1>3. CASE m = None
    <2> DEFINE n == [Finished(r) EXCEPT !.counted = @ + 1]
               t == [n EXCEPT !.told = "NoAcceptable"]
    <2>1. Tell(c, "NoAcceptable", n)
        BY <1>2, <1>3 DEF Greeting
    <2>2. n \in Handlers /\ t \in Handlers
        <3>1. n = [r EXCEPT !.phase = "ended", !.counted = 1]
            <4>1. r.counted = 0 /\ 0 + 1 = 1
                BY <1>1 DEF Sound, Counted
            <4>2. n = [r EXCEPT !.phase = "ended", !.counted = r.counted + 1]
                BY <1>1 DEF Finished, Handlers
            <4>3. QED
                BY <4>1, <4>2
        <3> HIDE DEF n
        <3>2. n \in Handlers
            BY <1>1, <3>1 DEF Handlers, Phases, Plugged
        <3>3. QED
            BY <3>2 DEF Handlers, Told
    <2>3. /\ t.phase = "ended" /\ t.gen = r.gen /\ t.method = r.method /\ t.told = "NoAcceptable"
          /\ t.counted = r.counted + 1 /\ t.target = r.target /\ t.begun = r.begun
          /\ t.ended = r.ended /\ n.gen = r.gen /\ n.phase = "ended"
        BY <1>1 DEF Finished, Handlers
    <2> HIDE DEF n, t
    <2>4. Passed(t) /\ Tried(t) /\ Denied(t)
        BY <1>1, <2>3 DEF Passed, Served, Sound, Tried, Plugged, Early, Denied
    <2>5. Hooked(t) /\ Counted(t)
        BY <1>1, <2>3 DEF Sound, Hooked, Counted, Plugged
    <2>6. Sound(t)
        BY <2>2, <2>4, <2>5 DEF Sound
    <2>7. QED
        BY <1>1, <2>1, <2>2, <2>3, <2>6, TellKeeps DEF t, Plugged, Early
<1>4. ASSUME NEW phase \in {"request", "userpass"}, m # None, phase = "request" => m = "None",
             Tell(c, "method", [r EXCEPT !.method = m, !.phase = phase])
      PROVE  ConnectionInv'
    <2> DEFINE n == [r EXCEPT !.method = m, !.phase = phase]
               t == [n EXCEPT !.told = "method"]
    <2>1. m \in {"None", "UserPass"} /\ \E i \in DOMAIN Config(c).methods : Config(c).methods[i] = m
        BY <1>1, <1>4, ChosenFacts
    <2> HIDE DEF m
    <2>2. n \in Handlers /\ t \in Handlers
        <3>1. n \in Handlers
            BY <1>1, <1>4, <2>1 DEF Handlers, Phases, Early, Served
        <3> HIDE DEF n
        <3>2. QED
            BY <3>1 DEF Handlers, Told
    <2>3. /\ t.phase = phase /\ t.gen = r.gen /\ t.method = m /\ t.told = "method"
          /\ t.counted = r.counted /\ t.target = r.target /\ t.begun = r.begun
          /\ t.ended = r.ended /\ t.offered = r.offered /\ n.gen = r.gen /\ n.phase = phase
        BY <1>1 DEF Handlers
    <2> HIDE DEF n, t
    <2>4. Passed(t)
        BY <1>1, <1>4, <2>1, <2>3 DEF Passed, Served, Sound, Config
    <2>5. Tried(t) /\ Denied(t)
        BY <1>1, <2>3 DEF Sound, Tried, Plugged, Early, Denied
    <2>6. Hooked(t) /\ Counted(t)
        BY <1>1, <2>3 DEF Sound, Hooked, Counted, Plugged
    <2>8. Sound(t)
        BY <2>2, <2>4, <2>5, <2>6 DEF Sound
    <2>9. Step(c, t) \/ Step(c, Finished(r))
        BY <1>4 DEF Tell, t, n
    <2>10. CASE Step(c, t)
        BY <1>1, <2>3, <2>8, <2>10, QuietStep DEF Early
    <2>11. CASE Step(c, Finished(r))
        BY <1>1, <2>11, ReturnKeeps DEF Plugged
    <2>12. QED
        BY <2>9, <2>10, <2>11
<1>5. CASE m = "None"
    BY <1>2, <1>4, <1>5 DEF Greeting
<1>6. CASE m # None /\ m # "None"
    BY <1>4, <1>6 DEF Greeting
<1>7. QED
    BY <1>3, <1>5, <1>6

-----------------------------------------------------------------------------
(***************************************************************************)
(* Authentication.                                                         *)
(***************************************************************************)

LEMMA CachesFrame == ASSUME CachesSound, UNCHANGED verified PROVE CachesSound'
BY DEF CachesSound, Right, accepts

(* A verdict ends the handler or, if it is right, lets it read a request.  *)
LEMMA OutcomeFacts ==
    ASSUME NEW c \in Conns, NEW r, Sound(r), r.phase \in {"userpass", "verify"},
           Outcome(c, r, FALSE) \/ (accepts(r.gen, r.cred) /\ Outcome(c, r, TRUE))
    PROVE  \E n : Step(c, n) /\ Sound(n) /\ n.gen = r.gen /\ n.phase \in {"request", "ended"}
<1>1. r \in Handlers /\ r.phase \notin Plugged
    BY DEF Sound, Plugged
<1>2. Sound(Finished(r)) /\ Finished(r).gen = r.gen /\ Finished(r).phase = "ended"
    BY <1>1, Returns
<1>3. CASE accepts(r.gen, r.cred) /\ Step(c, [r EXCEPT !.phase = "request", !.told = "granted"])
    <2> DEFINE n == [r EXCEPT !.phase = "request", !.told = "granted"]
    <2>1. n \in Handlers
        BY <1>1 DEF Handlers, Phases, Served, Told
    <2>2. /\ n.phase = "request" /\ n.gen = r.gen /\ n.method = r.method /\ n.told = "granted"
          /\ n.counted = r.counted /\ n.target = r.target /\ n.begun = r.begun
          /\ n.ended = r.ended /\ n.offered = r.offered /\ n.cred = r.cred
        BY <1>1 DEF Handlers
    <2> HIDE DEF n
    <2>3. Passed(n)
        BY <1>3, <2>2 DEF Passed, Served, Sound
    <2>4. Tried(n) /\ Denied(n)
        BY <2>2 DEF Sound, Tried, Denied, Plugged, Early
    <2>5. Hooked(n) /\ Counted(n)
        BY <2>2 DEF Sound, Hooked, Counted, Plugged
    <2>6. Sound(n) /\ Step(c, n)
        BY <1>3, <2>1, <2>3, <2>4, <2>5 DEF Sound, n
    <2>7. QED
        BY <2>2, <2>6
<1>4. CASE Step(c, [Finished(r) EXCEPT !.told = "refused", !.counted = @ + 1])
    <2> DEFINE n == [Finished(r) EXCEPT !.told = "refused", !.counted = @ + 1]
    <2>1. /\ n = [r EXCEPT !.phase = "ended", !.told = "refused", !.counted = 1]
          /\ r.counted = 0 /\ Step(c, n)
        <3>1. r.counted = 0 /\ 0 + 1 = 1
            BY <1>1 DEF Sound, Counted
        <3>2. n = [r EXCEPT !.phase = "ended", !.told = "refused", !.counted = r.counted + 1]
            BY <1>1 DEF Finished, Handlers
        <3>3. QED
            BY <1>4, <3>1, <3>2
    <2> HIDE DEF n
    <2>2. n \in Handlers
        BY <1>1, <2>1 DEF Handlers, Phases, Plugged, Told
    <2>3. /\ n.phase = "ended" /\ n.gen = r.gen /\ n.told = "refused"
          /\ n.counted = r.counted + 1 /\ n.target = r.target /\ n.begun = r.begun
          /\ n.ended = r.ended
        BY <1>1, <2>1 DEF Handlers
    <2>4. Passed(n) /\ Tried(n) /\ Denied(n)
        BY <2>3 DEF Passed, Served, Sound, Tried, Denied, Plugged, Early
    <2>5. Hooked(n) /\ Counted(n)
        BY <2>3 DEF Sound, Hooked, Counted, Plugged
    <2>6. QED
        BY <2>1, <2>2, <2>3, <2>4, <2>5 DEF Sound
<1>5. CASE Step(c, Finished(r))
    BY <1>2, <1>5
<1>6. QED
    BY <1>3, <1>4, <1>5 DEF Outcome

LEMMA UserpassKeeps ==
    ASSUME ConnectionInv, NEW c \in Conns, NEW cred \in Creds, Userpass(c, cred)
    PROVE  ConnectionInv'
<1> DEFINE g == conn[c].gen
           r == [conn[c] EXCEPT !.cred = cred]
<1>1. /\ Sound(conn[c]) /\ conn[c].phase = "userpass" /\ conn[c] \in Handlers
      /\ g \in Generations /\ CachesSound /\ JobsSound /\ HandlersSound /\ PermitsSound
      /\ UNCHANGED <<hashFree, commandFree, generation>>
    BY DEF ConnectionInv, HandlersSound, Userpass, In, Sound, Handlers
<1>2. r \in Handlers
    BY <1>1 DEF Handlers
<1>3. /\ r.phase = "userpass" /\ r.gen = g /\ r.method = conn[c].method /\ r.told = conn[c].told
      /\ r.counted = conn[c].counted /\ r.target = conn[c].target /\ r.begun = conn[c].begun
      /\ r.ended = conn[c].ended /\ r.offered = conn[c].offered /\ r.cred = cred
    BY <1>1 DEF Handlers
<1>4. job[c] = "none"
    BY <1>1 DEF JobsSound, Early
<1>5. CASE /\ Commanded(g) /\ cred \in Framing
           /\ Outcome(c, r, FALSE)
           /\ UNCHANGED <<job, verified>>
    <2> HIDE DEF r
    <2>1. Passed(r) /\ Tried(r) /\ Denied(r)
        BY <1>1, <1>3 DEF Passed, Served, Sound, Tried, Denied, Plugged, Early
    <2>2. Hooked(r) /\ Counted(r)
        BY <1>1, <1>3 DEF Sound, Hooked, Counted, Plugged
    <2>3. Sound(r)
        BY <1>2, <2>1, <2>2 DEF Sound
    <2>4. Outcome(c, r, FALSE)
        BY <1>5
    <2>5. \E n : Step(c, n) /\ Sound(n) /\ n.gen = r.gen /\ n.phase \in {"request", "ended"}
        BY <1>3, <2>3, <2>4, OutcomeFacts
    <2>6. QED
        BY <1>1, <1>3, <1>5, <2>5, QuietStep DEF authVars, Early
<1>6. CASE /\ Configs[g].ttl /\ check(g, cred)
           /\ Outcome(c, r, TRUE)
           /\ UNCHANGED <<job, verified>>
    <2> HIDE DEF r
    <2>1. Passed(r) /\ Tried(r) /\ Denied(r)
        BY <1>1, <1>3 DEF Passed, Served, Sound, Tried, Denied, Plugged, Early
    <2>2. Hooked(r) /\ Counted(r)
        BY <1>1, <1>3 DEF Sound, Hooked, Counted, Plugged
    <2>3. Sound(r)
        BY <1>2, <2>1, <2>2 DEF Sound
    <2>4. accepts(r.gen, r.cred)
        BY <1>1, <1>3, <1>6, CacheHonest
    <2>5. PICK n : Step(c, n) /\ Sound(n) /\ n.gen = g /\ n.phase \in {"request", "ended"}
        BY <1>3, <1>6, <2>3, <2>4, OutcomeFacts
    <2>6. QED
        BY <1>1, <1>6, <2>5, QuietStep DEF authVars, Early
<1>7. CASE /\ Step(c, [r EXCEPT !.phase = "verify"])
           /\ SetJob(c, "waiting")
           /\ verified' = IF Configs[g].ttl THEN [verified EXCEPT ![g] = Checked(g, cred)]
                          ELSE verified
    <2> DEFINE n == [r EXCEPT !.phase = "verify"]
    <2> HIDE DEF r
    <2>1. n \in Handlers
        BY <1>2 DEF Handlers, Phases
    <2>2. /\ n.phase = "verify" /\ n.gen = g /\ n.method = conn[c].method /\ n.told = conn[c].told
          /\ n.counted = conn[c].counted /\ n.target = conn[c].target /\ n.begun = conn[c].begun
          /\ n.ended = conn[c].ended /\ n.offered = conn[c].offered /\ n.cred = cred
        BY <1>2, <1>3 DEF Handlers
    <2>3. Step(c, n)
        BY <1>7
    <2> HIDE DEF n
    <2>4. Passed(n) /\ Tried(n) /\ Denied(n)
        BY <1>1, <2>2 DEF Passed, Served, Sound, Tried, Denied, Plugged, Early
    <2>5. Hooked(n) /\ Counted(n)
        BY <1>1, <2>2 DEF Sound, Hooked, Counted, Plugged
    <2>6. Sound(n)
        BY <2>1, <2>4, <2>5 DEF Sound
    <2>7. Moves(c, "waiting")
        BY <1>1, <1>4, <1>7, JobMoves
    <2>8. CachesSound'
        BY <1>1, <1>7, CheckKeeps, CachesFrame
    <2>9. QED
        BY <1>1, <2>2, <2>3, <2>6, <2>7, <2>8, VerifyStep DEF Early
<1>8. QED
    BY <1>5, <1>6, <1>7 DEF Userpass

(* The steps of a job that its handler does not see.                       *)
LEMMA JobKeeps ==
    ASSUME ConnectionInv, NEW c \in Conns,
           VerifyStarts(c) \/ HashEnds(c) \/ CommandDelivered(c) \/ Reap(c) \/ GiveUpReaping(c)
               \/ Orphan(c)
    PROVE  ConnectionInv'
<1>1. /\ HandlersSound /\ JobsSound /\ PermitsSound /\ CachesSound
      /\ UNCHANGED conn /\ UNCHANGED generation /\ UNCHANGED verified
    BY DEF ConnectionInv, VerifyStarts, HashEnds, CommandDelivered, Reap, GiveUpReaping, Orphan,
        StartHash, Spawn, EndHash, Deliver, Reaped, ReapTimeout, OrphanReaped
<1>2. Step(c, conn[c]) /\ Sound(conn[c]) /\ CachesSound'
    BY <1>1, Standing, CachesFrame
<1>3. \E j : /\ Moves(c, j)
             /\ j \in {"waiting", "hashed", "delivering", "running"} => conn[c].phase = "verify"
             /\ conn[c].phase \in Early => j = "none"
    <2>1. CASE VerifyStarts(c)
        <3>1. Moves(c, "hashing") \/ Moves(c, "delivering")
            BY <1>1, <2>1, JobMoves DEF VerifyStarts
        <3>2. conn[c].phase = "verify" /\ conn[c].phase \notin Early
            BY <2>1 DEF VerifyStarts, Verifying, In, Early
        <3>3. QED
            BY <3>1, <3>2
    <2>2. CASE HashEnds(c)
        <3>1. Verifying(c) \in BOOLEAN /\ EndHash(c, Verifying(c))
            BY <2>2 DEF HashEnds, Verifying, In
        <3>2. Moves(c, IF Verifying(c) THEN "hashed" ELSE "none")
            BY <1>1, <3>1, JobMoves
        <3>3. CASE Verifying(c)
            <4>1. Moves(c, "hashed") /\ conn[c].phase = "verify" /\ conn[c].phase \notin Early
                BY <3>2, <3>3 DEF Verifying, In, Early
            <4>2. QED
                BY <4>1
        <3>4. CASE ~Verifying(c)
            <4>1. Moves(c, "none")
                BY <3>2, <3>4
            <4>2. QED
                BY <4>1
        <3>5. QED
            BY <3>3, <3>4
    <2>3. CASE CommandDelivered(c)
        <3>1. Moves(c, "running")
            BY <1>1, <2>3, JobMoves DEF CommandDelivered
        <3>2. conn[c].phase = "verify" /\ conn[c].phase \notin Early
            BY <2>3 DEF CommandDelivered, Verifying, In, Early
        <3>3. QED
            BY <3>1, <3>2
    <2>4. CASE Reap(c) \/ Orphan(c)
        <3>1. Moves(c, "none")
            BY <1>1, <2>4, JobMoves DEF Reap, Orphan
        <3>2. QED
            BY <3>1
    <2>5. CASE GiveUpReaping(c)
        <3>1. Moves(c, "stuck") /\ job[c] = "reaping"
            BY <1>1, <2>5, JobMoves DEF GiveUpReaping, ReapTimeout
        <3>2. conn[c].phase \notin Early
            BY <1>1, <3>1 DEF JobsSound
        <3>3. QED
            BY <3>1, <3>2
    <2>6. QED
        BY <2>1, <2>2, <2>3, <2>4, <2>5
<1>4. QED
    BY <1>1, <1>2, <1>3, VerifyStep

(* A future that is dropped takes no permit with it that its work still     *)
(* needs.                                                                  *)
LEMMA DroppedMoves ==
    ASSUME HandlersSound, JobsSound, PermitsSound, NEW c \in Conns, Dropped(c, conn[c].gen)
    PROVE  \E j : Moves(c, j) /\ j \notin {"waiting", "hashed", "delivering", "running"}
<1> DEFINE g == conn[c].gen
           j == CASE job[c] \in {"delivering", "running"} -> "reaping"
                  [] job[c] \in {"waiting", "hashed"} -> "none"
                  [] OTHER -> job[c]
<1>1. /\ g \in Generations /\ commandFree \in [Generations -> Nat] /\ hashFree \in Nat
      /\ job \in [Conns -> JobStates] /\ job[c] \in JobStates
    BY DEF HandlersSound, Handlers, PermitsSound, JobsSound
<1>2. /\ commandFree' = [commandFree EXCEPT ![g] = @ + 1 - 1]
      /\ commandFree' = [commandFree EXCEPT ![g] = @ + 0 - 0]
    BY <1>1 DEF Dropped
<1>3. job' = [job EXCEPT ![c] = j] /\ hashFree' = hashFree
    BY DEF Dropped, SetJob
<1>4. /\ j \in JobStates /\ j \notin {"waiting", "hashed", "delivering", "running"}
      /\ (j \in ChildStates) = (job[c] \in ChildStates) /\ (j = "hashing") = (job[c] = "hashing")
    BY <1>1 DEF JobStates, ChildStates
<1> HIDE DEF j, g
<1>5. /\ One(j \in ChildStates) = One(job[c] \in ChildStates)
      /\ One(j = "hashing") = One(job[c] = "hashing")
      /\ One(job[c] = "hashing") \in Nat
    BY <1>4 DEF One
<1>6. /\ commandFree' = [commandFree EXCEPT ![g] =
                              @ + One(job[c] \in ChildStates) - One(job[c] \in ChildStates)]
      /\ commandFree[g] + One(job[c] \in ChildStates) >= One(job[c] \in ChildStates)
    BY <1>1, <1>2 DEF One
<1>7. Moves(c, j)
    BY <1>1, <1>3, <1>4, <1>5, <1>6 DEF Moves, g
<1>8. QED
    BY <1>4, <1>7

LEMMA AnswerKeeps ==
    ASSUME ConnectionInv, NEW c \in Conns,
           VerifyAnswers(c) \/ VerifyFails(c) \/ VerifyTimeout(c)
    PROVE  ConnectionInv'
<1> DEFINE g == conn[c].gen
           right == accepts(g, conn[c].cred)
<1>1. /\ HandlersSound /\ JobsSound /\ PermitsSound /\ CachesSound
      /\ UNCHANGED generation /\ conn[c].phase = "verify" /\ Sound(conn[c])
      /\ g \in Generations /\ conn[c].cred \in Creds
    <2>1. /\ HandlersSound /\ JobsSound /\ PermitsSound /\ CachesSound
          /\ UNCHANGED generation /\ conn[c].phase = "verify"
        BY DEF ConnectionInv, VerifyAnswers, VerifyFails, VerifyTimeout, Verifying, In
    <2>2. Sound(conn[c]) /\ conn[c] \in Handlers
        BY <2>1 DEF HandlersSound
    <2>3. QED
        BY <2>1, <2>2 DEF Sound, Handlers, Passed
<1>2. \E j : Moves(c, j) /\ j \notin {"waiting", "hashed", "delivering", "running"}
    <2>1. CASE VerifyAnswers(c)
        <3>1. Moves(c, "none")
            BY <1>1, <2>1, JobMoves DEF VerifyAnswers
        <3>2. QED
            BY <3>1
    <2>2. CASE VerifyFails(c)
        <3>1. Moves(c, "none") \/ Moves(c, "reaping")
            BY <1>1, <2>2, JobMoves DEF VerifyFails
        <3>2. QED
            BY <3>1
    <2>3. CASE VerifyTimeout(c)
        BY <1>1, <2>3, DroppedMoves DEF VerifyTimeout
    <2>4. QED
        BY <2>1, <2>2, <2>3
<1>3. CachesSound'
    <2>1. CASE VerifyAnswers(c)
        BY <1>1, <2>1, StoreKeeps, CachesFrame DEF VerifyAnswers
    <2>2. CASE VerifyFails(c) \/ VerifyTimeout(c)
        BY <1>1, <2>2, CachesFrame DEF VerifyFails, VerifyTimeout, SpawnFails, GuardDropped, Dropped
    <2>3. QED
        BY <2>1, <2>2
<1>4. \E n : Step(c, n) /\ Sound(n) /\ n.gen = g /\ n.phase \in {"request", "ended"}
    <2>1. Outcome(c, conn[c], FALSE) \/ (right /\ Outcome(c, conn[c], TRUE))
        BY DEF VerifyAnswers, VerifyFails, VerifyTimeout, Outcome
    <2>2. QED
        BY <1>1, <2>1, OutcomeFacts
<1>5. QED
    BY <1>1, <1>2, <1>3, <1>4, VerifyStep DEF Early

-----------------------------------------------------------------------------
(***************************************************************************)
(* CONNECT.                                                                *)
(***************************************************************************)

(* What a handler has passed it keeps while it serves, as long as the       *)
(* plugins have not been asked.                                            *)
LEMMA Serves ==
    ASSUME NEW r, Sound(r), r.phase \in Served \ Plugged,
           NEW n, n.phase \in Served \ Plugged, n.gen = r.gen, n.method = r.method,
           n.cred = r.cred, n.begun = r.begun, n.ended = r.ended, n.counted = r.counted,
           n.told \in Told \ {"ConnectionNotAllowed", "NoAcceptable", "refused"}
    PROVE  Passed(n) /\ Denied(n) /\ Hooked(n) /\ Counted(n)
<1>1. Passed(n)
    BY DEF Sound, Passed, Served
<1>2. Denied(n) /\ Counted(n)
    BY DEF Sound, Denied, Counted, Plugged
<1>3. Hooked(n)
    BY DEF Sound, Hooked, Plugged
<1>4. QED
    BY <1>1, <1>2, <1>3

LEMMA CommandSound ==
    ASSUME NEW r, Sound(r), r.phase = "request", NEW command \in {"connect", "udp"}
    PROVE  LET n == [r EXCEPT !.command = command]
           IN  Sound(n) /\ n.phase = "request" /\ n.gen = r.gen /\ n.command = command
               /\ n.method = r.method /\ n.error = r.error
<1> DEFINE n == [r EXCEPT !.command = command]
<1>1. r \in Handlers /\ n \in Handlers
    BY DEF Sound, Handlers
<1>2. /\ n.phase = r.phase /\ n.gen = r.gen /\ n.method = r.method /\ n.told = r.told
      /\ n.counted = r.counted /\ n.target = r.target /\ n.begun = r.begun
      /\ n.ended = r.ended /\ n.offered = r.offered /\ n.cred = r.cred /\ n.command = command
      /\ n.error = r.error
    BY <1>1 DEF Handlers
<1> HIDE DEF n
<1>3. Passed(n) /\ Tried(n) /\ Denied(n)
    BY <1>2 DEF Passed, Sound, Tried, Denied, Plugged, Early, Allows
<1>4. Hooked(n) /\ Counted(n)
    BY <1>2 DEF Sound, Hooked, Counted, Plugged
<1>5. QED
    BY <1>1, <1>2, <1>3, <1>4 DEF Sound, n

LEMMA ConnectKeeps ==
    ASSUME ConnectionInv, NEW c \in Conns, Connect(c)
    PROVE  ConnectionInv'
<1> DEFINE r == conn[c]
           q == [r EXCEPT !.command = "connect"]
           n == [r EXCEPT !.command = "connect", !.phase = "resolving"]
<1>1. Sound(r) /\ r.phase = "request" /\ r \in Handlers /\ UNCHANGED <<authVars, generation>>
    BY DEF ConnectionInv, HandlersSound, Connect, In, Sound
<1>2. CASE Step(c, n)
    <2>1. n \in Handlers
        BY <1>1 DEF Handlers, Phases, Served
    <2>2. /\ n.phase = "resolving" /\ n.gen = r.gen /\ n.method = r.method /\ n.told = r.told
          /\ n.counted = r.counted /\ n.target = r.target /\ n.begun = r.begun
          /\ n.ended = r.ended /\ n.offered = r.offered /\ n.cred = r.cred /\ n.command = "connect"
        BY <1>1 DEF Handlers
    <2> HIDE DEF n
    <2>3. n.told \in Told \ {"ConnectionNotAllowed", "NoAcceptable", "refused"}
        BY <1>1, <2>2 DEF Sound, Handlers, Denied, Counted
    <2>4. Passed(n) /\ Denied(n) /\ Hooked(n) /\ Counted(n)
        BY <1>1, <2>2, <2>3, Serves DEF Served, Plugged
    <2>5. Tried(n)
        BY <1>1, <2>2 DEF Sound, Tried, Plugged, Early
    <2>6. QED
        BY <1>1, <1>2, <2>1, <2>2, <2>4, <2>5, QuietStep DEF Sound, Early
<1>3. CASE Tell(c, "NetworkUnreachable", [Finished(r) EXCEPT !.command = "connect"])
    <2>1. [Finished(r) EXCEPT !.command = "connect"] = Finished(q)
        BY <1>1 DEF Finished, Handlers
    <2>2. Sound(q) /\ q.phase = "request" /\ q.gen = r.gen
        BY <1>1, CommandSound
    <2> HIDE DEF q
    <2>3. /\ Sound(Finished(q)) /\ Sound([Finished(q) EXCEPT !.told = "NetworkUnreachable"])
          /\ Finished(q).gen = r.gen /\ Finished(q).phase \notin Early
        BY <2>2, Returns DEF Plugged, Early, Told, Replies
    <2>4. Finished(q) \in Handlers
        BY <2>3 DEF Sound
    <2>5. QED
        BY <1>1, <1>3, <2>1, <2>3, <2>4, TellKeeps DEF Plugged
<1>4. QED
    BY <1>2, <1>3 DEF Connect

LEMMA UnsupportedKeeps ==
    ASSUME ConnectionInv, NEW c \in Conns, Unsupported(c)
    PROVE  ConnectionInv'
<1>1. conn[c].phase \notin Plugged \cup {"verify"} /\ UNCHANGED <<authVars, generation>>
    BY DEF Unsupported, In, Plugged
<1>2. /\ "CommandNotSupported" \in Told \ {"ConnectionNotAllowed", "NoAcceptable", "refused"}
      /\ "AddressTypeNotSupported" \in Told \ {"ConnectionNotAllowed", "NoAcceptable", "refused"}
    BY DEF Told
<1>3. QED
    BY <1>1, <1>2, RefuseKeeps DEF Unsupported

LEMMA ReplyFacts ==
    \A kind : to_reply(kind) \in Replies /\ rdp_io_reply(kind) \in Replies
BY DEF to_reply, rdp_io_reply, Replies

(* A CONNECT that fails is answered with the error it met; it is told that  *)
(* it is not allowed if there was none and no candidate passes.            *)
LEMMA FailureKeeps ==
    ASSUME ConnectionInv, NEW c \in Conns, conn[c].phase \in {"resolving", "trying"},
           NEW what \in Replies, Refuse(c, what), UNCHANGED <<authVars, generation>>,
           conn[c].error = None => \A dest \in conn[c].offered : ~Allows(conn[c], dest)
    PROVE  ConnectionInv'
<1> DEFINE r == conn[c]
           f == Finished(r)
           n == [f EXCEPT !.told = what]
<1>1. Sound(r) /\ r \in Handlers /\ r.phase \notin Plugged /\ r.phase # "verify"
    BY DEF ConnectionInv, HandlersSound, Sound, Plugged
<1>2. Sound(f) /\ f.gen = r.gen /\ f.phase = "ended" /\ f \in Handlers
    BY <1>1, Returns DEF Sound
<1>3. n = [r EXCEPT !.phase = "ended", !.told = what]
    BY <1>1 DEF Finished, Handlers
<1> HIDE DEF n, f
<1>4. n \in Handlers
    BY <1>1, <1>3 DEF Handlers, Phases, Plugged, Told
<1>5. /\ n.phase = "ended" /\ n.gen = r.gen /\ n.method = r.method /\ n.told = what
      /\ n.counted = r.counted /\ n.target = r.target /\ n.begun = r.begun
      /\ n.ended = r.ended /\ n.offered = r.offered /\ n.command = r.command /\ n.error = r.error
    BY <1>1, <1>3 DEF Handlers
<1>6. Passed(n) /\ Tried(n)
    BY <1>1, <1>5 DEF Passed, Served, Sound, Tried, Plugged, Early, Allows
<1>7. Denied(n)
    <2>1. r.command = "connect"
        BY <1>1 DEF Sound, Tried
    <2>2. r.error = None => \A dest \in r.offered : ~Allows(n, dest)
        BY <1>5 DEF Allows
    <2>3. QED
        BY <1>5, <2>1, <2>2 DEF Denied
<1>8. Hooked(n) /\ Counted(n)
    BY <1>1, <1>5 DEF Sound, Hooked, Counted, Plugged, Replies
<1>9. Sound(n)
    BY <1>4, <1>6, <1>7, <1>8 DEF Sound
<1>10. QED
    BY <1>1, <1>2, <1>9, TellKeeps DEF Refuse, n, f, Early

LEMMA ResolveFailsKeeps ==
    ASSUME ConnectionInv, NEW c \in Conns, ResolveFails(c)
    PROVE  ConnectionInv'
<1>1. conn[c].phase = "resolving" /\ UNCHANGED <<authVars, generation>>
    BY DEF ResolveFails, In
<1>2. conn[c].offered = {}
    BY <1>1 DEF ConnectionInv, HandlersSound, Sound, Tried
<1>3. PICK what \in Replies : Refuse(c, what)
    BY ReplyFacts DEF ResolveFails, Replies
<1>4. QED
    BY <1>1, <1>2, <1>3, FailureKeeps

LEMMA ResolveKeeps ==
    ASSUME ConnectionInv, NEW c \in Conns, NEW addresses \in Addresses, Resolve(c, addresses)
    PROVE  ConnectionInv'
<1> DEFINE r == conn[c]
           cands == IF Config(c).tryAll THEN addresses ELSE <<addresses[1]>>
           offered == {cands[i] : i \in DOMAIN cands}
           n == [r EXCEPT !.phase = "trying", !.cands = cands, !.offered = offered]
<1>1. /\ Sound(r) /\ r.phase = "resolving" /\ r \in Handlers /\ UNCHANGED <<authVars, generation>>
      /\ Step(c, n)
    BY DEF ConnectionInv, HandlersSound, Resolve, In, Sound
<1>2. cands \in Seq(Dests) /\ offered \in SUBSET Dests
    <2>1. addresses \in Seq(Dests) /\ addresses # <<>>
        BY ConnectionAssumption
    <2>2. addresses \in Seq(Dests) /\ addresses[1] \in Dests
        BY <2>1
    <2>3. cands \in Seq(Dests)
        BY <2>2
    <2> HIDE DEF cands
    <2>4. QED
        BY <2>3
<1>3. \A dest \in offered : \E i \in DOMAIN cands : cands[i] = dest
    OBVIOUS
<1> HIDE DEF cands, offered
<1>4. n \in Handlers
    BY <1>1, <1>2 DEF Handlers, Phases, Served
<1>5. /\ n.phase = "trying" /\ n.gen = r.gen /\ n.method = r.method /\ n.told = r.told
      /\ n.counted = r.counted /\ n.target = r.target /\ n.begun = r.begun
      /\ n.ended = r.ended /\ n.offered = offered /\ n.cred = r.cred /\ n.command = r.command
      /\ n.cands = cands
    BY <1>1 DEF Handlers
<1> HIDE DEF n
<1>6. n.told \in Told \ {"ConnectionNotAllowed", "NoAcceptable", "refused"}
    BY <1>1, <1>5 DEF Sound, Handlers, Denied, Counted
<1>7. Passed(n) /\ Denied(n) /\ Hooked(n) /\ Counted(n)
    BY <1>1, <1>5, <1>6, Serves DEF Served, Plugged
<1>8. Tried(n)
    BY <1>1, <1>3, <1>5 DEF Sound, Tried, Plugged, Early
<1>9. QED
    BY <1>1, <1>4, <1>5, <1>7, <1>8, QuietStep DEF Sound, Early

LEMMA TailFacts ==
    ASSUME NEW S, NEW s \in Seq(S), s # <<>>, NEW i \in DOMAIN s, i # 1
    PROVE  i - 1 \in DOMAIN Tail(s) /\ Tail(s)[i - 1] = s[i]
<1>1. i \in Nat /\ 1 < i /\ i <= Len(s) /\ Tail(s) \in Seq(S) /\ Len(Tail(s)) = Len(s) - 1
    OBVIOUS
<1>2. i - 1 \in 1 .. Len(Tail(s))
    BY <1>1
<1>3. QED
    BY <1>1, <1>2

LEMMA TryKeeps ==
    ASSUME ConnectionInv, NEW c \in Conns, Try(c)
    PROVE  ConnectionInv'
<1> DEFINE r == conn[c]
           a == [r EXCEPT !.phase = "connecting"]
           b == [r EXCEPT !.cands = Tail(@)]
<1>1. /\ Sound(r) /\ r.phase = "trying" /\ r \in Handlers /\ UNCHANGED <<authVars, generation>>
      /\ r.cands # <<>> /\ r.cands \in Seq(Dests)
      /\ r.told \in Told \ {"ConnectionNotAllowed", "NoAcceptable", "refused"}
    BY DEF ConnectionInv, HandlersSound, Try, In, Sound, Handlers, Denied, Counted
<1>2. CASE Allows(r, Head(r.cands))
    <2>1. Step(c, a)
        BY <1>2 DEF Try, authorize_connect_target, Allows, Config
    <2>2. a \in Handlers
        BY <1>1 DEF Handlers, Phases, Served
    <2>3. /\ a.phase = "connecting" /\ a.gen = r.gen /\ a.method = r.method /\ a.told = r.told
          /\ a.counted = r.counted /\ a.target = r.target /\ a.begun = r.begun
          /\ a.ended = r.ended /\ a.offered = r.offered /\ a.cred = r.cred
          /\ a.command = r.command /\ a.cands = r.cands /\ a.error = r.error
        BY <1>1 DEF Handlers
    <2> HIDE DEF a
    <2>4. Passed(a) /\ Denied(a) /\ Hooked(a) /\ Counted(a)
        BY <1>1, <2>3, Serves DEF Served, Plugged
    <2>5. Tried(a)
        BY <1>1, <1>2, <2>3 DEF Sound, Tried, Plugged, Early, Allows
    <2>6. QED
        BY <1>1, <2>1, <2>2, <2>3, <2>4, <2>5, QuietStep DEF Sound, Early
<1>3. CASE ~Allows(r, Head(r.cands))
    <2>1. Step(c, b)
        BY <1>3 DEF Try, authorize_connect_target, Allows, Config
    <2>2. Tail(r.cands) \in Seq(Dests)
        BY <1>1
    <2>3. b \in Handlers
        BY <1>1, <2>2 DEF Handlers
    <2>4. /\ b.phase = "trying" /\ b.gen = r.gen /\ b.method = r.method /\ b.told = r.told
          /\ b.counted = r.counted /\ b.target = r.target /\ b.begun = r.begun
          /\ b.ended = r.ended /\ b.offered = r.offered /\ b.cred = r.cred
          /\ b.command = r.command /\ b.cands = Tail(r.cands) /\ b.error = r.error
        BY <1>1 DEF Handlers
    <2> HIDE DEF b
    <2>5. Passed(b) /\ Denied(b) /\ Hooked(b) /\ Counted(b)
        BY <1>1, <2>4, Serves DEF Served, Plugged
    <2>6. ASSUME r.error = None, NEW dest \in r.offered, Allows(r, dest)
          PROVE  \E i \in DOMAIN Tail(r.cands) : Tail(r.cands)[i] = dest
        <3>1. PICK i \in DOMAIN r.cands : r.cands[i] = dest
            BY <1>1, <2>6 DEF Sound, Tried
        <3>2. i # 1
            BY <1>1, <1>3, <2>6, <3>1
        <3>3. i - 1 \in DOMAIN Tail(r.cands) /\ Tail(r.cands)[i - 1] = dest
            BY <1>1, <3>1, <3>2, TailFacts
        <3>4. QED
            BY <3>3
    <2>7. \A dest : Allows(b, dest) = Allows(r, dest)
        BY <2>4 DEF Allows
    <2>8. Tried(b)
        BY <1>1, <2>4, <2>6, <2>7 DEF Sound, Tried, Plugged, Early
    <2>9. QED
        BY <1>1, <2>1, <2>3, <2>4, <2>5, <2>8, QuietStep DEF Sound, Early
<1>4. QED
    BY <1>2, <1>3

LEMMA ConnectFailsKeeps ==
    ASSUME ConnectionInv, NEW c \in Conns, NEW kind \in Errors, ConnectFails(c, kind)
    PROVE  ConnectionInv'
<1> DEFINE r == conn[c]
<1>1. /\ Sound(r) /\ r.phase = "connecting" /\ r \in Handlers /\ UNCHANGED <<authVars, generation>>
      /\ r.cands # <<>> /\ r.cands \in Seq(Dests) /\ kind # None
      /\ r.told \in Told \ {"ConnectionNotAllowed", "NoAcceptable", "refused"}
    BY ConnectionAssumption
        DEF ConnectionInv, HandlersSound, ConnectFails, In, Sound, Handlers, Denied, Counted, Tried
<1>2. PICK left \in Seq(Dests) :
          Step(c, [r EXCEPT !.phase = "trying", !.error = kind, !.cands = left])
    <2>1. Tail(r.cands) \in Seq(Dests) /\ <<>> \in Seq(Dests)
        BY <1>1
    <2>2. PICK retry \in BOOLEAN :
              Step(c, [r EXCEPT !.phase = "trying", !.error = kind,
                       !.cands = IF Config(c).tryAll /\ retry THEN Tail(r.cands) ELSE <<>>])
        BY DEF ConnectFails
    <2>3. CASE Config(c).tryAll /\ retry
        BY <2>1, <2>2, <2>3
    <2>4. CASE ~(Config(c).tryAll /\ retry)
        BY <2>1, <2>2, <2>4
    <2>5. QED
        BY <2>3, <2>4
<1> DEFINE n == [r EXCEPT !.phase = "trying", !.error = kind, !.cands = left]
<1>3. n \in Handlers
    BY <1>1 DEF Handlers, Phases, Served
<1>4. /\ n.phase = "trying" /\ n.gen = r.gen /\ n.method = r.method /\ n.told = r.told
      /\ n.counted = r.counted /\ n.target = r.target /\ n.begun = r.begun
      /\ n.ended = r.ended /\ n.cred = r.cred /\ n.command = r.command /\ n.error = kind
    BY <1>1 DEF Handlers
<1>5. Step(c, n)
    BY <1>2
<1> HIDE DEF n
<1>6. Passed(n) /\ Denied(n) /\ Hooked(n) /\ Counted(n)
    BY <1>1, <1>4, Serves DEF Served, Plugged
<1>7. Tried(n)
    BY <1>1, <1>4 DEF Sound, Tried, Plugged, Early
<1>8. QED
    BY <1>1, <1>3, <1>4, <1>5, <1>6, <1>7, QuietStep DEF Sound, Early

LEMMA NoneConnectedKeeps ==
    ASSUME ConnectionInv, NEW c \in Conns, NoneConnected(c)
    PROVE  ConnectionInv'
<1> DEFINE r == conn[c]
           what == IF r.error # None THEN Reply(c, r.error) ELSE "ConnectionNotAllowed"
<1>1. /\ Sound(r) /\ r.phase = "trying" /\ r.cands = <<>>
      /\ UNCHANGED <<authVars, generation>> /\ Refuse(c, what)
    BY DEF ConnectionInv, HandlersSound, NoneConnected, In
<1>2. what \in Replies
    BY ReplyFacts DEF Reply, Replies
<1>3. r.error = None => \A dest \in r.offered : ~Allows(r, dest)
    BY <1>1 DEF Sound, Tried
<1> HIDE DEF what
<1>4. QED
    BY <1>1, <1>2, <1>3, FailureKeeps

LEMMA ConnectedKeeps ==
    ASSUME ConnectionInv, NEW c \in Conns, Connected(c)
    PROVE  ConnectionInv'
<1> DEFINE r == conn[c]
           phase == IF Configs[r.gen].plugins = 0 THEN "relay" ELSE "flow"
           n == [r EXCEPT !.target = Head(r.cands), !.phase = phase]
           t == [n EXCEPT !.told = "Succeeded"]
<1>1. /\ Sound(r) /\ r.phase = "connecting" /\ r \in Handlers /\ UNCHANGED <<authVars, generation>>
      /\ r.cands # <<>> /\ r.cands \in Seq(Dests) /\ Configs[r.gen].plugins \in Nat
      /\ Allows(r, Head(r.cands)) /\ Tell(c, "Succeeded", n)
    BY ConnectionAssumption
        DEF ConnectionInv, HandlersSound, Connected, In, Sound, Handlers, Tried, Config
<1>2. Head(r.cands) \in Dests
    BY <1>1
<1>3. /\ phase \in {"relay", "flow"}
      /\ phase = "flow" => Configs[r.gen].plugins > 0
    BY <1>1
<1> HIDE DEF phase
<1>4. n \in Handlers /\ n.gen = r.gen /\ n.phase \notin Early
    BY <1>1, <1>2, <1>3 DEF Handlers, Phases, Served, Early
<1>5. t \in Handlers
    <2> HIDE DEF n
    <2>1. QED
        BY <1>4 DEF Handlers, Told
<1>6. /\ t.phase = phase /\ t.gen = r.gen /\ t.method = r.method /\ t.told = "Succeeded"
      /\ t.counted = r.counted /\ t.target = Head(r.cands) /\ t.begun = r.begun
      /\ t.ended = r.ended /\ t.cred = r.cred
    BY <1>1 DEF Handlers
<1> HIDE DEF n, t
<1>7. Passed(t)
    BY <1>1, <1>3, <1>6 DEF Sound, Passed, Served
<1>8. Tried(t)
    BY <1>1, <1>3, <1>6 DEF Sound, Tried, Plugged, Early, Allows
<1>9. Denied(t) /\ Counted(t)
    BY <1>1, <1>3, <1>6 DEF Sound, Denied, Counted
<1>10. Hooked(t)
    <2>1. t.begun = {} /\ t.ended = {} /\ 1 .. 0 = {}
        BY <1>1, <1>6 DEF Sound, Hooked, Plugged
    <2>2. phase = "flow" => 0 \in 0 .. Configs[t.gen].plugins - 1
        BY <1>1, <1>3, <1>6
    <2>3. QED
        BY <1>3, <1>6, <2>1, <2>2 DEF Hooked, Plugged
<1>11. Sound(t)
    BY <1>5, <1>7, <1>8, <1>9, <1>10 DEF Sound
<1>12. QED
    BY <1>1, <1>4, <1>11, TellKeeps DEF t, Plugged

-----------------------------------------------------------------------------
(***************************************************************************)
(* The plugin hooks.                                                       *)
(***************************************************************************)

(* The handler moves among the phases of the flow: what it has passed it    *)
(* keeps, and only the hooks change.                                       *)
LEMMA FlowStep ==
    ASSUME ConnectionInv, NEW c \in Conns, UNCHANGED <<authVars, generation>>,
           conn[c].phase \in {"flow", "relay", "flowEnd"},
           NEW n \in Handlers, Step(c, n), n.phase \in Plugged, n.gen = conn[c].gen,
           n.method = conn[c].method, n.cred = conn[c].cred, n.target = conn[c].target,
           n.told = conn[c].told, n.counted = conn[c].counted,
           n.phase \in Served => conn[c].phase \in Served, Hooked(n)
    PROVE  ConnectionInv'
<1>1. Sound(conn[c])
    BY DEF ConnectionInv, HandlersSound
<1>2. Passed(n)
    BY <1>1 DEF Sound, Passed, Served, Plugged
<1>3. Tried(n) /\ Denied(n) /\ Counted(n)
    BY <1>1 DEF Sound, Tried, Denied, Counted, Plugged, Early, Allows
<1>4. Sound(n)
    BY <1>2, <1>3 DEF Sound
<1>5. QED
    BY <1>4, QuietStep DEF Plugged, Early

LEMMA UpTo ==
    ASSUME NEW k \in Nat
    PROVE  /\ Cardinality(1 .. k) + 1 = k + 1
           /\ (1 .. k) \cup {k + 1} = 1 .. k + 1
<1>1. Cardinality(1 .. k) = k
    BY FS_Interval
<1>2. QED
    BY <1>1

LEMMA OnFlowKeeps ==
    ASSUME ConnectionInv, NEW c \in Conns,
           OnFlowTimeout(c) \/ \E continue \in BOOLEAN : OnFlow(c, continue)
    PROVE  ConnectionInv'
<1> DEFINE r == conn[c]
           plugins == Configs[r.gen].plugins
           plugin == Cardinality(r.begun) + 1
<1>1. /\ Sound(r) /\ r.phase = "flow" /\ r \in Handlers /\ UNCHANGED <<authVars, generation>>
      /\ plugins \in Nat
    BY ConnectionAssumption
        DEF ConnectionInv, HandlersSound, OnFlow, OnFlowTimeout, In, Sound, Handlers
<1>2. PICK k \in 0 .. plugins - 1 : r.begun = 1 .. k
    BY <1>1 DEF Sound, Hooked
<1>3. plugin = k + 1 /\ r.begun \cup {plugin} = 1 .. k + 1 /\ k \in Nat /\ k < plugins
    BY <1>1, <1>2, UpTo
<1>4. PICK phase : /\ Step(c, [r EXCEPT !.begun = 1 .. k + 1, !.phase = phase])
                   /\ phase \in {"flow", "relay", "flowEnd"}
                   /\ phase = "flow" => k + 1 # plugins
    <2>1. CASE OnFlowTimeout(c)
        <3>1. Step(c, [r EXCEPT !.begun = r.begun \cup {plugin}, !.phase = "flowEnd"])
            BY <1>1, <2>1 DEF OnFlowTimeout, Handlers
        <3> HIDE DEF plugin
        <3>2. Step(c, [r EXCEPT !.begun = 1 .. k + 1, !.phase = "flowEnd"])
            BY <1>3, <3>1
        <3> DEFINE phase == "flowEnd"
        <3>3. phase \in {"flow", "relay", "flowEnd"} /\ (phase = "flow" => k + 1 # plugins)
            OBVIOUS
        <3>4. Step(c, [r EXCEPT !.begun = 1 .. k + 1, !.phase = phase])
            BY <3>2
        <3> HIDE DEF phase
        <3>5. QED
            BY <3>3, <3>4
    <2>2. CASE \E continue \in BOOLEAN : OnFlow(c, continue)
        <3>1. PICK continue \in BOOLEAN : OnFlow(c, continue)
            BY <2>2
        <3> DEFINE phase == IF ~continue THEN "flowEnd" ELSE IF plugin = plugins THEN "relay" ELSE "flow"
        <3>2. Step(c, [r EXCEPT !.begun = r.begun \cup {plugin}, !.phase = phase])
            BY <3>1 DEF OnFlow, Config
        <3>3. phase \in {"flow", "relay", "flowEnd"} /\ (phase = "flow" => plugin # plugins)
            OBVIOUS
        <3> HIDE DEF phase, plugin
        <3>4. QED
            BY <1>3, <3>2, <3>3
    <2>3. QED
        BY <2>1, <2>2
<1> DEFINE n == [r EXCEPT !.begun = 1 .. k + 1, !.phase = phase]
<1>5. n \in Handlers
    <2>1. 1 .. k + 1 \in SUBSET Nat /\ phase \in Phases
        BY <1>3, <1>4 DEF Phases, Plugged
    <2>2. QED
        BY <1>1, <2>1 DEF Handlers
<1>6. /\ n.phase = phase /\ n.gen = r.gen /\ n.method = r.method /\ n.cred = r.cred
      /\ n.target = r.target /\ n.told = r.told /\ n.counted = r.counted
      /\ n.begun = 1 .. k + 1 /\ n.ended = r.ended
    BY <1>1 DEF Handlers
<1>7. Step(c, n)
    BY <1>4
<1> HIDE DEF n
<1>8. Hooked(n)
    <2>1. n.ended = {} /\ 1 .. 0 = {} /\ 0 \in 0 .. Configs[n.gen].plugins - 1
        BY <1>1, <1>3, <1>6 DEF Sound, Hooked
    <2>2. 1 .. k + 1 \subseteq 1 .. plugins /\ (k + 1 # plugins => k + 1 \in 0 .. plugins - 1)
        BY <1>1, <1>3
    <2>3. QED
        BY <1>4, <1>6, <2>1, <2>2 DEF Hooked, Plugged
<1>9. QED
    BY <1>1, <1>4, <1>5, <1>6, <1>7, <1>8, FlowStep DEF Plugged, Served

LEMMA RelayEndsKeeps ==
    ASSUME ConnectionInv, NEW c \in Conns, RelayEnds(c)
    PROVE  ConnectionInv'
<1> DEFINE r == conn[c]
           phase == IF Configs[r.gen].plugins = 0 THEN "ended" ELSE "flowEnd"
           n == [r EXCEPT !.phase = phase]
<1>1. /\ Sound(r) /\ r.phase = "relay" /\ r \in Handlers /\ UNCHANGED <<authVars, generation>>
      /\ Configs[r.gen].plugins \in Nat /\ Step(c, n)
    BY ConnectionAssumption DEF ConnectionInv, HandlersSound, RelayEnds, In, Sound, Handlers, Config
<1>2. /\ phase \in {"ended", "flowEnd"}
      /\ phase = "ended" => Configs[r.gen].plugins = 0
      /\ phase = "flowEnd" => Configs[r.gen].plugins > 0
    BY <1>1
<1>3. r.ended = {} /\ r.begun \subseteq 1 .. Configs[r.gen].plugins
    BY <1>1 DEF Sound, Hooked
<1> HIDE DEF phase
<1>4. n \in Handlers
    BY <1>1, <1>2 DEF Handlers, Phases, Plugged
<1>5. /\ n.phase = phase /\ n.gen = r.gen /\ n.method = r.method /\ n.cred = r.cred
      /\ n.target = r.target /\ n.told = r.told /\ n.counted = r.counted
      /\ n.begun = r.begun /\ n.ended = r.ended
    BY <1>1 DEF Handlers
<1> HIDE DEF n
<1>6. Hooked(n)
    <2>1. CASE phase = "ended"
        <3>1. 1 .. 0 = {} /\ Configs[r.gen].plugins = 0
            BY <1>1, <1>2, <2>1
        <3>2. QED
            BY <1>3, <1>5, <2>1, <3>1 DEF Hooked, Plugged
    <2>2. CASE phase = "flowEnd"
        <3>1. 1 .. 0 = {} /\ 0 \in 0 .. Configs[r.gen].plugins - 1
            BY <1>1, <1>2, <2>2
        <3>2. QED
            BY <1>3, <1>5, <2>2, <3>1 DEF Hooked, Plugged
    <2>3. QED
        BY <1>2, <2>1, <2>2
<1>7. QED
    BY <1>1, <1>2, <1>4, <1>5, <1>6, FlowStep DEF Plugged, Served

LEMMA OnFlowEndKeeps ==
    ASSUME ConnectionInv, NEW c \in Conns, OnFlowEnd(c)
    PROVE  ConnectionInv'
<1> DEFINE r == conn[c]
           plugins == Configs[r.gen].plugins
           plugin == Cardinality(r.ended) + 1
           phase == IF plugin = plugins THEN "ended" ELSE "flowEnd"
<1>1. /\ Sound(r) /\ r.phase = "flowEnd" /\ r \in Handlers /\ UNCHANGED <<authVars, generation>>
      /\ plugins \in Nat
    BY ConnectionAssumption DEF ConnectionInv, HandlersSound, OnFlowEnd, In, Sound, Handlers
<1>2. Step(c, [r EXCEPT !.ended = r.ended \cup {plugin}, !.phase = phase])
    BY DEF OnFlowEnd, Config
<1>3. PICK k \in 0 .. plugins - 1 : r.ended = 1 .. k
    BY <1>1 DEF Sound, Hooked
<1>4. plugin = k + 1 /\ r.ended \cup {plugin} = 1 .. k + 1 /\ k \in Nat /\ k < plugins
    BY <1>1, <1>3, UpTo
<1>5. phase = IF k + 1 = plugins THEN "ended" ELSE "flowEnd"
    BY <1>4
<1> DEFINE n == [r EXCEPT !.ended = 1 .. k + 1, !.phase = phase]
<1>6. phase \in {"ended", "flowEnd"}
    OBVIOUS
<1> HIDE DEF phase
<1>7. Step(c, n)
    BY <1>2, <1>4
<1>8. n \in Handlers
    <2>1. 1 .. k + 1 \in SUBSET Nat /\ phase \in Phases
        BY <1>4, <1>6 DEF Phases, Plugged
    <2>2. QED
        BY <1>1, <2>1 DEF Handlers
<1>9. /\ n.phase = phase /\ n.gen = r.gen /\ n.method = r.method /\ n.cred = r.cred
      /\ n.target = r.target /\ n.told = r.told /\ n.counted = r.counted
      /\ n.begun = r.begun /\ n.ended = 1 .. k + 1
    BY <1>1 DEF Handlers
<1> HIDE DEF n
<1>10. Hooked(n)
    <2>1. n.begun \subseteq 1 .. plugins
        BY <1>1, <1>9 DEF Sound, Hooked
    <2>2. CASE k + 1 = plugins
        BY <1>5, <1>9, <2>1, <2>2 DEF Hooked, Plugged
    <2>3. CASE k + 1 # plugins
        <3>1. k + 1 \in 0 .. plugins - 1
            BY <1>1, <1>4, <2>3
        <3>2. QED
            BY <1>5, <1>9, <2>1, <2>3, <3>1 DEF Hooked, Plugged
    <2>4. QED
        BY <2>2, <2>3
<1>11. QED
    BY <1>1, <1>6, <1>7, <1>8, <1>9, <1>10, FlowStep DEF Plugged, Served

-----------------------------------------------------------------------------
(***************************************************************************)
(* UDP ASSOCIATE.                                                          *)
(***************************************************************************)

(* A handler that goes on to serve an association.                         *)
LEMMA AssociationStep ==
    ASSUME NEW r, Sound(r), r.phase \in {"request", "advertise"},
           NEW phase \in {"advertise", "udp"},
           NEW what \in Told \ {"ConnectionNotAllowed", "NoAcceptable", "refused"}
    PROVE  LET n == [r EXCEPT !.phase = phase, !.told = what]
           IN  Sound(n) /\ n.gen = r.gen /\ n.phase \notin Early
<1> DEFINE n == [r EXCEPT !.phase = phase, !.told = what]
<1>1. r \in Handlers /\ n \in Handlers
    BY DEF Sound, Handlers, Phases, Served
<1>2. /\ n.phase = phase /\ n.gen = r.gen /\ n.method = r.method /\ n.told = what
      /\ n.counted = r.counted /\ n.target = r.target /\ n.begun = r.begun
      /\ n.ended = r.ended /\ n.cred = r.cred
    BY <1>1 DEF Handlers
<1> HIDE DEF n
<1>3. Passed(n) /\ Denied(n) /\ Hooked(n) /\ Counted(n)
    BY <1>2, Serves DEF Served, Plugged
<1>4. Tried(n)
    BY <1>2 DEF Sound, Tried, Plugged, Early
<1>5. QED
    BY <1>1, <1>2, <1>3, <1>4 DEF Sound, n, Early

LEMMA AssociateKeeps ==
    ASSUME ConnectionInv, NEW c \in Conns, Associate(c)
    PROVE  ConnectionInv'
<1> DEFINE r == conn[c]
           q == [r EXCEPT !.command = "udp"]
           f == Finished(q)
<1>1. Sound(r) /\ r.phase = "request" /\ r \in Handlers /\ UNCHANGED <<authVars, generation>>
    BY DEF ConnectionInv, HandlersSound, Associate, In, Sound
<1>2. /\ Sound(q) /\ q.phase = "request" /\ q.gen = r.gen /\ q.command = "udp"
      /\ q.method = r.method /\ q \in Handlers
    BY <1>1, CommandSound DEF Sound
<1>3. \/ Tell(c, "CommandNotSupported", f)
      \/ /\ ~udp_associate_reachable(Configs[r.gen].rules, Client, r.method)
         /\ Tell(c, "ConnectionNotAllowed", f)
      \/ Tell(c, "GeneralFailure", f)
      \/ Step(c, [q EXCEPT !.phase = "advertise"])
    BY DEF Associate, Config
<1> HIDE DEF q
<1>4. Sound(f) /\ f.gen = r.gen /\ f.phase = "ended" /\ f \in Handlers
    BY <1>2, Returns DEF Plugged, Sound
<1>5. ASSUME NEW what \in {"CommandNotSupported", "GeneralFailure"}, Tell(c, what, f)
      PROVE  ConnectionInv'
    <2>1. Sound([f EXCEPT !.told = what])
        BY <1>2, <1>5, Returns DEF Plugged, Told, Replies
    <2>2. QED
        BY <1>1, <1>4, <1>5, <2>1, TellKeeps DEF Plugged, Early
<1>6. ASSUME ~udp_associate_reachable(Configs[r.gen].rules, Client, r.method),
             Tell(c, "ConnectionNotAllowed", f)
      PROVE  ConnectionInv'
    <2> DEFINE n == [f EXCEPT !.told = "ConnectionNotAllowed"]
    <2>1. n = [q EXCEPT !.phase = "ended", !.told = "ConnectionNotAllowed"]
        BY <1>2 DEF Finished, Handlers
    <2> HIDE DEF n
    <2>2. n \in Handlers
        BY <1>2, <2>1 DEF Handlers, Phases, Plugged, Told, Replies
    <2>3. /\ n.phase = "ended" /\ n.gen = r.gen /\ n.method = r.method /\ n.command = "udp"
          /\ n.told = "ConnectionNotAllowed" /\ n.counted = q.counted /\ n.target = q.target
          /\ n.begun = q.begun /\ n.ended = q.ended
        BY <1>2, <2>1 DEF Handlers
    <2>4. Passed(n) /\ Tried(n)
        BY <1>2, <2>3 DEF Passed, Served, Sound, Tried, Plugged, Early
    <2>5. Hooked(n) /\ Counted(n)
        BY <1>2, <2>3 DEF Sound, Hooked, Counted, Plugged
    <2>6. ASSUME NEW dest \in Dests, MayPass(Configs[r.gen].rules, Client, dest, r.method)
          PROVE  FALSE
        <3> DEFINE rules == Configs[r.gen].rules
        <3>1. /\ DOMAIN rules = 1 .. Len(rules) /\ Len(rules) \in Nat /\ dest.addr.v6 \in BOOLEAN
              /\ \A i \in DOMAIN rules : \A cidr \in rules[i].to.cidrs : cidr.v6 \in BOOLEAN
            BY <1>1, ConnectionAssumption DEF Handlers
        <3> HIDE DEF rules
        <3>2. DOMAIN rules \subseteq Nat /\ \A i \in DOMAIN rules : 1 .. i \subseteq DOMAIN rules
            BY <3>1
        <3>3. MayPass(rules, Client, dest, r.method)
            BY <2>6 DEF rules
        <3>4. udp_associate_reachable(rules, Client, r.method)
            BY <3>1, <3>2, <3>3, GateSound
        <3>5. QED
            BY <1>6, <3>4 DEF rules
    <2>7. Denied(n)
        BY <2>3, <2>6 DEF Denied
    <2>8. Sound(n)
        BY <2>2, <2>4, <2>5, <2>7 DEF Sound
    <2>9. QED
        BY <1>1, <1>4, <1>6, <2>8, TellKeeps DEF n, Plugged, Early
<1>7. CASE Step(c, [q EXCEPT !.phase = "advertise"])
    <2>1. q.told \in Told \ {"ConnectionNotAllowed", "NoAcceptable", "refused"}
        BY <1>2 DEF Sound, Handlers, Denied, Counted
    <2>2. [q EXCEPT !.phase = "advertise"] = [q EXCEPT !.phase = "advertise", !.told = q.told]
        BY <1>2 DEF Handlers
    <2>3. LET n == [q EXCEPT !.phase = "advertise", !.told = q.told]
          IN  Sound(n) /\ n.gen = q.gen /\ n.phase \notin Early
        BY <1>2, <2>1, AssociationStep
    <2>4. QED
        BY <1>1, <1>2, <1>7, <2>2, <2>3, QuietStep
<1>8. QED
    BY <1>3, <1>5, <1>6, <1>7

LEMMA AssociatedKeeps ==
    ASSUME ConnectionInv, NEW c \in Conns, Associated(c)
    PROVE  ConnectionInv'
<1> DEFINE r == conn[c]
           n == [r EXCEPT !.phase = "udp"]
<1>1. /\ Sound(r) /\ r.phase = "advertise" /\ r \in Handlers /\ UNCHANGED <<authVars, generation>>
      /\ Tell(c, "Succeeded", n)
    BY DEF ConnectionInv, HandlersSound, Associated, In, Sound
<1>2. n \in Handlers /\ n.gen = r.gen /\ n.phase \notin Early
    BY <1>1 DEF Handlers, Phases, Served, Early
<1>3. [n EXCEPT !.told = "Succeeded"] = [r EXCEPT !.phase = "udp", !.told = "Succeeded"]
    BY <1>1 DEF Handlers
<1>4. Sound([r EXCEPT !.phase = "udp", !.told = "Succeeded"])
    BY <1>1, AssociationStep DEF Told
<1>5. QED
    BY <1>1, <1>2, <1>3, <1>4, TellKeeps DEF Plugged

LEMMA AssociationEndsKeeps ==
    ASSUME ConnectionInv, NEW c \in Conns, AssociationEnds(c)
    PROVE  ConnectionInv'
BY ReturnKeeps DEF AssociationEnds, In, Plugged

-----------------------------------------------------------------------------

LEMMA AbortKeeps ==
    ASSUME ConnectionInv, NEW c \in Conns, Abort(c)
    PROVE  ConnectionInv'
<1> DEFINE n == [Finished(conn[c]) EXCEPT !.aborted = TRUE]
<1>1. /\ Sound(conn[c]) /\ conn[c] \in Handlers /\ conn[c].phase # "ended" /\ UNCHANGED generation
      /\ HandlersSound /\ JobsSound /\ PermitsSound /\ CachesSound /\ Step(c, n)
    BY DEF ConnectionInv, HandlersSound, Abort, Sound
<1>2. Sound(n)
    BY <1>1, Returns
<1>3. n.gen = conn[c].gen /\ n.phase = "ended"
    BY <1>1 DEF Finished, Handlers
<1> HIDE DEF n
<1>4. CASE Verifying(c)
    <2>1. Dropped(c, conn[c].gen)
        BY <1>4 DEF Abort
    <2>2. CachesSound'
        BY <1>1, <2>1, CachesFrame DEF Dropped
    <2>3. PICK j : Moves(c, j) /\ j \notin {"waiting", "hashed", "delivering", "running"}
        BY <1>1, <2>1, DroppedMoves
    <2>4. QED
        BY <1>1, <1>2, <1>3, <2>2, <2>3, VerifyStep DEF Early
<1>5. CASE ~Verifying(c)
    <2>1. UNCHANGED <<authVars, generation>> /\ conn[c].phase # "verify"
        BY <1>5 DEF Abort, Verifying, In
    <2>2. QED
        BY <1>1, <1>2, <1>3, <2>1, QuietStep DEF Early
<1>6. QED
    BY <1>4, <1>5

(* Everything but the caches and the configuration in force stands.        *)
LEMMA HandlersFrame ==
    ASSUME ConnectionInv, UNCHANGED <<job, hashFree, commandFree, conn>>
    PROVE  HandlersSound' /\ JobsSound' /\ PermitsSound'
<1>1. HandlersSound'
    BY DEF ConnectionInv, HandlersSound, Sound, Passed, Tried, Denied, Hooked, Counted, Allows,
        MayPass, accepts
<1>2. JobsSound'
    BY DEF ConnectionInv, JobsSound
<1>3. Hashing' = Hashing /\ \A g \in Generations : Children(g)' = Children(g)
    BY DEF Hashing, Children
<1>4. PermitsSound'
    BY <1>3 DEF ConnectionInv, PermitsSound
<1>5. QED
    BY <1>1, <1>2, <1>4

LEMMA OthersKeep ==
    ASSUME ConnectionInv, Reload \/ UNCHANGED vars \/ \E g \in Generations : Expire(g)
    PROVE  ConnectionInv'
<1>1. CASE Reload \/ UNCHANGED vars
    <2>1. CachesSound'
        BY <1>1, CachesFrame DEF ConnectionInv, Reload, vars, authVars
    <2>2. generation' \in Generations /\ UNCHANGED <<job, hashFree, commandFree, conn>>
        BY <1>1 DEF ConnectionInv, Reload, vars, authVars
    <2>3. QED
        BY <2>1, <2>2, HandlersFrame DEF ConnectionInv
<1>2. CASE \E g \in Generations : Expire(g)
    <2>1. PICK g \in Generations : Expire(g)
        BY <1>2
    <2>2. CachesSound'
        BY <2>1, ExpiryKeeps DEF ConnectionInv, Expire
    <2>3. generation' \in Generations /\ UNCHANGED <<job, hashFree, commandFree, conn>>
        BY <2>1 DEF ConnectionInv, Expire, EntryExpires
    <2>4. QED
        BY <2>2, <2>3, HandlersFrame DEF ConnectionInv
<1>3. QED
    BY <1>1, <1>2

LEMMA ConnectionStart == Init => ConnectionInv
<1> SUFFICES ASSUME Init PROVE ConnectionInv
    OBVIOUS
<1> USE DEF Init, AuthInit
<1>1. generation \in Generations
    BY ConnectionAssumption
<1>2. Fresh \in Handlers
    BY ConnectionAssumption DEF Fresh, Handlers, Phases, Early, Told
<1>3. /\ Fresh.phase = "new" /\ Fresh.target = None /\ Fresh.offered = {} /\ Fresh.told = None
      /\ Fresh.counted = 0 /\ Fresh.begun = {} /\ Fresh.ended = {}
    BY DEF Fresh
<1> HIDE DEF Fresh
<1>4. Passed(Fresh) /\ Tried(Fresh)
    BY <1>3 DEF Passed, Tried, Served, Early
<1>5. Denied(Fresh) /\ Hooked(Fresh) /\ Counted(Fresh)
    BY <1>3, ConnectionAssumption DEF Denied, Hooked, Counted, Plugged
<1>6. HandlersSound
    BY <1>2, <1>4, <1>5 DEF HandlersSound, Sound
<1>7. JobsSound
    BY <1>6 DEF JobsSound, JobStates
<1>8. CachesSound
    BY AuthAssumption DEF CachesSound
<1>9. Hashing = {} /\ \A g \in Generations : Children(g) = {}
    BY DEF Hashing, Children, ChildStates
<1>10. PermitsSound
    BY <1>9, FS_EmptySet, AuthAssumption DEF PermitsSound
<1>11. QED
    BY <1>1, <1>6, <1>7, <1>8, <1>10 DEF ConnectionInv

LEMMA ConnectionStep == ConnectionInv /\ [Next]_vars => ConnectionInv'
<1> SUFFICES ASSUME ConnectionInv, [Next]_vars PROVE ConnectionInv'
    OBVIOUS
<1>1. ASSUME NEW c \in Conns, Verification(c) PROVE ConnectionInv'
    BY <1>1, UserpassKeeps, JobKeeps, AnswerKeeps DEF Verification
<1>2. ASSUME NEW c \in Conns, Handling(c) PROVE ConnectionInv'
    BY <1>2, AcceptKeeps, AdmitKeeps, ReadFailsKeeps, AbortKeeps, GreetingKeeps, ConnectKeeps,
       UnsupportedKeeps, ResolveFailsKeeps, ResolveKeeps, TryKeeps, NoneConnectedKeeps,
       ConnectedKeeps, ConnectFailsKeeps, OnFlowKeeps, RelayEndsKeeps, OnFlowEndKeeps,
       AssociateKeeps, AssociatedKeeps, AssociationEndsKeeps DEF Handling
<1>3. QED
    BY <1>1, <1>2, OthersKeep DEF Next

(* The inductive invariant of client connections: what each handler has     *)
(* passed on its way, what its generation's cache may hold, where its       *)
(* verification stands and who holds each permit.                          *)
THEOREM ConnectionInvariant == Spec => []ConnectionInv
BY ConnectionStart, ConnectionStep, PTL DEF Spec

(* Nobody is served on the word of another configuration: past the          *)
(* authentication stand only clients, methods, credentials and targets that *)
(* the configuration the connection was accepted under allows, through      *)
(* every reload, cache hit, verification and candidate.                    *)
THEOREM OnlyAdmitted == Spec => []Admitted
<1>1. ConnectionInv => Admitted
    <2> SUFFICES ASSUME ConnectionInv, NEW c \in Conns, Authenticated(c)
                 PROVE  /\ evaluate_client(Config(c).rules, Client, Proxy)
                        /\ \E i \in DOMAIN Config(c).methods : Config(c).methods[i] = conn[c].method
                        /\ conn[c].method = "UserPass" => accepts(conn[c].gen, conn[c].cred)
                        /\ conn[c].target # None => authorize_connect_target(c, conn[c].target)
        BY DEF Admitted
    <2>1. Passed(conn[c]) /\ Tried(conn[c]) /\ conn[c].phase \in Served
        BY DEF ConnectionInv, HandlersSound, Sound, Authenticated, Served
    <2>2. QED
        BY <2>1 DEF Passed, Tried, Config, authorize_connect_target, Allows
<1>2. QED
    BY <1>1, ConnectionInvariant, PTL

(* A client that is told its request is not allowed was refused by the      *)
(* rules: by all of them for every candidate it might have used, and for    *)
(* every destination of a datagram.                                        *)
THEOREM RefusalsDenied == Spec => []RefusalMeansDenied
<1>1. ConnectionInv => RefusalMeansDenied
    <2> SUFFICES ASSUME ConnectionInv, NEW c \in Conns, conn[c].told = "ConnectionNotAllowed",
                        conn[c].error = None
                 PROVE  IF conn[c].command = "udp"
                        THEN \A dest \in Dests : ~MayPass(Config(c).rules, Client, dest, conn[c].method)
                        ELSE \A dest \in conn[c].offered : ~authorize_connect_target(c, dest)
        BY DEF RefusalMeansDenied
    <2>1. Denied(conn[c])
        BY DEF ConnectionInv, HandlersSound, Sound
    <2>2. QED
        BY <2>1 DEF Denied, Config, authorize_connect_target, Allows
<1>2. QED
    BY <1>1, ConnectionInvariant, PTL

(* What a connection takes it gives back: the verifiers at work, also those *)
(* that outlive their connection, stay within the limits, every plugin that *)
(* saw a flow begin is told of its end, and a failure is counted once, when *)
(* the client has been told.                                               *)
THEOREM TakenIsGivenBack == Spec => []GivenBack
<1>1. ConnectionInv => GivenBack
    <2> SUFFICES ASSUME ConnectionInv PROVE GivenBack
        OBVIOUS
    <2> USE DEF ConnectionInv
    <2>1. /\ IsFiniteSet(Hashing) /\ Cardinality(Hashing) \in Nat
          /\ \A g \in Generations : Cardinality(Children(g)) \in Nat
        BY ConnectionAssumption, FS_Subset, FS_CardinalityType DEF Hashing, Children
    <2>2. /\ hashFree \in 0 .. MaxVerifications /\ Cardinality(Hashing) <= MaxVerifications
        BY <2>1, AuthAssumption DEF PermitsSound
    <2>3. \A g \in Generations : commandFree[g] \in 0 .. MaxCommands
                                 /\ Cardinality(Children(g)) <= MaxCommands
        BY <2>1, AuthAssumption DEF PermitsSound
    <2>4. TypeOK
        <3>1. commandFree \in [Generations -> 0 .. MaxCommands]
            BY <2>3 DEF PermitsSound
        <3>2. \A c \in Conns : conn[c].gen \in Generations
            BY DEF HandlersSound, Handlers
        <3>3. QED
            BY <2>2, <3>1, <3>2 DEF TypeOK, JobsSound, CachesSound
    <2>5. VerifiersBounded
        BY <2>2, <2>3 DEF VerifiersBounded, Hashing, Children
    <2>6. FlowsPaired
        <3> SUFFICES ASSUME NEW c \in Conns, conn[c].phase = "ended", ~conn[c].aborted
                     PROVE  /\ conn[c].begun \subseteq conn[c].ended
                            /\ (conn[c].counted = 1) = (conn[c].told \in {"NoAcceptable", "refused"})
            BY DEF FlowsPaired, In
        <3>1. Hooked(conn[c]) /\ Counted(conn[c])
            BY DEF HandlersSound, Sound
        <3>2. QED
            BY <3>1 DEF Hooked, Counted
    <2>7. QED
        BY <2>4, <2>5, <2>6 DEF GivenBack
<1>2. QED
    BY <1>1, ConnectionInvariant, PTL
=============================================================================
