----------------------------- MODULE Connection -----------------------------
(***************************************************************************)
(* The life of a client connection (connection.rs): client rule, method    *)
(* negotiation, authentication (Auth), the request with its rules (Acl),   *)
(* the candidates of a CONNECT tried in turn over either egress, the       *)
(* plugin hooks around the relay, and UDP ASSOCIATE up to the association  *)
(* itself (Udp).  The relay and the resolver are modelled in Relay and     *)
(* Dns: here they end, or answer, in any way they can.                     *)
(*                                                                         *)
(* A write to the client may find him gone: then the handler returns where *)
(* it stands, and what follows the write is not done.                      *)
(***************************************************************************)
EXTENDS Auth, Acl

CONSTANTS
    Client, Proxy,      \* the endpoints [addr, port] of the client and of the proxy
    Dests,              \* destinations [addr, port, host], host None for a literal
    Addresses,          \* answers the resolver may give: sequences of destinations
    Errors              \* kinds of failure an attempt to connect can end with

ASSUME ConnectionAssumption ==
    /\ IsFiniteSet(Conns) /\ 1 \in Generations /\ Generations \subseteq Nat
    /\ None \notin Errors \cup {"None", "UserPass", "ConnectionNotAllowed", "NoAcceptable", "refused"}
    /\ \A cred \in Creds : cred = [user |-> cred.user, password |-> cred.password]
    /\ \A dest \in Dests : dest.addr.v6 \in BOOLEAN
    /\ Addresses \subseteq Seq(Dests) \ {<<>>}
    /\ \A g \in Generations :
          /\ Configs[g].methods \in Seq({"None", "UserPass"}) /\ Configs[g].plugins \in Nat
          /\ DOMAIN Configs[g].rules = 1 .. Len(Configs[g].rules) /\ Len(Configs[g].rules) \in Nat
          /\ \A i \in DOMAIN Configs[g].rules : \A cidr \in Configs[g].rules[i].to.cidrs :
                 cidr.v6 \in BOOLEAN

VARIABLES
    generation,     \* of the configuration now in force
    conn            \* conn -> the state of its handler

vars == <<authVars, generation, conn>>

Fresh == [phase |-> "new", gen |-> 1, method |-> None, cred |-> None, told |-> None,
          counted |-> 0, command |-> None, cands |-> <<>>, offered |-> {}, error |-> None,
          target |-> None, begun |-> {}, ended |-> {}, aborted |-> FALSE]

Init == AuthInit /\ generation = 1 /\ conn = [c \in Conns |-> Fresh]

Config(c) == Configs[conn[c].gen]

In(c, phase) == conn[c].phase = phase

Finished(r) == [r EXCEPT !.phase = "ended"]

Step(c, r) == conn' = [conn EXCEPT ![c] = r]

\* The client is told, and the handler goes on as r; or he is gone.
Tell(c, what, r) ==
    \/ Step(c, [r EXCEPT !.told = what])
    \/ Step(c, Finished(conn[c]))

\* A failure reply, after which the handler returns.
Refuse(c, what) == Tell(c, what, Finished(conn[c]))

Verifying(c) == In(c, "verify")

-----------------------------------------------------------------------------
(***************************************************************************)
(* Admission and method negotiation.                                       *)
(***************************************************************************)

\* The server hands the connection the configuration of this moment.
Accept(c) ==
    /\ In(c, "new")
    /\ Step(c, [conn[c] EXCEPT !.phase = "client", !.gen = generation])
    /\ UNCHANGED <<authVars, generation>>

AdmitClient(c) ==
    /\ In(c, "client")
    /\ Step(c, IF evaluate_client(Config(c).rules, Client, Proxy)
               THEN [conn[c] EXCEPT !.phase = "greeting"]
               ELSE Finished(conn[c]))
    /\ UNCHANGED <<authVars, generation>>

\* with_timeout around each read: nothing, or nothing well formed, arrives.
ReadFails(c) ==
    /\ conn[c].phase \in {"greeting", "userpass", "request"}
    /\ Step(c, Finished(conn[c]))
    /\ UNCHANGED <<authVars, generation>>

\* The first configured method that the client offers.
Chosen(c, methods) ==
    LET wanted == {i \in DOMAIN Config(c).methods : Config(c).methods[i] \in methods}
    IN  IF wanted = {} THEN None
        ELSE Config(c).methods[CHOOSE i \in wanted : \A j \in wanted : i <= j]

Greeting(c, methods) ==
    /\ In(c, "greeting")
    /\ LET method == Chosen(c, methods) IN
       CASE method = None ->
              Tell(c, "NoAcceptable", [Finished(conn[c]) EXCEPT !.counted = @ + 1])
         [] method = "None" ->
              Tell(c, "method", [conn[c] EXCEPT !.method = method, !.phase = "request"])
         [] OTHER ->
              Tell(c, "method", [conn[c] EXCEPT !.method = method, !.phase = "userpass"])
    /\ UNCHANGED <<authVars, generation>>

-----------------------------------------------------------------------------
(***************************************************************************)
(* Authentication.                                                         *)
(***************************************************************************)

\* A denial and a timeout are answered, and counted once they are.
Outcome(c, r, allowed) ==
    IF allowed THEN \/ Step(c, [r EXCEPT !.phase = "request", !.told = "granted"])
                    \/ Step(c, Finished(r))
    ELSE \/ Step(c, [Finished(r) EXCEPT !.told = "refused", !.counted = @ + 1])
         \/ Step(c, Finished(r))

\* The credentials have been read: they are refused at once if they break the
\* framing of the command's input, granted if the cache knows them, and else
\* a verification waits for its permit.
Userpass(c, cred) ==
    LET g == conn[c].gen
        r == [conn[c] EXCEPT !.cred = cred]
    IN  /\ In(c, "userpass")
        /\ \/ /\ Commanded(g) /\ cred \in Framing
              /\ Outcome(c, r, FALSE)
              /\ UNCHANGED <<job, verified>>
           \/ /\ ~(Commanded(g) /\ cred \in Framing)
              /\ Configs[g].ttl /\ check(g, cred)
              /\ Outcome(c, r, TRUE)
              /\ UNCHANGED <<job, verified>>
           \/ /\ ~(Commanded(g) /\ cred \in Framing)
              /\ ~(Configs[g].ttl /\ check(g, cred))
              /\ Step(c, [r EXCEPT !.phase = "verify"])
              /\ SetJob(c, "waiting")
              /\ verified' = IF Configs[g].ttl THEN [verified EXCEPT ![g] = Checked(g, cred)]
                             ELSE verified
        /\ UNCHANGED <<hashFree, commandFree, generation>>

VerifyStarts(c) ==
    /\ Verifying(c)
    /\ StartHash(c, conn[c].gen) \/ Spawn(c, conn[c].gen)
    /\ UNCHANGED <<conn, generation>>

HashEnds(c) == EndHash(c, Verifying(c)) /\ UNCHANGED <<conn, generation>>

CommandDelivered(c) == Verifying(c) /\ Deliver(c) /\ UNCHANGED <<conn, generation>>

\* The verdict reaches the connection that asked for it.
VerifyAnswers(c) ==
    LET g == conn[c].gen
        right == accepts(g, conn[c].cred)
    IN  /\ Verifying(c)
        /\ \/ job[c] = "hashed" /\ SetJob(c, "none") /\ UNCHANGED <<hashFree, commandFree>>
           \/ Exit(c, g)
        /\ verified' = IF right THEN Remember(g, conn[c].cred) ELSE verified
        /\ Outcome(c, conn[c], right)
        /\ UNCHANGED generation

\* No child, a child that does not take the credentials, or one that cannot
\* be waited for: refused, whatever its status would have been.
VerifyFails(c) ==
    /\ Verifying(c)
    /\ SpawnFails(c, conn[c].gen) \/ GuardDropped(c, "delivering") \/ GuardDropped(c, "running")
    /\ Outcome(c, conn[c], FALSE)
    /\ UNCHANGED generation

VerifyTimeout(c) ==
    /\ Verifying(c)
    /\ Dropped(c, conn[c].gen)
    /\ Outcome(c, conn[c], FALSE)
    /\ UNCHANGED generation

\* What goes on after the connection has gone its way.
Reap(c) == Reaped(c, conn[c].gen) /\ UNCHANGED <<conn, generation>>
GiveUpReaping(c) == ReapTimeout(c, conn[c].gen) /\ UNCHANGED <<conn, generation>>
Orphan(c) == OrphanReaped(c) /\ UNCHANGED <<conn, generation>>
Expire(g) == EntryExpires(g) /\ UNCHANGED <<conn, generation>>

-----------------------------------------------------------------------------
(***************************************************************************)
(* CONNECT.                                                                *)
(***************************************************************************)

Connect(c) ==
    /\ In(c, "request")
    /\ \/ Step(c, [conn[c] EXCEPT !.command = "connect", !.phase = "resolving"])
       \/ /\ Config(c).egress = "rdp"        \* there is no connector
          /\ Tell(c, "NetworkUnreachable", [Finished(conn[c]) EXCEPT !.command = "connect"])
    /\ UNCHANGED <<authVars, generation>>

\* BIND and an unknown address type are answered, everything else is not.
Unsupported(c) ==
    /\ In(c, "request")
    /\ Refuse(c, "CommandNotSupported") \/ Refuse(c, "AddressTypeNotSupported")
    /\ UNCHANGED <<authVars, generation>>

\* Error::to_reply and rdp_io_reply, for the kinds a connection can meet.
to_reply(kind) ==
    CASE kind = "ConnectionRefused" -> "ConnectionRefused"
      [] kind = "TimedOut" -> "TtlExpired"
      [] kind \in {"HostUnreachable", "AddrNotAvailable"} -> "HostUnreachable"
      [] kind = "PermissionDenied" -> "ConnectionNotAllowed"
      [] OTHER -> "NetworkUnreachable"

rdp_io_reply(kind) ==
    CASE kind \in {"Other", "ResourceLimit"} -> "GeneralFailure"
      [] OTHER -> to_reply(kind)

Reply(c, kind) == IF Config(c).egress = "rdp" THEN rdp_io_reply(kind) ELSE to_reply(kind)

ResolveFails(c) ==
    /\ In(c, "resolving")
    /\ \/ Refuse(c, "HostUnreachable")      \* also an answer the policy leaves empty
       \/ Config(c).egress = "rdp" /\ \E kind \in Errors : Refuse(c, rdp_io_reply(kind))
    /\ UNCHANGED <<authVars, generation>>

\* The addresses the policy allows, in the order they will be tried.
Resolve(c, addresses) ==
    /\ In(c, "resolving")
    /\ LET cands == IF Config(c).tryAll THEN addresses ELSE <<addresses[1]>>
       IN  Step(c, [conn[c] EXCEPT !.phase = "trying", !.cands = cands,
                        !.offered = {cands[i] : i \in DOMAIN cands}])
    /\ UNCHANGED <<authVars, generation>>

authorize_connect_target(c, dest) ==
    evaluate_socks(Config(c).rules, Client, dest, "connect", "tcp", conn[c].method)

Try(c) ==
    /\ In(c, "trying") /\ conn[c].cands # <<>>
    /\ Step(c, IF authorize_connect_target(c, Head(conn[c].cands))
               THEN [conn[c] EXCEPT !.phase = "connecting"]
               ELSE [conn[c] EXCEPT !.cands = Tail(@)])
    /\ UNCHANGED <<authVars, generation>>

\* An attempt over the RDP session may leave nothing to retry with.
ConnectFails(c, kind) ==
    /\ In(c, "connecting")
    /\ \E retry \in IF Config(c).egress = "rdp" THEN BOOLEAN ELSE {TRUE} :
           Step(c, [conn[c] EXCEPT !.phase = "trying", !.error = kind,
                        !.cands = IF Config(c).tryAll /\ retry THEN Tail(@) ELSE <<>>])
    /\ UNCHANGED <<authVars, generation>>

NoneConnected(c) ==
    /\ In(c, "trying") /\ conn[c].cands = <<>>
    /\ Refuse(c, IF conn[c].error # None THEN Reply(c, conn[c].error) ELSE "ConnectionNotAllowed")
    /\ UNCHANGED <<authVars, generation>>

Connected(c) ==
    /\ In(c, "connecting")
    /\ Tell(c, "Succeeded",
            [conn[c] EXCEPT !.target = Head(conn[c].cands),
                 !.phase = IF Config(c).plugins = 0 THEN "relay" ELSE "flow"])
    /\ UNCHANGED <<authVars, generation>>

-----------------------------------------------------------------------------
(***************************************************************************)
(* The plugin hooks of a CONNECT.                                          *)
(***************************************************************************)

\* PluginHost::on_flow asks the plugins in turn; the first denial decides.
OnFlow(c, continue) ==
    LET plugin == Cardinality(conn[c].begun) + 1 IN
    /\ In(c, "flow")
    /\ Step(c, [conn[c] EXCEPT !.begun = @ \cup {plugin},
                    !.phase = IF ~continue THEN "flowEnd"
                              ELSE IF plugin = Config(c).plugins THEN "relay" ELSE "flow"])
    /\ UNCHANGED <<authVars, generation>>

\* A plugin that does not answer within the handshake timeout: it has been
\* asked as well.
OnFlowTimeout(c) ==
    LET plugin == Cardinality(conn[c].begun) + 1 IN
    /\ In(c, "flow")
    /\ Step(c, [conn[c] EXCEPT !.phase = "flowEnd", !.begun = @ \cup {plugin}])
    /\ UNCHANGED <<authVars, generation>>

\* The relay, or the plugin that claimed the flow, has ended, well or not.
RelayEnds(c) ==
    /\ In(c, "relay")
    /\ Step(c, [conn[c] EXCEPT !.phase = IF Config(c).plugins = 0 THEN "ended" ELSE "flowEnd"])
    /\ UNCHANGED <<authVars, generation>>

\* on_flow_end goes to every plugin, the ones that were not asked too.
OnFlowEnd(c) ==
    LET plugin == Cardinality(conn[c].ended) + 1 IN
    /\ In(c, "flowEnd")
    /\ Step(c, [conn[c] EXCEPT !.ended = @ \cup {plugin},
                    !.phase = IF plugin = Config(c).plugins THEN "ended" ELSE "flowEnd"])
    /\ UNCHANGED <<authVars, generation>>

-----------------------------------------------------------------------------
(***************************************************************************)
(* UDP ASSOCIATE.                                                          *)
(***************************************************************************)

Associate(c) ==
    LET r == [conn[c] EXCEPT !.command = "udp"] IN
    /\ In(c, "request")
    /\ CASE Config(c).egress = "rdp" -> Tell(c, "CommandNotSupported", Finished(r))
         [] Config(c).egress # "rdp"
            /\ ~udp_associate_reachable(Config(c).rules, Client, conn[c].method) ->
              Tell(c, "ConnectionNotAllowed", Finished(r))
         [] OTHER ->
              \* udp_client_facing_bind_ip, bind_udp_in_range, bind_outbound_udp
              \/ Tell(c, "GeneralFailure", Finished(r))
              \/ Step(c, [r EXCEPT !.phase = "advertise"])
    /\ UNCHANGED <<authVars, generation>>

\* advertised_reply_addr has an address, resolved or bound.
Associated(c) ==
    /\ In(c, "advertise")
    /\ Tell(c, "Succeeded", [conn[c] EXCEPT !.phase = "udp"])
    /\ UNCHANGED <<authVars, generation>>

AssociationEnds(c) ==
    /\ In(c, "udp")
    /\ Step(c, Finished(conn[c]))
    /\ UNCHANGED <<authVars, generation>>

-----------------------------------------------------------------------------

\* The task is aborted (the end of the drain, a panic): every future it has
\* pending is dropped where it stands.
Abort(c) ==
    /\ conn[c].phase \notin {"new", "ended"}
    /\ Step(c, [Finished(conn[c]) EXCEPT !.aborted = TRUE])
    /\ IF Verifying(c) THEN Dropped(c, conn[c].gen) ELSE UNCHANGED authVars
    /\ UNCHANGED generation

\* Configuration, users and command are replaced together (Server).
Reload ==
    /\ generation + 1 \in Generations
    /\ generation' = generation + 1
    /\ UNCHANGED <<authVars, conn>>

Verification(c) ==
    \/ \E cred \in Creds : Userpass(c, cred)
    \/ VerifyStarts(c) \/ HashEnds(c) \/ CommandDelivered(c)
    \/ VerifyAnswers(c) \/ VerifyFails(c) \/ VerifyTimeout(c)
    \/ Reap(c) \/ GiveUpReaping(c) \/ Orphan(c)

Handling(c) ==
    \/ Accept(c) \/ AdmitClient(c) \/ ReadFails(c) \/ Abort(c)
    \/ \E methods \in SUBSET {"None", "UserPass"} : Greeting(c, methods)
    \/ Connect(c) \/ Unsupported(c) \/ ResolveFails(c)
    \/ \E addresses \in Addresses : Resolve(c, addresses)
    \/ Try(c) \/ NoneConnected(c) \/ Connected(c)
    \/ \E kind \in Errors : ConnectFails(c, kind)
    \/ \E continue \in BOOLEAN : OnFlow(c, continue)
    \/ OnFlowTimeout(c) \/ RelayEnds(c) \/ OnFlowEnd(c)
    \/ Associate(c) \/ Associated(c) \/ AssociationEnds(c)

Next ==
    \/ \E c \in Conns : Verification(c) \/ Handling(c)
    \/ \E g \in Generations : Expire(g)
    \/ Reload

Spec == Init /\ [][Next]_vars

(***************************************************************************)
(* Fairness: the handler runs when it can, each wait it makes before the   *)
(* relay has a timeout, a hash ends, and the reaper's wait is bounded.     *)
(* A child need not die, a plugin need not answer, a client need not send. *)
(***************************************************************************)
FairSpec ==
    /\ Spec
    /\ \A c \in Conns :
          /\ WF_vars(AdmitClient(c)) /\ WF_vars(ReadFails(c)) /\ WF_vars(VerifyTimeout(c))
          /\ WF_vars(HashEnds(c)) /\ WF_vars(GiveUpReaping(c))
          /\ WF_vars(ResolveFails(c)) /\ WF_vars(Try(c)) /\ WF_vars(NoneConnected(c))
          /\ WF_vars(\E kind \in Errors : ConnectFails(c, kind))
          /\ WF_vars(OnFlowTimeout(c)) /\ WF_vars(Associated(c))

-----------------------------------------------------------------------------
(***************************************************************************)
(* Properties.                                                             *)
(***************************************************************************)

TypeOK ==
    /\ job \in [Conns -> JobStates]
    /\ hashFree \in 0 .. MaxVerifications
    /\ commandFree \in [Generations -> 0 .. MaxCommands]
    /\ generation \in Generations
    /\ \A g \in Generations : Len(verified[g]) <= CacheCapacity
    /\ \A c \in Conns : conn[c].gen \in Generations

Authenticated(c) ==
    conn[c].phase \in {"request", "resolving", "trying", "connecting", "flow", "relay",
                       "advertise", "udp"}

\* Nobody is let through on the word of another configuration: past the
\* authentication stand only clients whose rules, method and credentials the
\* configuration they were accepted under allows, and a target is held only
\* if that configuration's rules pass it (a cache that outlived a reload, or
\* that forgot the password, would break this).
Admitted ==
    \A c \in Conns : Authenticated(c) =>
        /\ evaluate_client(Config(c).rules, Client, Proxy)
        /\ \E i \in DOMAIN Config(c).methods : Config(c).methods[i] = conn[c].method
        /\ conn[c].method = "UserPass" => accepts(conn[c].gen, conn[c].cred)
        /\ conn[c].target # None => authorize_connect_target(c, conn[c].target)

\* A client that is told its request is not allowed was refused by the rules:
\* none of the candidates it may use passes them, and no datagram of an
\* association that was refused would have.
RefusalMeansDenied ==
    \A c \in Conns : (conn[c].told = "ConnectionNotAllowed" /\ conn[c].error = None) =>
        IF conn[c].command = "udp"
        THEN \A dest \in Dests : ~MayPass(Config(c).rules, Client, dest, conn[c].method)
        ELSE \A dest \in conn[c].offered : ~authorize_connect_target(c, dest)

\* The limiters bound what really runs: hashes in the whole process and, of
\* each configuration, children that have not been reaped, whether or not the
\* connection they verify is still there.  (A child the reaper gave up after
\* REAP_WAIT_TIMEOUT is outside the limit.)
VerifiersBounded ==
    /\ Cardinality({c \in Conns : job[c] = "hashing"}) <= MaxVerifications
    /\ \A g \in Generations :
           Cardinality({c \in Conns : conn[c].gen = g /\ job[c] \in ChildStates}) <= MaxCommands

\* on_flow_end pairs with on_flow: a connection that ran to its end has ended
\* the flow for every plugin that saw it begin, and a client is counted as
\* failed if and only if it was told so.
FlowsPaired ==
    \A c \in Conns : (In(c, "ended") /\ ~conn[c].aborted) =>
        /\ conn[c].begun \subseteq conn[c].ended
        /\ (conn[c].counted = 1) = (conn[c].told \in {"NoAcceptable", "refused"})

\* What a connection takes it gives back: slots of the verifiers, also those of
\* work that outlives it, and the flows that plugins were told of.
GivenBack == TypeOK /\ VerifiersBounded /\ FlowsPaired

\* Every connection that was accepted comes to a decision, and what its
\* verification started gives its permit back, even if a child never dies.
ConnectionsDecide ==
    \A c \in Conns :
        ~In(c, "new") ~> /\ conn[c].phase \in {"relay", "flowEnd", "udp", "ended"}
                         /\ job[c] \in {"none", "stuck"}
=============================================================================
