-------------------------- MODULE MuxSessionProofs --------------------------
(***************************************************************************)
(* The streams of an RDP session, for any number of callers, slots and     *)
(* stream IDs, and any room in the command channel: two honest drivers     *)
(* never meet a frame they forbid, a tombstone is always answered, and no  *)
(* permit is lost or duplicated.                                           *)
(***************************************************************************)
EXTENDS MuxSession, FiniteSetTheorems, FunctionTheorems, TLAPS

USE LimitsAssumption, CallersAssumption

Requests == {"RESOLVE", "OPEN", "CLOSE"}
Replied == {"RESOLVE_OK", "OPEN_OK", "OPEN_ERROR", "CLOSE"}
States == {"none", "Resolving", "Resolved", "Opening", "Open", "Cancelled", "Closing"}
CommandTypes == {"Resolve", "Open", "OpenIp", "Close"}
Commands == [type : CommandTypes, id : Ids, permit : BOOLEAN]
Places == {"new", "admitting", "sending", "resolving", "resolved", "sendingOpen", "opening",
           "stream", "done"}
Replies == [kind : {"none", "ok", "remote", "error"}, permit : BOOLEAN]
Frame(t, i) == [type |-> t, id |-> i]
Frames(S) == [type : S, id : Ids]
PerEnd(S) == [Ends -> [Ids -> S]]

Types ==
    /\ pc \in [Callers -> Places] /\ id \in [Callers -> Ids \cup {0}]
    /\ holdsSlot \in [Callers -> BOOLEAN] /\ reply \in [Callers -> Replies]
    /\ slots \in Nat /\ nextStreamId \in Ids /\ shutdown \in BOOLEAN
    /\ commands \in Seq(Commands)
    /\ session \in [Ends -> {"up", "protocolError", "ended"}]
    /\ streams \in PerEnd(States)
    /\ candidates \in PerEnd(BOOLEAN) /\ permit \in [Ids -> BOOLEAN]
    /\ highestStreamId \in Ids \cup {0}
    /\ operations \in [Ids -> {"none", "resolve", "open"}] /\ relays \in SUBSET Ids
    /\ dropped \in PerEnd(BOOLEAN) /\ remoteClosed \in PerEnd(BOOLEAN)
    /\ closeQueued \in PerEnd(BOOLEAN)
    /\ events \in PerEnd({"none", "Stopped", "LocalCloseQueued"})
    /\ toAgent \in Seq(Frames(Requests))
    /\ toClient \in Seq(Frames(Replied))

-----------------------------------------------------------------------------
(* The callers.                                                            *)

\* An ID has one caller, which got it from next_stream_id.
IdsOwned ==
    /\ \A c \in Callers : id[c] # 0 => id[c] < nextStreamId
    /\ \A c, d \in Callers : id[c] = id[d] /\ id[c] # 0 => c = d
    /\ \A c \in Callers : pc[c] \in {"new", "admitting"} => id[c] = 0
    /\ \A c \in Callers : pc[c] \notin {"new", "admitting", "done"} => id[c] # 0
    /\ \A c, d \in Callers : pc[c] = "sending" /\ pc[d] = "sending" => c = d

Owned(i) == \E c \in Callers : id[c] = i
Literal(i) == \E c \in IpCallers : id[c] = i

Asks(command) == command.type \in {"Resolve", "Open", "OpenIp"}
Introduces(command) == command.type \in {"Resolve", "OpenIp"}

CommandsSound ==
    \A n \in 1 .. Len(commands) :
        /\ Owned(commands[n].id)
        /\ commands[n].type = "OpenIp" => Literal(commands[n].id)
        /\ commands[n].type = "Resolve" => ~Literal(commands[n].id)
        /\ commands[n].permit <=> commands[n].type \in {"Open", "OpenIp"}

\* A caller that has asked has one request, in the queue or with the driver,
\* and no answer yet.
AsksOnce ==
    \A m, n \in 1 .. Len(commands) :
        Asks(commands[m]) /\ Asks(commands[n]) /\ commands[m].id = commands[n].id => m = n

Awaits(c, stage) == pc[c] \in {stage, "done"} /\ reply[c].kind = "none"

Waiting(c) ==
    /\ \A n \in 1 .. Len(commands) : commands[n].id = id[c] =>
          /\ commands[n].type = "Resolve" => Awaits(c, "resolving")
          /\ commands[n].type \in {"Open", "OpenIp"} => Awaits(c, "opening")
          /\ Asks(commands[n]) => streams["client"][id[c]] \notin {"Resolving", "Opening"}
    /\ id[c] # 0 =>
          /\ streams["client"][id[c]] = "Resolving" => Awaits(c, "resolving")
          /\ streams["client"][id[c]] = "Opening" => Awaits(c, "opening")

\* Where a caller's permit is.
Permitted(c) ==
    /\ holdsSlot[c] <=> pc[c] \in {"admitting", "sending", "resolving", "resolved", "sendingOpen"}
    /\ reply[c].permit => pc[c] = "opening" /\ reply[c].kind \in {"remote", "error"}
    /\ reply[c].kind = "remote" /\ pc[c] = "opening" /\ c \in Resolvers => reply[c].permit
    /\ reply[c].kind # "none" => pc[c] \in {"resolving", "opening"}
    /\ pc[c] \in {"resolving", "resolved", "sendingOpen"} => c \in Resolvers

EntrySound(i) ==
    /\ streams["client"][i] # "none" => Owned(i)
    /\ streams["client"][i] # "Cancelled"
    /\ streams["client"][i] \in {"Opening", "Open"} => permit[i]
    /\ streams["client"][i] \in {"none", "Resolving", "Resolved"} => ~permit[i]
    /\ streams["client"][i] \in {"Resolving", "Resolved"} => ~Literal(i)
    /\ streams["client"][i] = "Resolved" => candidates["client"][i]
    /\ streams["client"][i] = "Opening" => (candidates["client"][i] <=> ~Literal(i))

-----------------------------------------------------------------------------
(* The frames of a stream.                                                 *)

In(frames, t, i) == \E n \in 1 .. Len(frames) : frames[n] = Frame(t, i)

\* The request and the answer under way, if any, besides a CLOSE.
Asked(i, t) ==
    /\ In(toAgent, "RESOLVE", i) <=> t = "RESOLVE"
    /\ In(toAgent, "OPEN", i) <=> t = "OPEN"
Told(i, t) ==
    /\ In(toClient, "RESOLVE_OK", i) <=> t = "RESOLVE_OK"
    /\ In(toClient, "OPEN_OK", i) <=> t = "OPEN_OK"
    /\ In(toClient, "OPEN_ERROR", i) <=> t = "OPEN_ERROR"
Silent(i) ==
    /\ Asked(i, "none") /\ ~In(toAgent, "CLOSE", i)
    /\ Told(i, "none") /\ ~In(toClient, "CLOSE", i)

\* No frame twice, and nothing of a stream after its CLOSE.
Neat(frames) ==
    \A m, n \in 1 .. Len(frames) :
        /\ frames[m] = frames[n] => m = n
        /\ m < n /\ frames[m].type = "CLOSE" => frames[n].id # frames[m].id

Clean(e, i) == ~remoteClosed[e][i] /\ ~closeQueued[e][i] /\ events[e][i] = "none"

\* A worker that has queued CLOSE has told its driver so.
RecordSound(e, i) ==
    session[e] = "up" =>
        /\ events[e][i] # "Stopped"
        /\ streams[e][i] \in {"Resolving", "Resolved", "Opening"} => Clean(e, i)
        /\ streams[e][i] = "Open" =>
              /\ ~remoteClosed[e][i]
              /\ closeQueued[e][i] <=> events[e][i] = "LocalCloseQueued"
        /\ streams[e][i] = "Closing" => closeQueued["agent"][i] \/ e = "client"

\* The frame that introduces a stream to the agent.
Opens(frame) == frame.type = "RESOLVE" \/ (frame.type = "OPEN" /\ Literal(frame.id))

Unborn(i) ==
    /\ streams["client"][i] = "none" /\ streams["agent"][i] = "none"
    /\ Silent(i) /\ operations[i] = "none"
    /\ Clean("client", i) /\ Clean("agent", i) /\ Fresh(i)

\* IDs that no driver has seen, in the order in which they will reach the agent.
Ordered ==
    /\ \A m, n \in 1 .. Len(toAgent) :
          m < n /\ Opens(toAgent[m]) /\ Opens(toAgent[n]) => toAgent[m].id < toAgent[n].id
    /\ \A m, n \in 1 .. Len(commands) :
          m < n /\ Introduces(commands[m]) /\ Introduces(commands[n]) =>
              commands[m].id < commands[n].id
    /\ \A n \in 1 .. Len(commands) : Introduces(commands[n]) =>
          /\ Unborn(commands[n].id)
          /\ \A m \in 1 .. Len(toAgent) : Opens(toAgent[m]) => toAgent[m].id < commands[n].id
          /\ \A c \in Callers : pc[c] = "sending" => commands[n].id < id[c]
    /\ \A c \in Callers : pc[c] = "sending" =>
          /\ Unborn(id[c])
          /\ \A m \in 1 .. Len(toAgent) : Opens(toAgent[m]) => toAgent[m].id < id[c]
    /\ \A i \in Ids : i >= nextStreamId => Unborn(i)
    /\ \A m \in 1 .. Len(toAgent) : toAgent[m].id < nextStreamId
    /\ \A m \in 1 .. Len(toAgent) : Opens(toAgent[m]) => Fresh(toAgent[m].id)

\* What the agent can be sent.
AgentReady(i) ==
    /\ In(toAgent, "RESOLVE", i) =>
          streams["agent"][i] = "none" /\ ~In(toAgent, "OPEN", i) /\ ~Literal(i)
    /\ In(toAgent, "OPEN", i) =>
          streams["agent"][i] = IF Literal(i) THEN "none" ELSE "Resolved"
    /\ In(toAgent, "CLOSE", i) =>
          \/ ~Fresh(i)
          \/ In(toAgent, "RESOLVE", i)
          \/ In(toAgent, "OPEN", i) /\ Literal(i)
    /\ streams["agent"][i] # "none" => ~Fresh(i)
    /\ Fresh(i) => Clean("agent", i)
    /\ operations[i] = "resolve" => streams["agent"][i] \in {"Resolving", "Cancelled"}
    /\ operations[i] = "open" => streams["agent"][i] \in {"Opening", "Cancelled"}
    /\ streams["agent"][i] \in {"Resolving", "Opening"} => operations[i] # "none"
    /\ streams["agent"][i] = "Opening" => (candidates["agent"][i] <=> ~Literal(i))

\* What the client can be sent.
ClientReady(i) ==
    LET state == streams["client"][i]
    IN  /\ \E t \in {"none", "RESOLVE_OK", "OPEN_OK", "OPEN_ERROR"} : Told(i, t)
        /\ In(toClient, "RESOLVE_OK", i) => state \in {"Resolving", "Closing"}
        /\ In(toClient, "OPEN_OK", i) => state \in {"Opening", "Closing"}
        /\ In(toClient, "OPEN_ERROR", i) => state \in {"Resolving", "Opening", "Closing"}
        /\ In(toClient, "CLOSE", i) =>
              \/ state \in {"Open", "Closing"}
              \/ state = "Opening" /\ In(toClient, "OPEN_OK", i)

\* The states of both ends and what is under way, before the client closes.
Row(i, state, agent) ==
    \/ /\ ~In(toClient, "CLOSE", i)
       /\ \/ /\ state = "Resolving"
             /\ \/ agent = "none" /\ Asked(i, "RESOLVE") /\ Told(i, "none")
                \/ agent = "Resolving" /\ Asked(i, "none") /\ Told(i, "none")
                \/ agent = "Resolved" /\ Asked(i, "none") /\ Told(i, "RESOLVE_OK")
                \/ agent = "none" /\ Asked(i, "none") /\ Told(i, "OPEN_ERROR") /\ ~Fresh(i)
          \/ state = "Resolved" /\ agent = "Resolved" /\ Asked(i, "none") /\ Told(i, "none")
          \/ /\ state = "Opening" /\ agent = (IF Literal(i) THEN "none" ELSE "Resolved")
             /\ \/ Asked(i, "OPEN") /\ Told(i, "none")
                \/ Asked(i, "none") /\ Told(i, "OPEN_ERROR") /\ ~Fresh(i)
          \/ state = "Opening" /\ agent = "Opening" /\ Asked(i, "none") /\ Told(i, "none")
          \/ /\ state = "over" /\ agent = "none" /\ Asked(i, "none") /\ Told(i, "none")
             /\ ~Fresh(i)
    \/ /\ agent \in {"Open", "Closing"} /\ Asked(i, "none")
       /\ In(toClient, "CLOSE", i) <=> closeQueued["agent"][i]
       /\ \/ state = "Opening" /\ Told(i, "OPEN_OK")
          \/ state = "Open" /\ Told(i, "none")

Stages == {"Resolving", "Resolved", "Opening", "Open", "over"}

\* The two ends agree: each is where the other's frames will find it.
Agreed(i) ==
    LET client == streams["client"][i]
        agent == streams["agent"][i]
    IN  \/ /\ client \in {"Resolving", "Resolved", "Opening"} /\ ~In(toAgent, "CLOSE", i)
           /\ Row(i, client, agent)
        \/ /\ client = "Open" /\ (In(toAgent, "CLOSE", i) <=> closeQueued["client"][i])
           /\ Row(i, client, agent)
        \/ /\ client = "Open" /\ closeQueued["client"][i] /\ agent = "none"
           /\ Asked(i, "none") /\ ~In(toAgent, "CLOSE", i)
           /\ Told(i, "none") /\ In(toClient, "CLOSE", i)
        \/ /\ client = "Closing" /\ In(toAgent, "CLOSE", i)
           /\ \E stage \in Stages : Row(i, stage, agent)
        \/ /\ client = "Closing" /\ agent \in {"none", "Cancelled"}
           /\ Asked(i, "none") /\ ~In(toAgent, "CLOSE", i) /\ In(toClient, "CLOSE", i)
        \/ client = "none" /\ agent \in {"none", "Cancelled"} /\ Silent(i)
        \/ /\ client = "none" /\ agent \in {"Open", "Closing"} /\ closeQueued["agent"][i]
           /\ Asked(i, "none") /\ In(toAgent, "CLOSE", i)
           /\ Told(i, "none") /\ ~In(toClient, "CLOSE", i)

StreamSound(i) ==
    /\ EntrySound(i)
    /\ \A e \in Ends : RecordSound(e, i)
    /\ session["agent"] = "up" => AgentReady(i)
    /\ session["client"] = "up" => ClientReady(i)
    /\ session["client"] = "up" /\ session["agent"] = "up" => Agreed(i)

FramesNeat ==
    /\ session["agent"] = "up" => Neat(toAgent)
    /\ session["client"] = "up" => Neat(toClient)

CallersSound == \A c \in Callers : Waiting(c) /\ Permitted(c)

EndedEmpty ==
    session["client"] # "up" => commands = <<>> /\ \A i \in Ids : streams["client"][i] = "none"

\* The inductive invariant.
SessionInv ==
    /\ Types
    /\ IdsOwned /\ CommandsSound /\ AsksOnce /\ Len(commands) <= CommandCapacity
    /\ CallersSound
    /\ Ordered /\ FramesNeat
    /\ \A i \in Ids : StreamSound(i)
    /\ EndedEmpty /\ NoProtocolError
    /\ PermitsAccounted /\ StreamLimit

-----------------------------------------------------------------------------
(***************************************************************************)
(* IDs and their owners.                                                   *)
(***************************************************************************)
LEMMA IdsAreNumbers ==
  /\ Ids \subseteq Nat /\ 0 \notin Ids /\ 1 \in Ids
  /\ \A n \in Ids : n + 2 <= IdLimit => n + 2 \in Ids
  /\ IsFiniteSet(Ids)
<1>1. Ids \subseteq 1 .. IdLimit
  BY DEF Ids
<1>2. IsFiniteSet(1 .. IdLimit)
  BY FS_Interval
<1>3. IsFiniteSet(Ids)
  BY <1>1, <1>2, FS_Subset
<1>4. \A n \in Ids : n + 2 <= IdLimit => n + 2 \in Ids
  BY DEF Ids
<1> QED
  BY <1>1, <1>3, <1>4 DEF Ids

LEMMA OwnerIs ==
  ASSUME Types, IdsOwned, NEW c \in Callers, id[c] # 0
  PROVE  Owner(id[c]) = c
  BY DEF Owner, IdsOwned, Types

LEMMA OwnerOf ==
  ASSUME Types, IdsOwned, NEW i \in Ids, Owned(i)
  PROVE  Owner(i) \in Callers /\ id[Owner(i)] = i /\ \A c \in Callers : id[c] = i => c = Owner(i)
<1>1. PICK c \in Callers : id[c] = i
  BY DEF Owned
<1>2. i # 0
  BY IdsAreNumbers
<1>3. Owner(i) = c
  BY <1>1, <1>2, OwnerIs
<1> QED
  BY <1>1, <1>2, <1>3 DEF IdsOwned

-----------------------------------------------------------------------------
(***************************************************************************)
(* Queues and tables.                                                      *)
(***************************************************************************)
LEMMA Elements ==
  ASSUME NEW R, NEW s \in Seq(R)
  PROVE  Len(s) \in Nat /\ \A n \in 1 .. Len(s) : s[n] \in R
  OBVIOUS

LEMMA Appended ==
  ASSUME NEW R, NEW s \in Seq(R), NEW x \in R, NEW after, after = Append(s, x)
  PROVE  /\ after \in Seq(R) /\ Len(after) = Len(s) + 1 /\ Len(s) \in Nat
         /\ after[Len(s) + 1] = x
         /\ \A n \in 1 .. Len(s) : after[n] = s[n]
         /\ \A n \in 1 .. Len(after) : n \in 1 .. Len(s) \/ n = Len(s) + 1
  OBVIOUS

LEMMA Popped ==
  ASSUME NEW R, NEW s \in Seq(R), s # <<>>, NEW rest, rest = Tail(s)
  PROVE  /\ Len(s) \in Nat /\ Len(s) > 0 /\ Head(s) = s[1] /\ s[1] \in R
         /\ rest \in Seq(R) /\ Len(rest) = Len(s) - 1
         /\ \A n \in 1 .. Len(rest) : n + 1 \in 1 .. Len(s) /\ rest[n] = s[n + 1]
<1>1. Len(s) \in Nat /\ Len(s) > 0 /\ Head(s) = s[1]
  OBVIOUS
<1>2. rest \in Seq(R) /\ Len(rest) = Len(s) - 1
  BY <1>1
<1>3. \A n \in 1 .. Len(rest) : n + 1 \in 1 .. Len(s) /\ rest[n] = s[n + 1]
  BY <1>1, <1>2
<1>4. s[1] \in R
  BY <1>1, Elements
<1> QED
  BY <1>1, <1>2, <1>3, <1>4

\* One entry of a table kept by both ends.
LEMMA Put ==
  ASSUME NEW S, NEW f \in PerEnd(S), NEW e \in Ends, NEW i \in Ids, NEW x \in S,
         NEW g, g = [f EXCEPT ![e][i] = x]
  PROVE  /\ g \in PerEnd(S) /\ g[e][i] = x
         /\ \A d \in Ends, j \in Ids : d # e \/ j # i => g[d][j] = f[d][j]
  BY DEF PerEnd

LEMMA Raise ==
  ASSUME NEW f \in PerEnd(BOOLEAN), NEW e \in Ends, NEW i \in Ids,
         NEW g, g = [f EXCEPT ![e][i] = TRUE]
  PROVE  /\ g \in PerEnd(BOOLEAN) /\ g[e][i]
         /\ \A d \in Ends, j \in Ids : d # e \/ j # i => g[d][j] = f[d][j]
  BY DEF PerEnd

LEMMA TwoEnds == "client" \in Ends /\ "agent" \in Ends /\ \A e \in Ends : e = "client" \/ e = "agent"
  BY DEF Ends

-----------------------------------------------------------------------------
(***************************************************************************)
(* Queues of frames.                                                       *)
(***************************************************************************)
LEMMA InAppend ==
  ASSUME NEW S, NEW frames \in Seq(Frames(S)), NEW t \in S, NEW i \in Ids
  PROVE  /\ Append(frames, Frame(t, i)) \in Seq(Frames(S))
         /\ In(Append(frames, Frame(t, i)), t, i)
         /\ \A u, j : u # t \/ j # i =>
               (In(Append(frames, Frame(t, i)), u, j) <=> In(frames, u, j))
<1> DEFINE f == Frame(t, i)
           after == Append(frames, f)
<1>1. f \in Frames(S)
  BY DEF Frames, Frame
<1>2. /\ after \in Seq(Frames(S)) /\ Len(after) = Len(frames) + 1
      /\ Len(frames) \in Nat /\ after[Len(frames) + 1] = f
      /\ \A n \in 1 .. Len(frames) : after[n] = frames[n]
      /\ \A n \in 1 .. Len(after) : n \in 1 .. Len(frames) \/ n = Len(frames) + 1
  BY <1>1, Appended
<1>3. In(after, t, i)
  BY <1>2 DEF In
<1>4. \A u, j : f = Frame(u, j) => u = t /\ j = i
  BY DEF Frame
<1> HIDE DEF f, after
<1>5. ASSUME NEW u, NEW j, u # t \/ j # i PROVE In(after, u, j) <=> In(frames, u, j)
  <2>1. f # Frame(u, j)
    BY <1>4, <1>5
  <2> HIDE <1>4
  <2> QED  BY <1>2, <2>1 DEF In
<1> QED
  BY <1>2, <1>3, <1>5 DEF after, f

LEMMA NeatAppend ==
  ASSUME NEW S, NEW frames \in Seq(Frames(S)), NEW t \in S, NEW i \in Ids,
         Neat(frames), ~In(frames, t, i), ~In(frames, "CLOSE", i)
  PROVE  Neat(Append(frames, Frame(t, i)))
<1>1. \A n \in 1 .. Len(frames) :
         frames[n] = Frame(frames[n].type, frames[n].id)
  <2>1. \A n \in 1 .. Len(frames) : frames[n] \in Frames(S)
    BY Elements
  <2> QED  BY <2>1 DEF Frames, Frame
<1> DEFINE f == Frame(t, i)
           after == Append(frames, f)
<1>2. f \in Frames(S) /\ f.type = t /\ f.id = i
  BY DEF Frames, Frame
<1>3. /\ after \in Seq(Frames(S)) /\ Len(after) = Len(frames) + 1
      /\ Len(frames) \in Nat /\ after[Len(frames) + 1] = f
      /\ \A n \in 1 .. Len(frames) : after[n] = frames[n]
      /\ \A n \in 1 .. Len(after) : n \in 1 .. Len(frames) \/ n = Len(frames) + 1
  BY <1>2, Appended
<1>4. \A n \in 1 .. Len(frames) :
         frames[n] # f /\ (frames[n].type = "CLOSE" => frames[n].id # i)
  BY <1>1 DEF In
<1> HIDE DEF f, after
<1>5. ASSUME NEW m \in 1 .. Len(after), NEW n \in 1 .. Len(after)
      PROVE  /\ after[m] = after[n] => m = n
             /\ m < n /\ after[m].type = "CLOSE" => after[n].id # after[m].id
  <2>1. CASE m \in 1 .. Len(frames) /\ n \in 1 .. Len(frames)
    BY <1>3, <2>1 DEF Neat
  <2>2. CASE m \in 1 .. Len(frames) /\ n = Len(frames) + 1
    BY <1>2, <1>3, <1>4, <2>2
  <2>3. CASE m = Len(frames) + 1 /\ n \in 1 .. Len(frames)
    BY <1>2, <1>3, <1>4, <2>3
  <2>4. CASE m = Len(frames) + 1 /\ n = Len(frames) + 1
    BY <1>3, <2>4
  <2> QED  BY <1>3, <2>1, <2>2, <2>3, <2>4
<1>6. Neat(after)
  BY <1>5 DEF Neat
<1> QED
  BY <1>6 DEF after, f

LEMMA NeatTail ==
  ASSUME NEW S, NEW frames \in Seq(Frames(S)), Neat(frames), frames # <<>>,
         NEW t \in S, NEW i \in Ids, Head(frames) = Frame(t, i)
  PROVE  /\ Tail(frames) \in Seq(Frames(S)) /\ Neat(Tail(frames))
         /\ In(frames, t, i) /\ ~In(Tail(frames), t, i)
         /\ \A u, j : u # t \/ j # i => (In(Tail(frames), u, j) <=> In(frames, u, j))
         /\ t = "CLOSE" => \A u : In(frames, u, i) => u = "CLOSE"
<1> DEFINE rest == Tail(frames)
<1>1. /\ Len(frames) \in Nat /\ Len(frames) > 0 /\ frames[1] = Frame(t, i)
      /\ rest \in Seq(Frames(S)) /\ Len(rest) = Len(frames) - 1
      /\ \A n \in 1 .. Len(rest) : n + 1 \in 1 .. Len(frames) /\ rest[n] = frames[n + 1]
  BY Popped
<1> HIDE DEF rest
<1>2. 1 \in 1 .. Len(frames) /\ In(frames, t, i)
  BY <1>1 DEF In
<1>3. ASSUME NEW m \in 1 .. Len(rest), NEW n \in 1 .. Len(rest)
      PROVE  /\ rest[m] = rest[n] => m = n
             /\ m < n /\ rest[m].type = "CLOSE" => rest[n].id # rest[m].id
  <2>1. /\ m + 1 \in 1 .. Len(frames) /\ n + 1 \in 1 .. Len(frames)
        /\ rest[m] = frames[m + 1] /\ rest[n] = frames[n + 1]
    BY <1>1
  <2>2. /\ frames[m + 1] = frames[n + 1] => m + 1 = n + 1
        /\ m + 1 < n + 1 /\ frames[m + 1].type = "CLOSE" => frames[n + 1].id # frames[m + 1].id
    BY <2>1 DEF Neat
  <2>3. m \in Int /\ n \in Int
    OBVIOUS
  <2> QED  BY <2>1, <2>2, <2>3
<1>4. Neat(rest)
  BY <1>3 DEF Neat
<1>5. ~In(rest, t, i)
  <2> SUFFICES ASSUME NEW n \in 1 .. Len(rest), rest[n] = Frame(t, i) PROVE FALSE
    BY DEF In
  <2>1. n + 1 \in 1 .. Len(frames) /\ frames[n + 1] = frames[1]
    BY <1>1
  <2>2. n + 1 = 1
    BY <1>2, <2>1 DEF Neat
  <2> QED  BY <2>2
<1>6. ASSUME NEW u, NEW j, u # t \/ j # i PROVE In(rest, u, j) <=> In(frames, u, j)
  <2>1. ASSUME In(rest, u, j) PROVE In(frames, u, j)
    BY <1>1, <2>1 DEF In
  <2>2. ASSUME In(frames, u, j) PROVE In(rest, u, j)
    <3>1. PICK n \in 1 .. Len(frames) : frames[n] = Frame(u, j)
      BY <2>2 DEF In
    <3>2. Frame(u, j) # Frame(t, i)
      BY <1>6 DEF Frame
    <3>3. n # 1
      BY <1>1, <3>1, <3>2
    <3>4. n - 1 \in 1 .. Len(rest) /\ rest[n - 1] = frames[n]
      <4>1. n - 1 \in 1 .. Len(rest)
        BY <1>1, <3>3
      <4>2. rest[n - 1] = frames[(n - 1) + 1] /\ (n - 1) + 1 = n
        BY <1>1, <4>1
      <4> QED  BY <4>1, <4>2
    <3> QED  BY <3>1, <3>4 DEF In
  <2> QED  BY <2>1, <2>2
<1>7. ASSUME t = "CLOSE", NEW u, In(frames, u, i) PROVE u = "CLOSE"
  <2>1. PICK n \in 1 .. Len(frames) : frames[n] = Frame(u, i)
    BY <1>7 DEF In
  <2>2. n > 1 => frames[n].id # frames[1].id
    BY <1>1, <1>2, <1>7 DEF Neat, Frame
  <2>3. frames[n].id = i /\ frames[1].id = i
    BY <1>1, <2>1 DEF Frame
  <2>4. n = 1
    BY <2>2, <2>3
  <2>5. Frame(u, i).type = Frame(t, i).type
    BY <1>1, <2>1, <2>4
  <2> QED  BY <1>7, <2>5 DEF Frame
<1> QED
  BY <1>1, <1>2, <1>4, <1>5, <1>6, <1>7 DEF rest

-----------------------------------------------------------------------------
(***************************************************************************)
(* Type correctness, action by action.                                     *)
(***************************************************************************)
LEMMA Counts == \A flag : Count(flag) \in Nat
  BY DEF Count

LEMMA AnswerTypes ==
  ASSUME Types, NEW i, NEW kind \in {"ok", "remote", "error"}, NEW p \in BOOLEAN,
         Answer(i, kind, p)
  PROVE  reply' \in [Callers -> Replies]
<1>1. reply \in [Callers -> Replies]
  BY DEF Types
<1>2. [kind |-> kind, permit |-> p] \in Replies
  BY DEF Replies
<1> QED
  BY <1>1, <1>2 DEF Answer

LEMMA CloseTypes ==
  ASSUME Types, NEW i \in Ids, CloseBestEffort(i)
  PROVE  /\ commands' \in Seq(Commands) /\ shutdown' \in BOOLEAN
         /\ Len(commands) <= CommandCapacity => Len(commands') <= CommandCapacity
<1>1. commands \in Seq(Commands) /\ shutdown \in BOOLEAN /\ Len(commands) \in Nat
  BY DEF Types
<1>2. [type |-> "Close", id |-> i, permit |-> FALSE] \in Commands
  BY DEF Commands, CommandTypes
<1>3. CASE UNCHANGED commands /\ shutdown' \in BOOLEAN
  BY <1>1, <1>3
<1>4. CASE /\ commands' = Append(commands, [type |-> "Close", id |-> i, permit |-> FALSE])
           /\ Len(commands) < CommandCapacity /\ UNCHANGED shutdown
  BY <1>1, <1>2, <1>4, Appended
<1> QED
  BY <1>1, <1>3, <1>4 DEF CloseBestEffort

LEMMA ForgetTypes ==
  ASSUME Types, NEW c \in Callers, Forget(c), pc[c] = "opening" => id[c] # 0
  PROVE  /\ pc' \in [Callers -> Places] /\ holdsSlot' \in [Callers -> BOOLEAN]
         /\ reply' \in [Callers -> Replies] /\ slots' \in Nat /\ dropped' \in PerEnd(BOOLEAN)
<1>1. /\ pc \in [Callers -> Places] /\ holdsSlot \in [Callers -> BOOLEAN] /\ slots \in Nat
      /\ reply \in [Callers -> Replies] /\ dropped \in PerEnd(BOOLEAN)
      /\ id \in [Callers -> Ids \cup {0}]
  BY DEF Types
<1>2. "done" \in Places /\ NoReply \in Replies
  BY DEF Places, NoReply, Replies
<1>3. pc' \in [Callers -> Places]
  BY <1>1, <1>2 DEF Forget
<1>4. holdsSlot' \in [Callers -> BOOLEAN]
  BY <1>1 DEF Forget
<1>5. reply' \in [Callers -> Replies]
  BY <1>1, <1>2 DEF Forget
<1>6. slots' \in Nat
  <2>1. Count(holdsSlot[c]) \in Nat /\ Count(reply[c].permit) \in Nat
    BY Counts
  <2>2. slots' = slots + Count(holdsSlot[c]) + Count(reply[c].permit)
    BY DEF Forget
  <2> QED  BY <1>1, <2>1, <2>2
<1>7. dropped' \in PerEnd(BOOLEAN)
  <2>1. CASE dropped' = dropped
    BY <1>1, <2>1
  <2>2. CASE pc[c] = "opening" /\ dropped' = [dropped EXCEPT !["client"][id[c]] = TRUE]
    <3>1. id[c] \in Ids
      BY <1>1, <2>2
    <3>2. "client" \in Ends
      BY TwoEnds
    <3> QED  BY <1>1, <2>2, <3>1, <3>2 DEF PerEnd
  <2> QED  BY <2>1, <2>2 DEF Forget
<1> QED
  BY <1>3, <1>4, <1>5, <1>6, <1>7

\* What only the callers' actions change, and what they leave alone.
DriverSide == <<session, streams, candidates, permit, agentVars, remoteClosed, closeQueued,
                events, toAgent, toClient>>
CallerSide == <<pc, id, holdsSlot, opens, nextStreamId, shutdown>>

LEMMA CallerTypes ==
  ASSUME Types, UNCHANGED DriverSide,
         pc' \in [Callers -> Places], id' \in [Callers -> Ids \cup {0}],
         holdsSlot' \in [Callers -> BOOLEAN], reply' \in [Callers -> Replies],
         slots' \in Nat, nextStreamId' \in Ids, shutdown' \in BOOLEAN,
         commands' \in Seq(Commands), dropped' \in PerEnd(BOOLEAN)
  PROVE  Types'
  BY DEF Types, DriverSide, agentVars

LEMMA DriverTypes ==
  ASSUME Types, UNCHANGED CallerSide,
         reply' \in [Callers -> Replies], slots' \in Nat, commands' \in Seq(Commands),
         session' \in [Ends -> {"up", "protocolError", "ended"}],
         streams' \in PerEnd(States), candidates' \in PerEnd(BOOLEAN),
         permit' \in [Ids -> BOOLEAN], highestStreamId' \in Ids \cup {0},
         operations' \in [Ids -> {"none", "resolve", "open"}], relays' \in SUBSET Ids,
         dropped' \in PerEnd(BOOLEAN), remoteClosed' \in PerEnd(BOOLEAN),
         closeQueued' \in PerEnd(BOOLEAN),
         events' \in PerEnd({"none", "Stopped", "LocalCloseQueued"}),
         toAgent' \in Seq(Frames(Requests)),
         toClient' \in Seq(Frames(Replied))
  PROVE  Types'
  BY DEF Types, CallerSide

-----------------------------------------------------------------------------
(***************************************************************************)
(* What a step leaves as it was for a stream.                              *)
(***************************************************************************)
SameRecord(e, j) ==
    /\ streams'[e][j] = streams[e][j] /\ candidates'[e][j] = candidates[e][j]
    /\ remoteClosed'[e][j] = remoteClosed[e][j] /\ closeQueued'[e][j] = closeQueued[e][j]
    /\ events'[e][j] = events[e][j]
SameClient(j) == SameRecord("client", j) /\ permit'[j] = permit[j]
SameAgent(j) ==
    SameRecord("agent", j) /\ operations'[j] = operations[j] /\ (Fresh(j)' => Fresh(j))
SameSent(j) == \A t : In(toAgent', t, j) <=> In(toAgent, t, j)
SameTold(j) == \A t : In(toClient', t, j) <=> In(toClient, t, j)
Same(j) == SameClient(j) /\ SameAgent(j) /\ SameSent(j) /\ SameTold(j)

LEMMA SameOwner ==
  ASSUME id' = id, NEW j
  PROVE  (Literal(j)' <=> Literal(j)) /\ (Owned(j)' <=> Owned(j))
  BY DEF Literal, Owned

LEMMA StillSound ==
  ASSUME NEW j \in Ids, StreamSound(j), Same(j), session' = session,
         Literal(j)' <=> Literal(j), Owned(j) => Owned(j)'
  PROVE  StreamSound(j)'
<1>1. (Literal(j)' <=> Literal(j)) /\ (Owned(j) => Owned(j)')
  OBVIOUS
<1>2. EntrySound(j)'
  BY <1>1 DEF StreamSound, EntrySound, Same, SameClient, SameRecord
<1>3. ASSUME NEW e \in Ends PROVE RecordSound(e, j)'
  <2>1. SameRecord(e, j) /\ closeQueued'["agent"][j] = closeQueued["agent"][j]
    BY TwoEnds DEF Same, SameClient, SameAgent, SameRecord
  <2> QED  BY <2>1 DEF StreamSound, RecordSound, SameRecord, Clean
<1>4. session'["agent"] = "up" => AgentReady(j)'
  BY <1>1 DEF StreamSound, AgentReady, Same, SameAgent, SameRecord, SameSent, Clean
<1>5. session'["client"] = "up" => ClientReady(j)'
  BY <1>1 DEF StreamSound, ClientReady, Same, SameClient, SameRecord, SameTold, Told
<1>6. session'["client"] = "up" /\ session'["agent"] = "up" => Agreed(j)'
  BY <1>1 DEF StreamSound, Agreed, Row, Asked, Told, Silent, Same, SameClient, SameAgent,
              SameRecord, SameSent, SameTold
<1> QED
  BY <1>2, <1>3, <1>4, <1>5, <1>6 DEF StreamSound

LEMMA Untouched ==
  ASSUME NEW j \in Ids, StreamSound(j), Same(j), id' = id, session' = session
  PROVE  StreamSound(j)'
  BY SameOwner, StillSound

-----------------------------------------------------------------------------
(***************************************************************************)
(* What a frame that is queued or handled changes.                         *)
(***************************************************************************)
Sends(t, i) ==
    /\ toAgent' \in Seq(Frames(Requests))
    /\ In(toAgent', t, i) /\ \A u : u # t => (In(toAgent', u, i) <=> In(toAgent, u, i))
    /\ \A j \in Ids \ {i} : SameSent(j)
    /\ Neat(toAgent) /\ ~In(toAgent, t, i) /\ ~In(toAgent, "CLOSE", i) => Neat(toAgent')
Answers(t, i) ==
    /\ toClient' \in Seq(Frames(Replied))
    /\ In(toClient', t, i) /\ \A u : u # t => (In(toClient', u, i) <=> In(toClient, u, i))
    /\ \A j \in Ids \ {i} : SameTold(j)
    /\ Neat(toClient) /\ ~In(toClient, t, i) /\ ~In(toClient, "CLOSE", i) => Neat(toClient')
AgentTakes(t, i) ==
    /\ toAgent # <<>> /\ toAgent' = Tail(toAgent) /\ Head(toAgent) = Frame(t, i)
    /\ toAgent' \in Seq(Frames(Requests)) /\ Neat(toAgent')
    /\ In(toAgent, t, i) /\ ~In(toAgent', t, i)
    /\ \A u : u # t => (In(toAgent', u, i) <=> In(toAgent, u, i))
    /\ t = "CLOSE" => Asked(i, "none")
    /\ \A j \in Ids \ {i} : SameSent(j)
ClientTakes(t, i) ==
    /\ toClient # <<>> /\ toClient' = Tail(toClient) /\ Head(toClient) = Frame(t, i)
    /\ toClient' \in Seq(Frames(Replied)) /\ Neat(toClient')
    /\ In(toClient, t, i) /\ ~In(toClient', t, i)
    /\ \A u : u # t => (In(toClient', u, i) <=> In(toClient, u, i))
    /\ t = "CLOSE" => Told(i, "none")
    /\ \A j \in Ids \ {i} : SameTold(j)

LEMMA Sending ==
  ASSUME Types, NEW t \in Requests, NEW i \in Ids, ToAgent(t, i)
  PROVE  Sends(t, i)
<1>1. toAgent \in Seq(Frames(Requests))
  BY DEF Types
<1>2. toAgent' = Append(toAgent, Frame(t, i))
  BY DEF ToAgent, Frame
<1>3. /\ toAgent' \in Seq(Frames(Requests))
      /\ In(toAgent', t, i)
      /\ \A u, j : u # t \/ j # i => (In(toAgent', u, j) <=> In(toAgent, u, j))
  BY <1>1, <1>2, InAppend
<1>4. Neat(toAgent) /\ ~In(toAgent, t, i) /\ ~In(toAgent, "CLOSE", i) => Neat(toAgent')
  BY <1>1, <1>2, NeatAppend
<1> QED
  BY <1>3, <1>4 DEF Sends, SameSent

LEMMA Answering ==
  ASSUME Types, NEW t \in Replied, NEW i \in Ids, ToClient(t, i)
  PROVE  Answers(t, i)
<1>1. toClient \in Seq(Frames(Replied))
  BY DEF Types
<1>2. toClient' = Append(toClient, Frame(t, i))
  BY DEF ToClient, Frame
<1>3. /\ toClient' \in Seq(Frames(Replied))
      /\ In(toClient', t, i)
      /\ \A u, j : u # t \/ j # i => (In(toClient', u, j) <=> In(toClient, u, j))
  BY <1>1, <1>2, InAppend
<1>4. Neat(toClient) /\ ~In(toClient, t, i) /\ ~In(toClient, "CLOSE", i) => Neat(toClient')
  BY <1>1, <1>2, NeatAppend
<1> QED
  BY <1>3, <1>4 DEF Answers, SameTold

LEMMA HeadFrame ==
  ASSUME NEW S, NEW frames \in Seq(Frames(S)), frames # <<>>
  PROVE  \E i \in Ids : Head(frames) = Frame(Head(frames).type, i)
                        /\ Head(frames).id = i /\ Head(frames).type \in S
<1>1. Head(frames) = frames[1] /\ 1 \in 1 .. Len(frames)
  OBVIOUS
<1>2. frames[1] \in Frames(S)
  BY <1>1, Elements
<1> QED
  BY <1>1, <1>2 DEF Frames, Frame

LEMMA AgentTaking ==
  ASSUME Types, FramesNeat, NEW t, AgentReceives(t)
  PROVE  \E i \in Ids : Head(toAgent).id = i /\ AgentTakes(t, i)
<1>1. /\ toAgent \in Seq(Frames(Requests)) /\ Neat(toAgent)
      /\ toAgent # <<>> /\ Head(toAgent).type = t /\ toAgent' = Tail(toAgent)
  BY DEF Types, FramesNeat, AgentReceives
<1>2. PICK i \in Ids : Head(toAgent) = Frame(t, i) /\ Head(toAgent).id = i
                       /\ t \in Requests
  BY <1>1, HeadFrame
<1>3. /\ toAgent' \in Seq(Frames(Requests)) /\ Neat(toAgent')
      /\ In(toAgent, t, i) /\ ~In(toAgent', t, i)
      /\ \A u, j : u # t \/ j # i => (In(toAgent', u, j) <=> In(toAgent, u, j))
      /\ t = "CLOSE" => \A u : In(toAgent, u, i) => u = "CLOSE"
  BY <1>1, <1>2, NeatTail
<1>4. t = "CLOSE" => Asked(i, "none")
  BY <1>3 DEF Asked
<1>5. \A j \in Ids \ {i} : SameSent(j)
  BY <1>3 DEF SameSent
<1> QED
  BY <1>1, <1>2, <1>3, <1>4, <1>5 DEF AgentTakes

LEMMA ClientTaking ==
  ASSUME Types, FramesNeat, NEW t, ClientReceives(t)
  PROVE  \E i \in Ids : Head(toClient).id = i /\ ClientTakes(t, i)
<1>1. /\ toClient \in Seq(Frames(Replied)) /\ Neat(toClient)
      /\ toClient # <<>> /\ Head(toClient).type = t /\ toClient' = Tail(toClient)
  BY DEF Types, FramesNeat, ClientReceives
<1>2. PICK i \in Ids : Head(toClient) = Frame(t, i) /\ Head(toClient).id = i
                       /\ t \in Replied
  BY <1>1, HeadFrame
<1>3. /\ toClient' \in Seq(Frames(Replied)) /\ Neat(toClient')
      /\ In(toClient, t, i) /\ ~In(toClient', t, i)
      /\ \A u, j : u # t \/ j # i => (In(toClient', u, j) <=> In(toClient, u, j))
      /\ t = "CLOSE" => \A u : In(toClient, u, i) => u = "CLOSE"
  BY <1>1, <1>2, NeatTail
<1>4. t = "CLOSE" => Told(i, "none")
  BY <1>3 DEF Told
<1>5. \A j \in Ids \ {i} : SameTold(j)
  BY <1>3 DEF SameTold
<1> QED
  BY <1>1, <1>2, <1>3, <1>4, <1>5 DEF ClientTakes

LEMMA Becoming ==
  ASSUME Types, NEW e \in Ends, NEW i \in Ids, NEW state \in States, Become(e, i, state)
  PROVE  /\ streams' \in PerEnd(States) /\ streams'[e][i] = state
         /\ \A d \in Ends, j \in Ids : d # e \/ j # i => streams'[d][j] = streams[d][j]
<1>1. streams \in PerEnd(States)
  BY DEF Types
<1> QED
  BY <1>1 DEF Become, PerEnd

-----------------------------------------------------------------------------
(***************************************************************************)
(* Counting.                                                               *)
(***************************************************************************)
LEMMA OneDiffers ==
  ASSUME NEW S, IsFiniteSet(S), NEW A \in SUBSET S, NEW B \in SUBSET S, NEW x,
         \A y : y # x => (y \in A <=> y \in B)
  PROVE  /\ Cardinality(A) \in Nat /\ Cardinality(B) \in Nat
         /\ Cardinality(A) + Count(x \in B) = Cardinality(B) + Count(x \in A)
<1>1. /\ IsFiniteSet(A) /\ IsFiniteSet(B)
      /\ Cardinality(A) \in Nat /\ Cardinality(B) \in Nat
  BY FS_Subset, FS_CardinalityType
<1>2. CASE x \in A <=> x \in B
  <2>1. A = B
    BY <1>2
  <2>2. Count(x \in A) \in Nat
    BY Counts
  <2> QED  BY <1>1, <2>1, <2>2
<1>3. CASE x \in A /\ x \notin B
  <2>1. B = A \ {x}
    BY <1>3
  <2>2. Cardinality(B) = Cardinality(A) - 1
    BY <1>1, <1>3, <2>1, FS_RemoveElement
  <2>3. Count(x \in A) = 1 /\ Count(x \in B) = 0
    BY <1>3 DEF Count
  <2> QED  BY <1>1, <2>2, <2>3
<1>4. CASE x \notin A /\ x \in B
  <2>1. A = B \ {x}
    BY <1>4
  <2>2. Cardinality(A) = Cardinality(B) - 1
    BY <1>1, <1>4, <2>1, FS_RemoveElement
  <2>3. Count(x \in A) = 0 /\ Count(x \in B) = 1
    BY <1>4 DEF Count
  <2> QED  BY <1>1, <2>2, <2>3
<1> QED
  BY <1>2, <1>3, <1>4

-----------------------------------------------------------------------------
(***************************************************************************)
(* The agent's steps.  They change nothing of the callers and nothing of   *)
(* the client's entries.                                                   *)
(***************************************************************************)
LEMMA AgentStep ==
  ASSUME SessionInv, Types', FramesNeat', Ordered', StreamLimit',
         \A j \in Ids : StreamSound(j)',
         UNCHANGED <<pc, id, holdsSlot, reply, slots, nextStreamId, commands, permit>>,
         session'["client"] = session["client"], NoProtocolError',
         \A j \in Ids : streams'["client"][j] = streams["client"][j]
  PROVE  SessionInv'
<1>1. IdsOwned' /\ CommandsSound' /\ AsksOnce'
  BY DEF SessionInv, IdsOwned, CommandsSound, AsksOnce, Owned, Literal
<1>2. Len(commands') <= CommandCapacity /\ EndedEmpty'
  BY DEF SessionInv, EndedEmpty
<1>3. ASSUME NEW c \in Callers PROVE Waiting(c)' /\ Permitted(c)'
  <2>1. Permitted(c) /\ Waiting(c)
    BY DEF SessionInv, CallersSound
  <2>2. Permitted(c)'
    BY <2>1 DEF Permitted
  <2>3. id[c] \in Ids \cup {0} /\ \A n \in 1 .. Len(commands) : commands[n].id \in Ids
    <3>1. commands \in Seq(Commands) /\ id \in [Callers -> Ids \cup {0}]
      BY DEF SessionInv, Types
    <3>2. \A n \in 1 .. Len(commands) : commands[n] \in Commands
      BY <3>1, Elements
    <3> QED  BY <3>1, <3>2 DEF Commands
  <2>4. Waiting(c)'
    BY <2>1, <2>3 DEF Waiting, Awaits
  <2> QED  BY <2>2, <2>4
<1>4. CallersSound'
  BY <1>3 DEF CallersSound
<1>5. PermitsAccounted'
  BY DEF SessionInv, PermitsAccounted, Permits, ReplyPermits, CommandPermits, EntryPermits
<1> QED
  BY <1>1, <1>2, <1>4, <1>5 DEF SessionInv

LEMMA StaysUnborn ==
  ASSUME NEW j \in Ids, Unborn(j), Same(j), Fresh(j)'
  PROVE  Unborn(j)'
  BY DEF Unborn, Same, SameClient, SameAgent, SameRecord, SameSent, SameTold, Clean, Silent,
         Asked, Told

LEMMA AgentOrdered ==
  ASSUME SessionInv, UNCHANGED <<pc, id, commands, nextStreamId>>,
         \A j \in Ids : Unborn(j) /\ Fresh(j)' => Unborn(j)',
         \/ toAgent' = toAgent /\ highestStreamId' = highestStreamId
         \/ /\ toAgent # <<>> /\ toAgent' = Tail(toAgent)
            /\ \/ highestStreamId' = highestStreamId
               \/ Opens(Head(toAgent)) /\ highestStreamId' = Head(toAgent).id
  PROVE  Ordered'
<1>1. /\ toAgent \in Seq(Frames(Requests)) /\ commands \in Seq(Commands)
      /\ nextStreamId \in Ids /\ id \in [Callers -> Ids \cup {0}] /\ Ordered /\ IdsOwned
  BY DEF SessionInv, Types
<1>2. /\ \A n \in 1 .. Len(commands) : commands[n].id \in Ids
      /\ \A n \in 1 .. Len(toAgent) : toAgent[n].id \in Ids
      /\ \A c \in Callers : pc[c] = "sending" => id[c] \in Ids
  <2>1. \A n \in 1 .. Len(commands) : commands[n] \in Commands
    BY <1>1, Elements
  <2>2. \A n \in 1 .. Len(toAgent) : toAgent[n] \in Frames(Requests)
    BY <1>1, Elements
  <2> QED  BY <1>1, <2>1, <2>2 DEF Commands, Frames, IdsOwned
<1>3. \A frame : Opens(frame)' <=> Opens(frame)
  BY DEF Opens, Literal
<1>4. ASSUME NEW m \in 1 .. Len(toAgent')
      PROVE  \E k \in 1 .. Len(toAgent) :
                /\ toAgent'[m] = toAgent[k]
                /\ \A n \in 1 .. Len(toAgent') : m < n => \E l \in 1 .. Len(toAgent) :
                      toAgent'[n] = toAgent[l] /\ k < l
                /\ toAgent' # toAgent => 1 < k
  <2>1. CASE toAgent' = toAgent
    BY <2>1
  <2>2. CASE toAgent # <<>> /\ toAgent' = Tail(toAgent)
    <3>1. /\ Len(toAgent) \in Nat /\ Len(toAgent') = Len(toAgent) - 1
          /\ \A n \in 1 .. Len(toAgent') :
                n + 1 \in 1 .. Len(toAgent) /\ toAgent'[n] = toAgent[n + 1]
      BY <1>1, <2>2, Popped
    <3>2. m \in Nat /\ 1 < m + 1 /\ \A n \in 1 .. Len(toAgent') : m < n => m + 1 < n + 1
      BY <3>1
    <3> QED  BY <3>1, <3>2
  <2> QED  BY <2>1, <2>2
<1>5. CASE highestStreamId' = highestStreamId
  <2>1. \A x : Fresh(x)' <=> Fresh(x)
    BY <1>5 DEF Fresh
  <2>2. \A j \in Ids : Unborn(j) => Unborn(j)'
    BY <2>1 DEF Unborn
  <2> QED  BY ZenonT(40), <1>1, <1>2, <1>3, <1>4, <2>1, <2>2 DEF Ordered
<1>6. CASE /\ toAgent # <<>> /\ toAgent' = Tail(toAgent)
           /\ Opens(Head(toAgent)) /\ highestStreamId' = Head(toAgent).id
  <2>1. Head(toAgent) = toAgent[1] /\ 1 \in 1 .. Len(toAgent) /\ toAgent' # toAgent
    <3>1. /\ Len(toAgent) \in Nat /\ Len(toAgent) > 0 /\ Head(toAgent) = toAgent[1]
          /\ Len(toAgent') = Len(toAgent) - 1
      BY <1>1, <1>6, Popped
    <3> QED  BY <3>1
  <2>2. \A x : Fresh(x)' <=> x > toAgent[1].id
    BY <1>6, <2>1 DEF Fresh
  <2>3. \A n \in 1 .. Len(commands) : Introduces(commands[n]) => Unborn(commands[n].id)'
    <3> SUFFICES ASSUME NEW n \in 1 .. Len(commands), Introduces(commands[n])
                 PROVE  Unborn(commands[n].id)'
      OBVIOUS
    <3>1. toAgent[1].id < commands[n].id /\ Unborn(commands[n].id)
      BY <1>1, <1>6, <2>1 DEF Ordered
    <3>2. Fresh(commands[n].id)'
      BY <2>2, <3>1, <1>2, <2>1, IdsAreNumbers
    <3> QED  BY <1>2, <3>1, <3>2
  <2>4. \A c \in Callers : pc[c] = "sending" => Unborn(id[c])'
    <3> SUFFICES ASSUME NEW c \in Callers, pc[c] = "sending" PROVE Unborn(id[c])'
      OBVIOUS
    <3>1. toAgent[1].id < id[c] /\ Unborn(id[c])
      BY <1>1, <1>6, <2>1 DEF Ordered
    <3>2. Fresh(id[c])'
      BY <2>2, <3>1, <1>2, <2>1, IdsAreNumbers
    <3> QED  BY <1>2, <3>1, <3>2
  <2>5. \A i \in Ids : i >= nextStreamId => Unborn(i)'
    <3> SUFFICES ASSUME NEW i \in Ids, i >= nextStreamId PROVE Unborn(i)'
      OBVIOUS
    <3>1. toAgent[1].id < nextStreamId /\ Unborn(i)
      BY <1>1, <2>1 DEF Ordered
    <3>2. i \in Nat /\ nextStreamId \in Nat /\ toAgent[1].id \in Nat
      BY <1>1, <1>2, <2>1, IdsAreNumbers
    <3>3. i > toAgent[1].id
      BY <3>1, <3>2
    <3>4. Fresh(i)'
      BY <2>2, <3>3
    <3> QED  BY <3>1, <3>4
  <2>6. \A m \in 1 .. Len(toAgent') : Opens(toAgent'[m]) => toAgent'[m].id > toAgent[1].id
    <3> SUFFICES ASSUME NEW m \in 1 .. Len(toAgent'), Opens(toAgent'[m])
                 PROVE  toAgent'[m].id > toAgent[1].id
      OBVIOUS
    <3>1. PICK k \in 1 .. Len(toAgent) : toAgent'[m] = toAgent[k] /\ 1 < k
      BY <1>4, <2>1
    <3>2. toAgent[1].id < toAgent[k].id
      BY <1>1, <1>6, <2>1, <3>1 DEF Ordered
    <3> QED  BY <1>2, <2>1, <3>1, <3>2, IdsAreNumbers
  <2>7. \A m \in 1 .. Len(toAgent') : Opens(toAgent[m])' => Fresh(toAgent[m].id)'
    BY <1>3, <2>2, <2>6
  <2> QED  BY ZenonT(40), <1>1, <1>3, <1>4, <2>3, <2>4, <2>5, <2>7 DEF Ordered
<1> QED
  BY <1>5, <1>6

\* A step of the agent that is about stream i.
OnlyAgent(i) ==
    /\ UNCHANGED <<pc, id, holdsSlot, reply, slots, nextStreamId, commands, permit, session>>
    /\ \A d \in Ends, j \in Ids : d # "agent" \/ j # i => SameRecord(d, j)
    /\ \A j \in Ids \ {i} : operations'[j] = operations[j] /\ SameSent(j) /\ SameTold(j)

\* The ID of a frame that introduces a stream is registered.
Registers ==
    \/ toAgent' = toAgent /\ highestStreamId' = highestStreamId
    \/ /\ toAgent # <<>> /\ toAgent' = Tail(toAgent)
       /\ \/ highestStreamId' = highestStreamId
          \/ /\ Opens(Head(toAgent)) /\ Fresh(Head(toAgent).id)
             /\ highestStreamId' = Head(toAgent).id

LEMMA FreshShrinks ==
  ASSUME Types, Registers, NEW j \in Ids, Fresh(j)'
  PROVE  Fresh(j)
<1>1. CASE highestStreamId' = highestStreamId
  BY <1>1 DEF Fresh
<1>2. CASE toAgent # <<>> /\ Fresh(Head(toAgent).id) /\ highestStreamId' = Head(toAgent).id
  <2>1. /\ highestStreamId \in Nat /\ j \in Nat /\ highestStreamId' \in Nat
    <3>1. PICK i \in Ids : Head(toAgent).id = i
      BY <1>2, HeadFrame DEF Types
    <3> QED  BY <1>2, <3>1, IdsAreNumbers DEF Types
  <2>2. highestStreamId' > highestStreamId
    BY <1>2 DEF Fresh
  <2> QED  BY <2>1, <2>2 DEF Fresh
<1> QED
  BY <1>1, <1>2 DEF Registers

LEMMA AgentFrame ==
  ASSUME SessionInv, Types', NEW i \in Ids, OnlyAgent(i), Registers, ~Unborn(i) \/ Same(i),
         StreamSound(i)', FramesNeat', StreamLimit'
  PROVE  SessionInv'
<1>1. ASSUME NEW j \in Ids \ {i} PROVE Same(j)
  <2>1. Fresh(j)' => Fresh(j)
    BY FreshShrinks DEF SessionInv
  <2>2. SameRecord("client", j) /\ SameRecord("agent", j) /\ permit' = permit
    BY TwoEnds DEF OnlyAgent
  <2>3. operations'[j] = operations[j] /\ SameSent(j) /\ SameTold(j)
    BY DEF OnlyAgent
  <2> QED  BY <2>1, <2>2, <2>3 DEF Same, SameClient, SameAgent
<1>2. \A j \in Ids : StreamSound(j)'
  <2> SUFFICES ASSUME NEW j \in Ids \ {i} PROVE StreamSound(j)'
    OBVIOUS
  <2>1. Same(j) /\ StreamSound(j) /\ id' = id /\ session' = session
    BY <1>1 DEF SessionInv, OnlyAgent
  <2> QED  BY <2>1, Untouched
<1>3. \A j \in Ids : Unborn(j) /\ Fresh(j)' => Unborn(j)'
  BY <1>1, StaysUnborn
<1>4. Ordered'
  BY <1>3, AgentOrdered DEF OnlyAgent, Registers
<1>5. \A j \in Ids : streams'["client"][j] = streams["client"][j]
  BY TwoEnds DEF OnlyAgent, SameRecord
<1>6. session'["client"] = session["client"] /\ NoProtocolError'
  BY DEF SessionInv, OnlyAgent, NoProtocolError
<1> QED
  BY <1>2, <1>4, <1>5, <1>6, AgentStep DEF OnlyAgent

LEMMA AgentSound ==
  ASSUME NEW i \in Ids, StreamSound(i), OnlyAgent(i), session["agent"] = "up",
         RecordSound("agent", i)', AgentReady(i)',
         session["client"] = "up" => ClientReady(i)' /\ Agreed(i)'
  PROVE  StreamSound(i)'
<1>1. SameClient(i) /\ id' = id /\ session' = session
  BY TwoEnds DEF OnlyAgent, SameClient
<1>2. (Literal(i)' <=> Literal(i)) /\ (Owned(i)' <=> Owned(i))
  BY <1>1, SameOwner
<1>3. EntrySound(i)'
  BY <1>1, <1>2 DEF StreamSound, EntrySound, SameClient, SameRecord
<1>4. RecordSound("client", i)'
  BY <1>1, TwoEnds DEF StreamSound, RecordSound, SameClient, SameRecord, Clean
<1> QED
  BY <1>1, <1>3, <1>4, TwoEnds DEF StreamSound

LEMMA AgentLimit ==
  ASSUME SessionInv, Types', NEW i \in Ids, OnlyAgent(i),
         streams["agent"][i] # "none" \/ streams'["agent"][i] = "none"
           \/ Cardinality(Entries("agent")) < MaxStreams,
         \/ relays' = relays /\ (operations[i] # "none" \/ operations'[i] = "none")
         \/ relays' = relays /\ ~WorkersFull
         \/ relays' = relays \ {i} /\ operations'[i] = operations[i]
         \/ relays' = relays \cup {i} /\ operations[i] # "none" /\ operations'[i] = "none"
  PROVE  StreamLimit'
<1>1. /\ Cardinality(Entries("client")) <= MaxStreams
      /\ Cardinality(Entries("agent")) <= MaxStreams
      /\ Cardinality(relays) + Cardinality(Operations) <= MaxStreams
  BY TwoEnds DEF SessionInv, StreamLimit
<1>2. Entries("client")' = Entries("client")
  BY TwoEnds DEF OnlyAgent, SameRecord, Entries
<1>3. IsFiniteSet(Ids) /\ relays \in SUBSET Ids /\ relays' \in SUBSET Ids
  BY IdsAreNumbers DEF SessionInv, Types
<1>4. Cardinality(Entries("agent")') <= MaxStreams
  <2> DEFINE A == Entries("agent")
             B == Entries("agent")'
  <2>1. /\ A \in SUBSET Ids /\ B \in SUBSET Ids
        /\ \A y : y # i => (y \in B <=> y \in A)
    BY TwoEnds DEF Entries, OnlyAgent, SameRecord
  <2>2. i \in A \/ i \notin B \/ Cardinality(A) < MaxStreams
    BY DEF Entries
  <2> HIDE DEF A, B
  <2>3. /\ Cardinality(A) \in Nat /\ Cardinality(B) \in Nat
        /\ Cardinality(B) + Count(i \in A) = Cardinality(A) + Count(i \in B)
    BY <1>3, <2>1, OneDiffers
  <2>4. Cardinality(A) <= MaxStreams
    BY <1>1 DEF A
  <2>5. Cardinality(B) <= MaxStreams
    BY <2>2, <2>3, <2>4 DEF Count
  <2> QED  BY <2>5 DEF B
<1>5. Cardinality(relays') + Cardinality(Operations') <= MaxStreams
  <2> DEFINE A == Operations
             B == Operations'
             P == relays
             Q == relays'
  <2>1. A \in SUBSET Ids /\ B \in SUBSET Ids /\ \A y : y # i => (y \in B <=> y \in A)
    BY DEF Operations, OnlyAgent
  <2>2. (i \in A <=> operations[i] # "none") /\ (i \in B <=> operations'[i] # "none")
    BY DEF Operations
  <2>3. \A y : y # i => (y \in Q <=> y \in P)
    OBVIOUS
  <2>4. WorkersFull <=> Cardinality(P) + Cardinality(A) >= MaxStreams
    BY DEF WorkersFull
  <2>5. P \in SUBSET Ids /\ Q \in SUBSET Ids /\ Cardinality(P) + Cardinality(A) <= MaxStreams
    BY <1>1, <1>3
  <2>6. \/ Q = P /\ (i \in A \/ i \notin B)
        \/ Q = P /\ Cardinality(P) + Cardinality(A) < MaxStreams
        \/ (i \in Q => i \in P) /\ (i \in B <=> i \in A)
        \/ i \in A /\ i \notin B
    <3>1. CASE relays' = relays /\ (operations[i] # "none" \/ operations'[i] = "none")
      BY <2>2, <3>1
    <3>2. CASE relays' = relays /\ ~WorkersFull
      <4>1. Cardinality(P) \in Nat /\ Cardinality(A) \in Nat
        BY <1>3, <2>1, FS_Subset, FS_CardinalityType
      <4> QED  BY <2>4, <3>2, <4>1
    <3>3. CASE relays' = relays \ {i} /\ operations'[i] = operations[i]
      BY <2>2, <3>3
    <3>4. CASE operations[i] # "none" /\ operations'[i] = "none"
      BY <2>2, <3>4
    <3> QED  BY <3>1, <3>2, <3>3, <3>4
  <2> HIDE DEF A, B, P, Q
  <2>7. /\ Cardinality(A) \in Nat /\ Cardinality(B) \in Nat
        /\ Cardinality(B) + Count(i \in A) = Cardinality(A) + Count(i \in B)
    BY <1>3, <2>1, OneDiffers
  <2>8. /\ Cardinality(P) \in Nat /\ Cardinality(Q) \in Nat
        /\ Cardinality(Q) + Count(i \in P) = Cardinality(P) + Count(i \in Q)
    BY <1>3, <2>3, <2>5, OneDiffers
  <2>9. Cardinality(Q) + Cardinality(B) <= MaxStreams
    BY <2>5, <2>6, <2>7, <2>8 DEF Count
  <2> QED  BY <2>9 DEF B, Q
<1> QED
  BY <1>1, <1>2, <1>4, <1>5, TwoEnds DEF StreamLimit

LEMMA AgentTypes ==
  ASSUME Types, UNCHANGED <<callerVars, slots, handleVars, commands, session, permit>>,
         streams' \in PerEnd(States), candidates' \in PerEnd(BOOLEAN),
         highestStreamId' \in Ids \cup {0},
         operations' \in [Ids -> {"none", "resolve", "open"}], relays' \in SUBSET Ids,
         dropped' \in PerEnd(BOOLEAN), remoteClosed' \in PerEnd(BOOLEAN),
         closeQueued' \in PerEnd(BOOLEAN),
         events' \in PerEnd({"none", "Stopped", "LocalCloseQueued"}),
         toAgent' \in Seq(Frames(Requests)), toClient' \in Seq(Frames(Replied))
  PROVE  Types'
  BY DEF Types, callerVars, handleVars

LEMMA HeadOpens ==
  ASSUME SessionInv, NEW t, NEW i \in Ids, AgentTakes(t, i), Opens(Frame(t, i))
  PROVE  Fresh(i)
<1>1. toAgent \in Seq(Frames(Requests)) /\ Ordered /\ toAgent # <<>>
      /\ Head(toAgent) = Frame(t, i)
  BY DEF SessionInv, Types, AgentTakes
<1>2. 1 \in 1 .. Len(toAgent) /\ toAgent[1] = Frame(t, i)
  BY <1>1
<1>3. toAgent[1].id = i
  BY <1>2 DEF Frame
<1> QED
  BY <1>1, <1>2, <1>3 DEF Ordered

LEMMA RecvResolveStep ==
  ASSUME SessionInv, RecvResolve
  PROVE  SessionInv'
<1>1. Types /\ FramesNeat /\ AgentReceives("RESOLVE") /\ session["agent"] = "up"
  BY DEF SessionInv, RecvResolve, AgentReceives
<1>2. PICK i \in Ids : Head(toAgent).id = i /\ AgentTakes("RESOLVE", i)
  BY <1>1, AgentTaking
<1>3. StreamSound(i) /\ AgentReady(i) /\ In(toAgent, "RESOLVE", i)
  BY <1>1, <1>2 DEF SessionInv, StreamSound, AgentTakes
<1>4. Opens(Frame("RESOLVE", i)) /\ Head(toAgent) = Frame("RESOLVE", i)
  BY <1>2 DEF Opens, Frame, AgentTakes
<1>5. streams["agent"][i] = "none" /\ Fresh(i)
  BY <1>2, <1>3, <1>4, HeadOpens DEF AgentReady
<1>6. /\ highestStreamId' = i /\ session' = session
      /\ \/ ToClient("OPEN_ERROR", i) /\ streams' = streams /\ operations' = operations
         \/ /\ Become("agent", i, "Resolving")
            /\ operations' = [operations EXCEPT ![i] = "resolve"] /\ toClient' = toClient
            /\ Cardinality(Entries("agent")) < MaxStreams /\ ~WorkersFull
      /\ UNCHANGED <<candidates, remoteClosed, closeQueued, events, dropped, relays>>
      /\ UNCHANGED <<callerVars, slots, handleVars, commands, permit>>
  <2>1. Cardinality(Entries("agent")) \in Nat
    <3>1. Entries("agent") \subseteq Ids
      BY DEF Entries
    <3> QED  BY <3>1, IdsAreNumbers, FS_Subset, FS_CardinalityType
  <2> QED  BY <1>2, <1>5, <2>1 DEF RecvResolve, AgentReceives, AgentState
<1>7. /\ streams' \in PerEnd(States) /\ operations' \in [Ids -> {"none", "resolve", "open"}]
      /\ toClient' \in Seq(Frames(Replied))
      /\ \A d \in Ends, j \in Ids : d # "agent" \/ j # i => streams'[d][j] = streams[d][j]
      /\ \A j \in Ids \ {i} : operations'[j] = operations[j] /\ SameTold(j)
      /\ \/ /\ Answers("OPEN_ERROR", i) /\ streams'["agent"][i] = "none"
            /\ operations'[i] = operations[i] /\ streams' = streams /\ operations' = operations
         \/ /\ SameTold(i) /\ streams'["agent"][i] = "Resolving" /\ operations'[i] = "resolve"
            /\ Cardinality(Entries("agent")) < MaxStreams /\ ~WorkersFull
            /\ toClient' = toClient
  <2>1. CASE ToClient("OPEN_ERROR", i) /\ streams' = streams /\ operations' = operations
    <3>1. Answers("OPEN_ERROR", i)
      BY <1>1, <2>1, Answering DEF Replied
    <3> QED  BY <1>1, <1>5, <2>1, <3>1 DEF Types, Answers
  <2>2. CASE /\ Become("agent", i, "Resolving")
             /\ operations' = [operations EXCEPT ![i] = "resolve"] /\ toClient' = toClient
             /\ Cardinality(Entries("agent")) < MaxStreams /\ ~WorkersFull
    <3>1. /\ streams' \in PerEnd(States) /\ streams'["agent"][i] = "Resolving"
          /\ \A d \in Ends, j \in Ids : d # "agent" \/ j # i => streams'[d][j] = streams[d][j]
      BY <1>1, <2>2, Becoming, TwoEnds DEF States
    <3>2. operations \in [Ids -> {"none", "resolve", "open"}] /\ toClient \in Seq(Frames(Replied))
      BY <1>1 DEF Types
    <3> QED  BY <2>2, <3>1, <3>2 DEF SameTold
  <2> QED  BY <1>6, <2>1, <2>2
<1>8. Types'
  <2>1. /\ candidates' \in PerEnd(BOOLEAN) /\ relays' \in SUBSET Ids
        /\ dropped' \in PerEnd(BOOLEAN) /\ remoteClosed' \in PerEnd(BOOLEAN)
        /\ closeQueued' \in PerEnd(BOOLEAN)
        /\ events' \in PerEnd({"none", "Stopped", "LocalCloseQueued"})
    BY <1>1, <1>6 DEF Types
  <2> QED  BY <1>1, <1>2, <1>6, <1>7, <2>1, AgentTypes DEF AgentTakes
<1>9. OnlyAgent(i) /\ Registers
  BY <1>2, <1>4, <1>5, <1>6, <1>7 DEF OnlyAgent, Registers, SameRecord, AgentTakes, callerVars,
     handleVars
<1>10. (Literal(i)' <=> Literal(i)) /\ ~Fresh(i)'
  BY <1>6, SameOwner, IdsAreNumbers DEF Fresh, callerVars
<1>11. SameRecord("client", i)
  BY <1>9, TwoEnds DEF OnlyAgent
<1>12. RecordSound("agent", i)' /\ AgentReady(i)'
  BY <1>1, <1>2, <1>3, <1>5, <1>6, <1>7, <1>10, TwoEnds
     DEF StreamSound, RecordSound, AgentReady, AgentTakes, Clean
<1>13. ASSUME session["client"] = "up" PROVE ClientReady(i)' /\ Agreed(i)' /\ Neat(toClient')
  <2>1. ClientReady(i) /\ Agreed(i) /\ Neat(toClient)
    BY <1>1, <1>3, <1>13 DEF StreamSound, FramesNeat
  <2>2. CASE /\ Answers("OPEN_ERROR", i) /\ streams'["agent"][i] = "none"
    <3>1. Agreed(i)' /\ ~In(toClient, "OPEN_ERROR", i) /\ ~In(toClient, "CLOSE", i)
      BY <1>2, <1>3, <1>5, <1>10, <1>11, <1>6, <2>1, <2>2
         DEF Agreed, Row, Asked, Told, Silent, AgentTakes, Answers, SameRecord, Stages
    <3>2. ClientReady(i)'
      BY <1>2, <1>3, <1>5, <1>11, <2>1, <2>2
         DEF Agreed, Row, Asked, Told, Silent, Answers, SameRecord, Stages, ClientReady
    <3> QED  BY <2>1, <2>2, <3>1, <3>2 DEF Answers
  <2>3. CASE SameTold(i) /\ streams'["agent"][i] = "Resolving" /\ toClient' = toClient
    <3>1. Agreed(i)'
      BY <1>2, <1>3, <1>5, <1>10, <1>11, <1>6, <2>1, <2>3
         DEF Agreed, Row, Asked, Told, Silent, AgentTakes, SameTold, SameRecord, Stages
    <3>2. ClientReady(i)'
      BY <1>11, <2>1, <2>3 DEF Told, SameTold, SameRecord, ClientReady
    <3> QED  BY <2>1, <2>3, <3>1, <3>2
  <2> QED  BY <1>7, <2>2, <2>3
<1>14. StreamSound(i)'
  BY <1>1, <1>3, <1>9, <1>12, <1>13, AgentSound
<1>15. FramesNeat'
  BY <1>2, <1>6, <1>13 DEF FramesNeat, AgentTakes
<1>16. StreamLimit'
  BY <1>5, <1>6, <1>7, <1>8, <1>9, AgentLimit
<1>17. ~Unborn(i)
  BY <1>3 DEF Unborn, Silent, Asked
<1> QED
  BY <1>8, <1>9, <1>14, <1>15, <1>16, <1>17, AgentFrame

LEMMA EntriesCounted ==
  ASSUME NEW e
  PROVE  IsFiniteSet(Entries(e)) /\ Cardinality(Entries(e)) \in Nat
<1>1. Entries(e) \subseteq Ids
  BY DEF Entries
<1> QED
  BY <1>1, IdsAreNumbers, FS_Subset, FS_CardinalityType

LEMMA RecvOpenStep ==
  ASSUME SessionInv, RecvOpen
  PROVE  SessionInv'
<1>1. Types /\ FramesNeat /\ AgentReceives("OPEN") /\ session["agent"] = "up"
  BY DEF SessionInv, RecvOpen, AgentReceives
<1>2. PICK i \in Ids : Head(toAgent).id = i /\ AgentTakes("OPEN", i)
  BY <1>1, AgentTaking
<1>3. StreamSound(i) /\ AgentReady(i) /\ In(toAgent, "OPEN", i)
  BY <1>1, <1>2 DEF SessionInv, StreamSound, AgentTakes
<1>4. (Literal(i) => Opens(Frame("OPEN", i))) /\ Head(toAgent) = Frame("OPEN", i)
  BY <1>2 DEF Opens, Frame, AgentTakes
<1>5. /\ streams["agent"][i] = IF Literal(i) THEN "none" ELSE "Resolved"
      /\ Literal(i) => Fresh(i)
      /\ ~Literal(i) => ~Fresh(i)
  <2>1. Literal(i) => Fresh(i)
    BY <1>2, <1>4, HeadOpens
  <2> QED  BY <1>3, <2>1 DEF AgentReady
<1>6. /\ highestStreamId' = (IF Literal(i) THEN i ELSE highestStreamId) /\ session' = session
      /\ \/ /\ ToClient("OPEN_ERROR", i)
            /\ streams' = streams /\ operations' = operations /\ candidates' = candidates
         \/ /\ Become("agent", i, "Opening")
            /\ candidates' = [candidates EXCEPT !["agent"][i] = ~Literal(i)]
            /\ operations' = [operations EXCEPT ![i] = "open"] /\ toClient' = toClient
            /\ streams["agent"][i] # "none" \/ Cardinality(Entries("agent")) < MaxStreams
            /\ ~WorkersFull
      /\ UNCHANGED <<remoteClosed, closeQueued, events, dropped, relays>>
      /\ UNCHANGED <<callerVars, slots, handleVars, commands, permit>>
  <2>1. Cardinality(Entries("agent")) \in Nat
    BY EntriesCounted
  <2>2. Literal(i) <=> streams["agent"][i] = "none"
    BY <1>5
  <2>3. Literal(i) \in BOOLEAN
    BY DEF Literal
  <2> QED  BY <1>2, <1>5, <2>1, <2>2, <2>3 DEF RecvOpen, AgentReceives, AgentState
<1>7. /\ streams' \in PerEnd(States) /\ operations' \in [Ids -> {"none", "resolve", "open"}]
      /\ toClient' \in Seq(Frames(Replied)) /\ candidates' \in PerEnd(BOOLEAN)
      /\ \A d \in Ends, j \in Ids : d # "agent" \/ j # i =>
            streams'[d][j] = streams[d][j] /\ candidates'[d][j] = candidates[d][j]
      /\ \A j \in Ids \ {i} : operations'[j] = operations[j] /\ SameTold(j)
      /\ \/ /\ Answers("OPEN_ERROR", i) /\ streams' = streams /\ operations' = operations
            /\ candidates' = candidates
         \/ /\ SameTold(i) /\ streams'["agent"][i] = "Opening" /\ operations'[i] = "open"
            /\ candidates'["agent"][i] <=> ~Literal(i)
            /\ streams["agent"][i] # "none" \/ Cardinality(Entries("agent")) < MaxStreams
            /\ ~WorkersFull /\ toClient' = toClient
  <2>1. CASE /\ ToClient("OPEN_ERROR", i)
             /\ streams' = streams /\ operations' = operations /\ candidates' = candidates
    <3>1. Answers("OPEN_ERROR", i)
      BY <1>1, <2>1, Answering DEF Replied
    <3> QED  BY <1>1, <2>1, <3>1 DEF Types, Answers
  <2>2. CASE /\ Become("agent", i, "Opening")
             /\ candidates' = [candidates EXCEPT !["agent"][i] = ~Literal(i)]
             /\ operations' = [operations EXCEPT ![i] = "open"] /\ toClient' = toClient
             /\ streams["agent"][i] # "none" \/ Cardinality(Entries("agent")) < MaxStreams
             /\ ~WorkersFull
    <3>1. /\ streams' \in PerEnd(States) /\ streams'["agent"][i] = "Opening"
          /\ \A d \in Ends, j \in Ids : d # "agent" \/ j # i => streams'[d][j] = streams[d][j]
      BY <1>1, <2>2, Becoming, TwoEnds DEF States
    <3>2. /\ operations \in [Ids -> {"none", "resolve", "open"}]
          /\ toClient \in Seq(Frames(Replied)) /\ candidates \in PerEnd(BOOLEAN)
      BY <1>1 DEF Types
    <3>3. /\ candidates' \in PerEnd(BOOLEAN) /\ (candidates'["agent"][i] <=> ~Literal(i))
          /\ \A d \in Ends, j \in Ids : d # "agent" \/ j # i =>
                candidates'[d][j] = candidates[d][j]
      BY <2>2, <3>2, TwoEnds DEF PerEnd
    <3> QED  BY <2>2, <3>1, <3>2, <3>3 DEF SameTold
  <2> QED  BY <1>6, <2>1, <2>2
<1>8. Types'
  <2>1. /\ relays' \in SUBSET Ids /\ highestStreamId' \in Ids \cup {0}
        /\ dropped' \in PerEnd(BOOLEAN) /\ remoteClosed' \in PerEnd(BOOLEAN)
        /\ closeQueued' \in PerEnd(BOOLEAN)
        /\ events' \in PerEnd({"none", "Stopped", "LocalCloseQueued"})
    BY <1>1, <1>6 DEF Types
  <2> QED  BY <1>1, <1>2, <1>6, <1>7, <2>1, AgentTypes DEF AgentTakes
<1>9. OnlyAgent(i) /\ Registers
  BY <1>2, <1>4, <1>5, <1>6, <1>7 DEF OnlyAgent, Registers, SameRecord, AgentTakes, callerVars,
     handleVars
<1>10. (Literal(i)' <=> Literal(i)) /\ ~Fresh(i)'
  BY <1>5, <1>6, SameOwner, IdsAreNumbers DEF Fresh, callerVars
<1>11. SameRecord("client", i)
  BY <1>9, TwoEnds DEF OnlyAgent
<1>12. RecordSound("agent", i)' /\ AgentReady(i)'
  BY <1>1, <1>2, <1>3, <1>5, <1>6, <1>7, <1>10, TwoEnds
     DEF StreamSound, RecordSound, AgentReady, AgentTakes, Clean
<1>13. ASSUME session["client"] = "up" PROVE ClientReady(i)' /\ Agreed(i)' /\ Neat(toClient')
  <2>1. ClientReady(i) /\ Agreed(i) /\ Neat(toClient)
    BY <1>1, <1>3, <1>13 DEF StreamSound, FramesNeat
  <2>2. CASE Answers("OPEN_ERROR", i) /\ streams' = streams
    <3>1. Agreed(i)' /\ ~In(toClient, "OPEN_ERROR", i) /\ ~In(toClient, "CLOSE", i)
      BY <1>2, <1>3, <1>5, <1>10, <1>11, <1>6, <2>1, <2>2
         DEF Agreed, Row, Asked, Told, Silent, AgentTakes, Answers, SameRecord, Stages
    <3>2. ClientReady(i)'
      BY <1>2, <1>3, <1>5, <1>11, <2>1, <2>2
         DEF Agreed, Row, Asked, Told, Silent, Answers, SameRecord, Stages, ClientReady
    <3> QED  BY <2>1, <2>2, <3>1, <3>2 DEF Answers
  <2>3. CASE SameTold(i) /\ streams'["agent"][i] = "Opening" /\ toClient' = toClient
    <3>1. Agreed(i)'
      BY <1>2, <1>3, <1>5, <1>10, <1>11, <1>6, <2>1, <2>3
         DEF Agreed, Row, Asked, Told, Silent, AgentTakes, SameTold, SameRecord, Stages
    <3>2. ClientReady(i)'
      BY <1>11, <2>1, <2>3 DEF Told, SameTold, SameRecord, ClientReady
    <3> QED  BY <2>1, <2>3, <3>1, <3>2
  <2> QED  BY <1>7, <2>2, <2>3
<1>14. StreamSound(i)'
  BY <1>1, <1>3, <1>9, <1>12, <1>13, AgentSound
<1>15. FramesNeat'
  BY <1>2, <1>6, <1>13 DEF FramesNeat, AgentTakes
<1>16. StreamLimit'
  <2>1. /\ streams["agent"][i] # "none" \/ streams'["agent"][i] = "none"
             \/ Cardinality(Entries("agent")) < MaxStreams
        /\ relays' = relays
        /\ operations'[i] = operations[i] \/ ~WorkersFull
    BY <1>6, <1>7
  <2> QED  BY <1>8, <1>9, <2>1, AgentLimit
<1>17. ~Unborn(i)
  BY <1>3 DEF Unborn, Silent, Asked
<1> QED
  BY <1>8, <1>9, <1>14, <1>15, <1>16, <1>17, AgentFrame

LEMMA AgentRecvCloseStep ==
  ASSUME SessionInv, AgentRecvClose
  PROVE  SessionInv'
<1>1. Types /\ FramesNeat /\ AgentReceives("CLOSE") /\ session["agent"] = "up"
  BY DEF SessionInv, AgentRecvClose, AgentReceives
<1>2. PICK i \in Ids : Head(toAgent).id = i /\ AgentTakes("CLOSE", i)
  BY <1>1, AgentTaking
<1>3. /\ StreamSound(i) /\ AgentReady(i) /\ RecordSound("agent", i)
      /\ In(toAgent, "CLOSE", i) /\ Asked(i, "none")
  BY <1>1, <1>2, TwoEnds DEF SessionInv, StreamSound, AgentTakes
<1>4. ~Fresh(i)
  BY <1>3 DEF AgentReady, Asked
<1> DEFINE before == streams["agent"][i]
           after == IF before \in {"Resolving", "Opening", "Cancelled"} THEN "Cancelled"
                                                                         ELSE "none"
           silent == before \in {"Closing", "Cancelled"}
                       \/ (before = "Open" /\ closeQueued["agent"][i])
<1>5. before \in States /\ closeQueued["agent"][i] \in BOOLEAN
  BY <1>1, TwoEnds DEF Types, PerEnd
<1>6. /\ \/ streams' = streams /\ before = "none"
         \/ Become("agent", i, after) /\ before # "none"
      /\ IF silent THEN toClient' = toClient ELSE ToClient("CLOSE", i)
      /\ \/ before # "Open" /\ UNCHANGED <<remoteClosed, closeQueued>>
         \/ /\ before = "Open"
            /\ remoteClosed' = [remoteClosed EXCEPT !["agent"][i] = TRUE]
            /\ closeQueued' = [closeQueued EXCEPT !["agent"][i] = TRUE]
      /\ session' = session
      /\ UNCHANGED <<candidates, highestStreamId, operations, events, dropped, relays>>
      /\ UNCHANGED <<callerVars, slots, handleVars, commands, permit>>
  BY <1>2, <1>4, <1>5 DEF AgentRecvClose, AgentReceives, AgentState, States
<1>7. /\ streams' \in PerEnd(States) /\ streams'["agent"][i] = after
      /\ \A d \in Ends, j \in Ids : d # "agent" \/ j # i => streams'[d][j] = streams[d][j]
  <2>1. CASE streams' = streams /\ before = "none"
    BY <1>1, <2>1 DEF Types
  <2>2. CASE Become("agent", i, after)
    <3>1. after \in States /\ "agent" \in Ends
      BY TwoEnds DEF States
    <3> HIDE DEF after
    <3> QED  BY <1>1, <2>2, <3>1, Becoming
  <2> QED  BY <1>6, <2>1, <2>2
<1>8. /\ toClient' \in Seq(Frames(Replied))
      /\ \A j \in Ids \ {i} : SameTold(j)
      /\ IF silent THEN toClient' = toClient /\ SameTold(i) ELSE Answers("CLOSE", i)
  <2>1. CASE toClient' = toClient /\ silent
    BY <1>1, <2>1 DEF Types, SameTold
  <2>2. CASE ToClient("CLOSE", i) /\ ~silent
    <3>1. Answers("CLOSE", i)
      BY <1>1, <2>2, Answering DEF Replied
    <3> QED  BY <2>2, <3>1 DEF Answers
  <2> QED  BY <1>6, <2>1, <2>2
<1>9. /\ remoteClosed' \in PerEnd(BOOLEAN) /\ closeQueued' \in PerEnd(BOOLEAN)
      /\ \A d \in Ends, j \in Ids : d # "agent" \/ j # i =>
            remoteClosed'[d][j] = remoteClosed[d][j] /\ closeQueued'[d][j] = closeQueued[d][j]
      /\ closeQueued'["agent"][i] = (closeQueued["agent"][i] \/ before = "Open")
  <2>1. remoteClosed \in PerEnd(BOOLEAN) /\ closeQueued \in PerEnd(BOOLEAN)
    BY <1>1 DEF Types
  <2>2. CASE UNCHANGED <<remoteClosed, closeQueued>> /\ before # "Open"
    BY <1>5, <2>1, <2>2
  <2>3. CASE /\ remoteClosed' = [remoteClosed EXCEPT !["agent"][i] = TRUE]
             /\ closeQueued' = [closeQueued EXCEPT !["agent"][i] = TRUE] /\ before = "Open"
    BY <2>1, <2>3, TwoEnds DEF PerEnd
  <2> QED  BY <1>6, <2>2, <2>3
<1> HIDE DEF after
<1>10. Types'
  <2>1. /\ candidates' \in PerEnd(BOOLEAN) /\ highestStreamId' \in Ids \cup {0}
        /\ operations' \in [Ids -> {"none", "resolve", "open"}] /\ relays' \in SUBSET Ids
        /\ dropped' \in PerEnd(BOOLEAN)
        /\ events' \in PerEnd({"none", "Stopped", "LocalCloseQueued"})
    BY <1>1, <1>6 DEF Types
  <2>2. toAgent' \in Seq(Frames(Requests))
    BY <1>2 DEF AgentTakes
  <2> QED  BY <1>1, <1>6, <1>7, <1>8, <1>9, <2>1, <2>2, AgentTypes
<1>11. OnlyAgent(i) /\ Registers
  BY <1>2, <1>6, <1>7, <1>8, <1>9 DEF OnlyAgent, Registers, SameRecord, AgentTakes, callerVars,
     handleVars
<1>12. (Literal(i)' <=> Literal(i)) /\ ~Fresh(i)'
  BY <1>4, <1>6, SameOwner DEF Fresh, callerVars
<1>13. SameRecord("client", i)
  BY <1>11, TwoEnds DEF OnlyAgent
<1>14. ~In(toAgent', "CLOSE", i) /\ Asked(i, "none")'
  BY <1>2, <1>3 DEF AgentTakes, Asked
<1>15. after = IF before \in {"Resolving", "Opening", "Cancelled"} THEN "Cancelled" ELSE "none"
  BY DEF after
<1> HIDE DEF before
<1>16. RecordSound("agent", i)' /\ AgentReady(i)'
  BY <1>1, <1>3, <1>6, <1>7, <1>12, <1>14, <1>15
     DEF RecordSound, AgentReady, Asked, before
<1>17. ASSUME session["client"] = "up" PROVE ClientReady(i)' /\ Agreed(i)' /\ Neat(toClient')
  <2>1. ClientReady(i) /\ Agreed(i) /\ Neat(toClient)
    BY <1>1, <1>3, <1>17 DEF StreamSound, FramesNeat
  <2>2. CASE silent
    <3>1. Agreed(i)'
      BY <1>1, <1>3, <1>7, <1>8, <1>9, <1>12, <1>13, <1>14, <1>15, <2>1, <2>2
         DEF Agreed, Row, Asked, Told, Silent, SameTold, SameRecord, Stages, before, RecordSound
    <3>2. ClientReady(i)'
      BY <1>8, <1>13, <2>1, <2>2 DEF Told, SameTold, SameRecord, ClientReady
    <3> QED  BY <1>8, <2>1, <2>2, <3>1, <3>2
  <2>3. CASE ~silent
    <3>1. Agreed(i)' /\ ~In(toClient, "CLOSE", i)
      BY <1>1, <1>3, <1>7, <1>8, <1>9, <1>12, <1>13, <1>14, <1>15, <2>1, <2>3
         DEF Agreed, Row, Asked, Told, Silent, Answers, SameRecord, Stages, before
    <3>2. streams["client"][i] \in {"Open", "Closing"}
      BY <1>3, <2>1, <2>3 DEF Agreed, Row, Silent, before
    <3>3. ClientReady(i)'
      BY <1>8, <1>13, <2>1, <2>3, <3>2 DEF Told, Answers, SameRecord, ClientReady
    <3> QED  BY <1>8, <2>1, <2>3, <3>1, <3>3 DEF Answers
  <2> QED  BY <2>2, <2>3
<1>18. StreamSound(i)'
  BY <1>1, <1>3, <1>11, <1>16, <1>17, AgentSound
<1>19. FramesNeat'
  BY <1>2, <1>6, <1>17 DEF FramesNeat, AgentTakes
<1>20. StreamLimit'
  <2>1. /\ streams["agent"][i] # "none" \/ streams'["agent"][i] = "none"
        /\ relays' = relays /\ operations' = operations
    BY <1>6, <1>7, <1>15 DEF before
  <2> QED  BY <1>10, <1>11, <2>1, AgentLimit
<1>21. ~Unborn(i)
  BY <1>3 DEF Unborn, Silent
<1> QED
  BY <1>10, <1>11, <1>18, <1>19, <1>20, <1>21, AgentFrame

LEMMA FinishOperationStep ==
  ASSUME SessionInv, NEW i \in Ids, NEW ok \in BOOLEAN, FinishOperation(i, ok)
  PROVE  SessionInv'
<1>1. Types /\ FramesNeat /\ session["agent"] = "up" /\ operations[i] # "none"
  BY DEF SessionInv, FinishOperation
<1>2. StreamSound(i) /\ AgentReady(i) /\ RecordSound("agent", i)
  BY <1>1, TwoEnds DEF SessionInv, StreamSound
<1> DEFINE before == streams["agent"][i]
           resolve == operations[i] = "resolve"
           after == IF before = "Cancelled" THEN "none"
                    ELSE IF ok THEN IF resolve THEN "Resolved" ELSE "Open"
                    ELSE IF ~resolve /\ ~Literal(i) THEN "Resolved" ELSE "none"
           answer == IF ~ok THEN "OPEN_ERROR" ELSE IF resolve THEN "RESOLVE_OK" ELSE "OPEN_OK"
<1>3. /\ before \in {"Cancelled", IF resolve THEN "Resolving" ELSE "Opening"}
      /\ operations[i] \in {"resolve", "open"} /\ ~Fresh(i)
      /\ before = "Opening" => (candidates["agent"][i] <=> ~Literal(i))
      /\ before \in {"Resolving", "Opening"} => Clean("agent", i)
  BY <1>1, <1>2 DEF AgentReady, RecordSound, Types
<1>4. /\ Become("agent", i, after) /\ operations' = [operations EXCEPT ![i] = "none"]
      /\ IF before = "Cancelled" THEN toClient' = toClient ELSE ToClient(answer, i)
      /\ \/ relays' = relays
         \/ relays' = relays \cup {i}
      /\ session' = session
      /\ UNCHANGED <<callerVars, slots, handleVars, commands, candidates, permit,
                     highestStreamId, sharedVars, events, toAgent>>
  BY <1>3 DEF FinishOperation
<1>5. /\ streams' \in PerEnd(States) /\ streams'["agent"][i] = after
      /\ \A d \in Ends, j \in Ids : d # "agent" \/ j # i => streams'[d][j] = streams[d][j]
  <2>1. after \in States /\ "agent" \in Ends
    BY TwoEnds DEF States
  <2> HIDE DEF after
  <2> QED  BY <1>1, <1>4, <2>1, Becoming
<1>6. /\ toClient' \in Seq(Frames(Replied))
      /\ \A j \in Ids \ {i} : SameTold(j)
      /\ IF before = "Cancelled" THEN toClient' = toClient /\ SameTold(i) ELSE Answers(answer, i)
  <2>1. CASE before = "Cancelled"
    BY <1>1, <1>4, <2>1 DEF Types, SameTold
  <2>2. CASE before # "Cancelled"
    <3>1. answer \in Replied
      BY DEF Replied
    <3>2. ToClient(answer, i)
      BY <1>4, <2>2
    <3> HIDE DEF answer
    <3>3. Answers(answer, i)
      BY <1>1, <3>1, <3>2, Answering
    <3> QED  BY <2>2, <3>3 DEF Answers
  <2> QED  BY <2>1, <2>2
<1>7. /\ operations' \in [Ids -> {"none", "resolve", "open"}] /\ operations'[i] = "none"
      /\ \A j \in Ids \ {i} : operations'[j] = operations[j]
      /\ relays' \in SUBSET Ids
  BY <1>1, <1>4 DEF Types
<1> HIDE DEF after
<1>8. Types'
  <2>1. /\ candidates' \in PerEnd(BOOLEAN) /\ highestStreamId' \in Ids \cup {0}
        /\ dropped' \in PerEnd(BOOLEAN) /\ remoteClosed' \in PerEnd(BOOLEAN)
        /\ closeQueued' \in PerEnd(BOOLEAN)
        /\ events' \in PerEnd({"none", "Stopped", "LocalCloseQueued"})
        /\ toAgent' \in Seq(Frames(Requests))
    BY <1>1, <1>4 DEF Types, sharedVars
  <2> QED  BY <1>1, <1>4, <1>5, <1>6, <1>7, <2>1, AgentTypes
<1>9. OnlyAgent(i) /\ Registers /\ SameSent(i)
  BY <1>4, <1>5, <1>6, <1>7 DEF OnlyAgent, Registers, SameRecord, SameSent, callerVars,
     handleVars, sharedVars
<1>10. (Literal(i)' <=> Literal(i)) /\ ~Fresh(i)'
  BY <1>3, <1>4, SameOwner DEF Fresh, callerVars
<1>11. SameRecord("client", i)
  BY <1>9, TwoEnds DEF OnlyAgent
<1>12. /\ remoteClosed' = remoteClosed /\ closeQueued' = closeQueued /\ events' = events
       /\ candidates' = candidates
  BY <1>4 DEF sharedVars
<1>13. RecordSound("agent", i)' /\ AgentReady(i)'
  <2>1. after \in {"none", "Resolved", "Open"}
        /\ (after # "none" => Clean("agent", i))
        /\ (before # "none" /\ before # "Resolved")
    BY <1>3 DEF after
  <2>2. ~In(toAgent, "RESOLVE", i) /\ ~In(toAgent, "OPEN", i)
    BY <1>2, <2>1 DEF AgentReady
  <2> HIDE DEF before
  <2> QED
    BY <1>1, <1>2, <1>4, <1>5, <1>7, <1>9, <1>10, <1>12, <2>1, <2>2
       DEF RecordSound, AgentReady, SameSent, Clean
<1>14. after = IF before = "Cancelled" THEN "none"
               ELSE IF ok THEN IF resolve THEN "Resolved" ELSE "Open"
               ELSE IF ~resolve /\ ~Literal(i) THEN "Resolved" ELSE "none"
  BY DEF after
<1>15. ASSUME session["client"] = "up" PROVE ClientReady(i)' /\ Agreed(i)' /\ Neat(toClient')
  <2>1. ClientReady(i) /\ Agreed(i) /\ Neat(toClient)
    BY <1>1, <1>2, <1>15 DEF StreamSound, FramesNeat
  <2>2. CASE before = "Cancelled"
    <3>1. Agreed(i)'
      BY <1>5, <1>6, <1>9, <1>10, <1>11, <1>14, <2>1, <2>2
         DEF Agreed, Row, Asked, Told, Silent, SameTold, SameSent, SameRecord
    <3>2. ClientReady(i)'
      BY <1>6, <1>11, <2>1, <2>2 DEF Told, SameTold, SameRecord, ClientReady
    <3> QED  BY <1>6, <2>1, <2>2, <3>1, <3>2
  <2>3. CASE before # "Cancelled"
    <3>1. Answers(answer, i) /\ before = (IF resolve THEN "Resolving" ELSE "Opening")
      BY <1>3, <1>6, <2>3
    <3>2. ~closeQueued'["agent"][i]
      BY <1>3, <1>12, <3>1 DEF Clean
    <3>3. CASE ok /\ resolve
      <4>1. Answers("RESOLVE_OK", i) /\ after = "Resolved" /\ before = "Resolving"
        BY <1>14, <2>3, <3>1, <3>3
      <4>2. Agreed(i)' /\ Told(i, "none") /\ ~In(toClient, "CLOSE", i)
            /\ streams["client"][i] \in {"Resolving", "Closing"}
        BY <1>5, <1>9, <1>10, <1>11, <2>1, <4>1
           DEF Agreed, Row, Asked, Told, Silent, Answers, SameSent, SameRecord, Stages
      <4>3. ClientReady(i)' /\ Neat(toClient')
        BY <1>11, <2>1, <4>1, <4>2 DEF Told, Answers, SameRecord, ClientReady
      <4> QED  BY <4>2, <4>3
    <3>4. CASE ok /\ ~resolve
      <4>1. Answers("OPEN_OK", i) /\ after = "Open" /\ before = "Opening"
        BY <1>14, <2>3, <3>1, <3>4
      <4>2. Agreed(i)' /\ Told(i, "none") /\ ~In(toClient, "CLOSE", i)
            /\ streams["client"][i] \in {"Opening", "Closing"}
        BY <1>5, <1>9, <1>10, <1>11, <2>1, <3>2, <4>1
           DEF Agreed, Row, Asked, Told, Silent, Answers, SameSent, SameRecord, Stages
      <4>3. ClientReady(i)' /\ Neat(toClient')
        BY <1>11, <2>1, <4>1, <4>2 DEF Told, Answers, SameRecord, ClientReady
      <4> QED  BY <4>2, <4>3
    <3>5. CASE ~ok
      <4>1. /\ Answers("OPEN_ERROR", i)
            /\ after = IF ~resolve /\ ~Literal(i) THEN "Resolved" ELSE "none"
        BY <1>14, <2>3, <3>1, <3>5
      <4>2. Agreed(i)' /\ Told(i, "none") /\ ~In(toClient, "CLOSE", i)
            /\ streams["client"][i] \in {"Resolving", "Opening", "Closing"}
        BY <1>5, <1>9, <1>10, <1>11, <2>1, <3>1, <4>1
           DEF Agreed, Row, Asked, Told, Silent, Answers, SameSent, SameRecord, Stages
      <4>3. ClientReady(i)' /\ Neat(toClient')
        BY <1>11, <2>1, <4>1, <4>2 DEF Told, Answers, SameRecord, ClientReady
      <4> QED  BY <4>2, <4>3
    <3> QED  BY <3>3, <3>4, <3>5
  <2> QED  BY <2>2, <2>3
<1>16. StreamSound(i)'
  BY <1>1, <1>2, <1>9, <1>13, <1>15, AgentSound
<1>17. FramesNeat'
  BY <1>1, <1>4, <1>15 DEF FramesNeat
<1>18. StreamLimit'
  <2>1. streams["agent"][i] # "none"
    BY <1>3
  <2> QED  BY <1>1, <1>4, <1>7, <1>8, <1>9, <2>1, AgentLimit
<1>19. ~Unborn(i)
  BY <1>1 DEF Unborn
<1> QED
  BY <1>8, <1>9, <1>16, <1>17, <1>18, <1>19, AgentFrame

LEMMA RelayEndsStep ==
  ASSUME SessionInv, NEW i \in Ids, RelayEnds(i)
  PROVE  SessionInv'
<1>1. Types /\ StreamSound(i) /\ FramesNeat
  BY DEF SessionInv
<1>2. /\ relays' = relays \ {i} /\ dropped' = [dropped EXCEPT !["agent"][i] = TRUE]
      /\ UNCHANGED <<callerVars, slots, handleVars, commands, session, permit>>
      /\ UNCHANGED <<streams, candidates, highestStreamId, operations, remoteClosed,
                     closeQueued, events, toAgent, toClient>>
  BY DEF RelayEnds
<1>3. Types'
  <2>1. dropped' \in PerEnd(BOOLEAN)
    BY <1>1, <1>2, TwoEnds DEF PerEnd, Types
  <2>2. /\ streams' \in PerEnd(States) /\ candidates' \in PerEnd(BOOLEAN)
        /\ highestStreamId' \in Ids \cup {0}
        /\ operations' \in [Ids -> {"none", "resolve", "open"}] /\ relays' \in SUBSET Ids
        /\ remoteClosed' \in PerEnd(BOOLEAN) /\ closeQueued' \in PerEnd(BOOLEAN)
        /\ events' \in PerEnd({"none", "Stopped", "LocalCloseQueued"})
        /\ toAgent' \in Seq(Frames(Requests)) /\ toClient' \in Seq(Frames(Replied))
    BY <1>1, <1>2 DEF Types
  <2> QED  BY <1>1, <1>2, <2>1, <2>2, AgentTypes
<1>4. OnlyAgent(i) /\ Registers /\ Same(i) /\ id' = id /\ session' = session
  BY <1>2 DEF OnlyAgent, Registers, SameRecord, SameSent, SameTold, Same, SameClient, SameAgent,
     callerVars, handleVars, Fresh
<1>5. StreamSound(i)' /\ FramesNeat'
  BY <1>1, <1>2, <1>4, Untouched DEF FramesNeat
<1>6. StreamLimit'
  BY <1>2, <1>3, <1>4, AgentLimit
<1> QED
  BY <1>3, <1>4, <1>5, <1>6, AgentFrame

LEMMA AgentWorkerStep ==
  ASSUME SessionInv, NEW i \in Ids, Worker("agent", i)
  PROVE  SessionInv'
<1>1. /\ Types /\ StreamSound(i) /\ FramesNeat /\ session["agent"] = "up"
      /\ streams["agent"][i] = "Open" /\ events["agent"][i] = "none"
  BY DEF SessionInv, Worker
<1>2. RecordSound("agent", i) /\ AgentReady(i) /\ ~Fresh(i)
  BY <1>1, TwoEnds DEF StreamSound, AgentReady
<1>3. ~remoteClosed["agent"][i] /\ ~closeQueued["agent"][i]
  <2>1. closeQueued["agent"][i] \in BOOLEAN
    BY <1>1, TwoEnds DEF Types, PerEnd
  <2> QED  BY <1>1, <1>2, <2>1 DEF RecordSound
<1>4. /\ events' = [events EXCEPT !["agent"][i] = "LocalCloseQueued"]
      /\ closeQueued' = [closeQueued EXCEPT !["agent"][i] = TRUE]
      /\ ToClient("CLOSE", i) /\ toAgent' = toAgent
      /\ UNCHANGED <<callerVars, slots, handleVars, commands, session, permit>>
      /\ UNCHANGED <<streams, candidates, agentVars, dropped, remoteClosed>>
  BY <1>3 DEF Worker
<1>5. /\ events' \in PerEnd({"none", "Stopped", "LocalCloseQueued"})
      /\ closeQueued' \in PerEnd(BOOLEAN)
      /\ events'["agent"][i] = "LocalCloseQueued" /\ closeQueued'["agent"][i] = TRUE
      /\ \A d \in Ends, j \in Ids : d # "agent" \/ j # i =>
            events'[d][j] = events[d][j] /\ closeQueued'[d][j] = closeQueued[d][j]
  <2>1. /\ events \in PerEnd({"none", "Stopped", "LocalCloseQueued"})
        /\ closeQueued \in PerEnd(BOOLEAN)
    BY <1>1 DEF Types
  <2> QED  BY <1>4, <2>1, TwoEnds DEF PerEnd
<1>6. Answers("CLOSE", i)
  BY <1>1, <1>4, Answering DEF Replied
<1>7. Types'
  <2>1. /\ streams' \in PerEnd(States) /\ candidates' \in PerEnd(BOOLEAN)
        /\ highestStreamId' \in Ids \cup {0}
        /\ operations' \in [Ids -> {"none", "resolve", "open"}] /\ relays' \in SUBSET Ids
        /\ dropped' \in PerEnd(BOOLEAN) /\ remoteClosed' \in PerEnd(BOOLEAN)
        /\ toAgent' \in Seq(Frames(Requests))
    BY <1>1, <1>4 DEF Types, agentVars
  <2> QED  BY <1>1, <1>4, <1>5, <1>6, <2>1, AgentTypes DEF Answers
<1>8. OnlyAgent(i) /\ Registers /\ SameSent(i)
  BY <1>4, <1>5, <1>6 DEF OnlyAgent, Registers, SameRecord, SameSent, Answers, callerVars,
     handleVars, agentVars
<1>9. (Literal(i)' <=> Literal(i)) /\ ~Fresh(i)' /\ operations' = operations /\ relays' = relays
  BY <1>2, <1>4, SameOwner DEF Fresh, callerVars, agentVars
<1>10. SameRecord("client", i)
  BY <1>8, TwoEnds DEF OnlyAgent
<1>11. RecordSound("agent", i)' /\ AgentReady(i)'
  BY <1>1, <1>2, <1>3, <1>4, <1>5, <1>8, <1>9 DEF RecordSound, AgentReady, SameSent
<1>12. ASSUME session["client"] = "up" PROVE ClientReady(i)' /\ Agreed(i)' /\ Neat(toClient')
  <2>1. ClientReady(i) /\ Agreed(i) /\ Neat(toClient)
    BY <1>1, <1>12 DEF StreamSound, FramesNeat
  <2>2. ~In(toClient, "CLOSE", i)
        /\ \/ streams["client"][i] \in {"Open", "Closing"}
           \/ streams["client"][i] = "Opening" /\ In(toClient, "OPEN_OK", i)
    BY <1>1, <1>3, <2>1 DEF Agreed, Row, Asked, Told
  <2>3. Agreed(i)'
    BY <1>1, <1>3, <1>4, <1>5, <1>6, <1>8, <1>9, <1>10, <2>1
       DEF Agreed, Row, Asked, Told, Answers, SameSent, SameRecord, Stages
  <2>4. ClientReady(i)'
    BY <1>4, <1>6, <2>1, <2>2 DEF ClientReady, Answers, Told
  <2> QED  BY <1>6, <2>1, <2>2, <2>3, <2>4 DEF Answers
<1>13. StreamSound(i)'
  BY <1>1, <1>8, <1>11, <1>12, AgentSound
<1>14. FramesNeat' /\ ~Unborn(i)
  BY <1>1, <1>4, <1>12 DEF FramesNeat, Unborn
<1>15. StreamLimit'
  BY <1>1, <1>7, <1>8, <1>9, AgentLimit
<1> QED
  BY <1>7, <1>8, <1>13, <1>14, <1>15, AgentFrame

LEMMA AgentEventStep ==
  ASSUME SessionInv, NEW i \in Ids, HandleWorkerEvent("agent", i)
  PROVE  SessionInv'
<1>1. /\ Types /\ StreamSound(i) /\ FramesNeat /\ session["agent"] = "up"
      /\ events["agent"][i] # "none"
  BY DEF SessionInv, HandleWorkerEvent
<1>2. /\ RecordSound("agent", i) /\ AgentReady(i) /\ ~Fresh(i)
      /\ events["agent"][i] # "Stopped" /\ events["agent"][i] = "LocalCloseQueued"
      /\ streams["agent"][i] \notin {"Resolving", "Resolved", "Opening"}
  <2>1. events["agent"][i] \in {"none", "Stopped", "LocalCloseQueued"}
    BY <1>1, TwoEnds DEF Types, PerEnd
  <2> QED  BY <1>1, <2>1, TwoEnds DEF StreamSound, AgentReady, RecordSound, Clean
<1> DEFINE after == IF streams["agent"][i] = "Open" THEN "Closing" ELSE streams["agent"][i]
<1>3. /\ events' = [events EXCEPT !["agent"][i] = "none"]
      /\ streams' = [streams EXCEPT !["agent"][i] = after]
      /\ slots' = slots /\ permit' = permit
      /\ UNCHANGED <<callerVars, handleVars, commands, session, candidates, agentVars,
                     sharedVars, toAgent, toClient>>
  <2>1. Count(FALSE) = 0 /\ slots \in Nat /\ permit \in [Ids -> BOOLEAN]
    BY <1>1 DEF Count, Types
  <2>2. streams["agent"][i] = "Open" /\ events["agent"][i] = "Stopped" <=> FALSE
    BY <1>2
  <2>3. slots' = slots
    BY <2>1, <2>2 DEF HandleWorkerEvent, Count
  <2>4. permit' = permit
    BY <2>1, <2>2 DEF HandleWorkerEvent
  <2> QED  BY <1>2, <2>3, <2>4 DEF HandleWorkerEvent
<1>4. streams["agent"][i] \in States /\ after \in States
  <2>1. streams["agent"][i] \in States
    BY <1>1, TwoEnds DEF Types, PerEnd
  <2> QED  BY <2>1 DEF States
<1>5. /\ events' \in PerEnd({"none", "Stopped", "LocalCloseQueued"})
      /\ streams' \in PerEnd(States)
      /\ events'["agent"][i] = "none" /\ streams'["agent"][i] = after
      /\ \A d \in Ends, j \in Ids : d # "agent" \/ j # i =>
            events'[d][j] = events[d][j] /\ streams'[d][j] = streams[d][j]
  <2>1. /\ events \in PerEnd({"none", "Stopped", "LocalCloseQueued"})
        /\ streams \in PerEnd(States)
    BY <1>1 DEF Types
  <2> HIDE DEF after
  <2> QED  BY <1>3, <1>4, <2>1, TwoEnds DEF PerEnd
<1>6. Types'
  <2>1. /\ candidates' \in PerEnd(BOOLEAN) /\ highestStreamId' \in Ids \cup {0}
        /\ operations' \in [Ids -> {"none", "resolve", "open"}] /\ relays' \in SUBSET Ids
        /\ dropped' \in PerEnd(BOOLEAN) /\ remoteClosed' \in PerEnd(BOOLEAN)
        /\ closeQueued' \in PerEnd(BOOLEAN)
        /\ toAgent' \in Seq(Frames(Requests)) /\ toClient' \in Seq(Frames(Replied))
    BY <1>1, <1>3 DEF Types, agentVars, sharedVars
  <2> QED  BY <1>1, <1>3, <1>5, <2>1, AgentTypes
<1>7. OnlyAgent(i) /\ Registers /\ SameSent(i) /\ SameTold(i)
  BY <1>3, <1>5 DEF OnlyAgent, Registers, SameRecord, SameSent, SameTold, callerVars,
     handleVars, agentVars, sharedVars
<1>8. /\ (Literal(i)' <=> Literal(i)) /\ ~Fresh(i)' /\ operations' = operations
      /\ relays' = relays /\ closeQueued' = closeQueued /\ candidates' = candidates
  BY <1>2, <1>3, SameOwner DEF Fresh, callerVars, agentVars, sharedVars
<1>9. SameRecord("client", i)
  BY <1>7, TwoEnds DEF OnlyAgent
<1>10. RecordSound("agent", i)' /\ AgentReady(i)'
  BY <1>1, <1>2, <1>3, <1>5, <1>7, <1>8 DEF RecordSound, AgentReady, SameSent
<1>11. ASSUME session["client"] = "up" PROVE ClientReady(i)' /\ Agreed(i)'
  <2>1. ClientReady(i) /\ Agreed(i)
    BY <1>1, <1>11 DEF StreamSound
  <2>2. Agreed(i)'
    BY <1>2, <1>5, <1>7, <1>8, <1>9, <2>1
       DEF Agreed, Row, Asked, Told, Silent, SameSent, SameTold, SameRecord, Stages
  <2>3. ClientReady(i)'
    BY <1>7, <1>9, <2>1 DEF ClientReady, SameTold, SameRecord, Told
  <2> QED  BY <2>2, <2>3
<1>12. StreamSound(i)'
  BY <1>1, <1>7, <1>10, <1>11, AgentSound
<1>13. FramesNeat' /\ ~Unborn(i)
  BY <1>1, <1>3 DEF FramesNeat, Unborn, Clean
<1>14. StreamLimit'
  <2>1. streams["agent"][i] # "none" \/ streams'["agent"][i] = "none"
    BY <1>5
  <2> QED  BY <1>6, <1>7, <1>8, <2>1, AgentLimit
<1> QED
  BY <1>6, <1>7, <1>12, <1>13, <1>14, AgentFrame

LEMMA AgentEndsStep ==
  ASSUME SessionInv, AgentEnds
  PROVE  SessionInv'
<1>1. /\ session' = [session EXCEPT !["agent"] = "ended"]
      /\ streams' = [streams EXCEPT !["agent"] = [i \in Ids |-> "none"]]
      /\ operations' = [i \in Ids |-> "none"] /\ relays' = {}
      /\ UNCHANGED <<callerVars, slots, handleVars, commands, permit>>
      /\ UNCHANGED <<candidates, highestStreamId, sharedVars, events, toAgent, toClient>>
  BY DEF AgentEnds
<1>2. Types /\ Ordered /\ FramesNeat
  BY DEF SessionInv
<1>3. /\ session' \in [Ends -> {"up", "protocolError", "ended"}]
      /\ session'["agent"] = "ended" /\ session'["client"] = session["client"]
      /\ streams' \in PerEnd(States)
      /\ \A j \in Ids : streams'["agent"][j] = "none"
                        /\ streams'["client"][j] = streams["client"][j]
  <2>1. session \in [Ends -> {"up", "protocolError", "ended"}] /\ streams \in PerEnd(States)
    BY <1>2 DEF Types
  <2> QED  BY <1>1, <2>1, TwoEnds DEF PerEnd, States
<1>4. Types'
  BY <1>1, <1>2, <1>3 DEF Types, callerVars, handleVars, sharedVars
<1>5. NoProtocolError'
  BY <1>3, TwoEnds DEF SessionInv, NoProtocolError
<1>6. /\ remoteClosed' = remoteClosed /\ closeQueued' = closeQueued /\ events' = events
      /\ candidates' = candidates /\ permit' = permit /\ id' = id
      /\ UNCHANGED <<toAgent, toClient, highestStreamId, pc, commands, nextStreamId>>
  BY <1>1 DEF sharedVars, callerVars, handleVars
<1>7. ASSUME NEW j \in Ids PROVE StreamSound(j)'
  <2>1. StreamSound(j) /\ (Literal(j)' <=> Literal(j)) /\ (Owned(j)' <=> Owned(j))
    BY <1>6, SameOwner DEF SessionInv
  <2>2. EntrySound(j)'
    BY <1>3, <1>6, <2>1 DEF StreamSound, EntrySound
  <2>3. RecordSound("client", j)' /\ RecordSound("agent", j)'
    BY <1>3, <1>6, <2>1, TwoEnds DEF StreamSound, RecordSound, Clean
  <2>4. session'["client"] = "up" => ClientReady(j)'
    BY <1>3, <1>6, <2>1 DEF StreamSound, ClientReady, Told
  <2> QED  BY <1>3, <2>2, <2>3, <2>4, TwoEnds DEF StreamSound
<1>8. \A j \in Ids : Unborn(j) => Unborn(j)'
  BY <1>1, <1>3, <1>6 DEF Unborn, Silent, Asked, Told, Clean, Fresh
<1>9. Ordered'
  BY <1>6, <1>8, AgentOrdered
<1>10. FramesNeat'
  BY <1>2, <1>3, <1>6 DEF FramesNeat
<1>11. StreamLimit'
  <2>1. Entries("client")' = Entries("client") /\ Entries("agent")' = {}
    BY <1>3 DEF Entries
  <2>2. Operations' = {} /\ relays' = {}
    BY <1>1 DEF Operations
  <2>3. Cardinality({}) = 0
    BY FS_EmptySet
  <2>4. Cardinality(Entries("client")) <= MaxStreams
    BY TwoEnds DEF SessionInv, StreamLimit
  <2> QED  BY <2>1, <2>2, <2>3, <2>4, TwoEnds DEF StreamLimit
<1> QED
  BY <1>1, <1>3, <1>4, <1>5, <1>7, <1>9, <1>10, <1>11, AgentStep DEF callerVars, handleVars

-----------------------------------------------------------------------------
(***************************************************************************)
(* The client driver's steps.                                              *)
(***************************************************************************)

\* A step of the client's driver that is about stream i.
OnlyClient(i) ==
    /\ UNCHANGED <<pc, id, holdsSlot, nextStreamId, session, operations, relays, highestStreamId>>
    /\ \A d \in Ends, j \in Ids : d # "client" \/ j # i => SameRecord(d, j)
    /\ \A j \in Ids \ {i} : permit'[j] = permit[j] /\ SameSent(j) /\ SameTold(j)
    /\ \A c \in Callers : id[c] # i => reply'[c] = reply[c]
    /\ Owned(i) \/ ~Unborn(i)
    /\ session["client"] = "up"

Pops == commands # <<>> /\ commands' = Tail(commands)

\* The command handled hands the agent a new stream.
Introducing(i) == Pops /\ Introduces(Head(commands)) /\ Head(commands).id = i

LEMMA PlacesFinite ==
  ASSUME Types
  PROVE  IsFiniteSet(1 .. Len(commands))
<1>1. commands \in Seq(Commands)
  BY DEF Types
<1>2. Len(commands) \in Int /\ 1 \in Int
  BY <1>1
<1> QED
  BY <1>2, FS_Interval

LEMMA CommandFacts ==
  ASSUME Types
  PROVE  /\ commands \in Seq(Commands) /\ Len(commands) \in Nat
         /\ \A n \in 1 .. Len(commands) : commands[n].id \in Ids /\ commands[n].permit \in BOOLEAN
                                          /\ commands[n].type \in CommandTypes
         /\ commands # <<>> => Head(commands) = commands[1] /\ 1 \in 1 .. Len(commands)
<1>1. commands \in Seq(Commands)
  BY DEF Types
<1>2. \A n \in 1 .. Len(commands) : commands[n] \in Commands
  BY <1>1, Elements
<1> QED
  BY <1>1, <1>2 DEF Commands

LEMMA Remaining ==
  ASSUME Types, commands' = commands \/ Pops
  PROVE  \A n \in 1 .. Len(commands') : \E k \in 1 .. Len(commands) :
            /\ commands'[n] = commands[k]
            /\ commands' # commands => k = n + 1
            /\ commands' = commands => k = n
            /\ Pops => k = n + 1
<1>1. CASE commands' = commands
  <2>1. ~Pops
    <3>1. commands \in Seq(Commands)
      BY DEF Types
    <3>2. ASSUME Pops PROVE FALSE
      <4>1. Len(commands') = Len(commands) - 1 /\ Len(commands) \in Nat
        BY <3>1, <3>2, Popped DEF Pops
      <4> QED  BY <1>1, <4>1
    <3> QED  BY <3>2
  <2> QED  BY <1>1, <2>1
<1>2. CASE Pops
  <2>1. commands \in Seq(Commands)
    BY DEF Types
  <2>2. /\ Len(commands) \in Nat /\ Len(commands') = Len(commands) - 1
        /\ \A n \in 1 .. Len(commands') :
              n + 1 \in 1 .. Len(commands) /\ commands'[n] = commands[n + 1]
    BY <1>2, <2>1, Popped DEF Pops
  <2>3. commands' # commands
    BY <2>2
  <2> QED  BY <2>2, <2>3
<1> QED
  BY <1>1, <1>2

LEMMA ClientOrdered ==
  ASSUME SessionInv, UNCHANGED <<pc, id, nextStreamId, highestStreamId>>,
         NEW i \in Ids, i < nextStreamId, commands' = commands \/ Pops,
         \/ toAgent' = toAgent
         \/ \E t \in Requests :
               /\ toAgent' = Append(toAgent, Frame(t, i))
               /\ ~Opens(Frame(t, i)) \/ Introducing(i),
         \A j \in Ids : j # i \/ ~Introducing(i) => (Unborn(j) => Unborn(j)')
  PROVE  Ordered'
<1>1. /\ Types /\ toAgent \in Seq(Frames(Requests)) /\ nextStreamId \in Ids
      /\ id \in [Callers -> Ids \cup {0}] /\ Ordered /\ IdsOwned
  BY DEF SessionInv, Types
<1>2. /\ \A n \in 1 .. Len(commands) : commands[n].id \in Ids
      /\ \A n \in 1 .. Len(toAgent) : toAgent[n].id \in Ids
      /\ \A c \in Callers : pc[c] = "sending" => id[c] \in Ids
  <2>1. \A n \in 1 .. Len(toAgent) : toAgent[n] \in Frames(Requests)
    BY <1>1, Elements
  <2> QED  BY <1>1, <2>1, CommandFacts DEF Frames, IdsOwned
<1>3. \A frame : Opens(frame)' <=> Opens(frame)
  BY DEF Opens, Literal
<1>4. \A x : Fresh(x)' <=> Fresh(x)
  BY DEF Fresh
<1>5. \A n \in 1 .. Len(commands') : \E k \in 1 .. Len(commands) :
         /\ commands'[n] = commands[k]
         /\ commands' # commands => k = n + 1
         /\ commands' = commands => k = n
         /\ Pops => k = n + 1
  BY <1>1, Remaining
<1>6. ASSUME NEW m \in 1 .. Len(toAgent')
      PROVE  \/ m \in 1 .. Len(toAgent) /\ toAgent'[m] = toAgent[m]
             \/ /\ m = Len(toAgent) + 1 /\ toAgent'[m].id = i
                /\ ~Opens(toAgent'[m]) \/ Introducing(i)
  <2>1. CASE toAgent' = toAgent
    BY <2>1
  <2>2. ASSUME NEW t \in Requests, toAgent' = Append(toAgent, Frame(t, i)),
               ~Opens(Frame(t, i)) \/ Introducing(i)
        PROVE  \/ m \in 1 .. Len(toAgent) /\ toAgent'[m] = toAgent[m]
               \/ /\ m = Len(toAgent) + 1 /\ toAgent'[m].id = i
                  /\ ~Opens(toAgent'[m]) \/ Introducing(i)
    <3>1. Frame(t, i) \in Frames(Requests) /\ Frame(t, i).id = i
      BY DEF Frame, Frames
    <3>2. /\ toAgent'[Len(toAgent) + 1] = Frame(t, i)
          /\ \A n \in 1 .. Len(toAgent) : toAgent'[n] = toAgent[n]
          /\ \A n \in 1 .. Len(toAgent') : n \in 1 .. Len(toAgent) \/ n = Len(toAgent) + 1
      BY <1>1, <2>2, <3>1, Appended
    <3> QED  BY <2>2, <3>1, <3>2
  <2> QED  BY <2>1, <2>2
<1>7. Introducing(i) =>
         /\ 1 \in 1 .. Len(commands) /\ commands[1].id = i /\ Introduces(commands[1])
         /\ Fresh(i)
         /\ \A m \in 1 .. Len(toAgent) : Opens(toAgent[m]) => toAgent[m].id < i
         /\ \A c \in Callers : pc[c] = "sending" => i < id[c]
         /\ \A k \in 1 .. Len(commands) : 1 < k /\ Introduces(commands[k]) => i < commands[k].id
  BY <1>1, CommandFacts DEF Introducing, Ordered, Pops, Unborn
<1>8. Len(toAgent) \in Nat /\ Len(commands) \in Nat /\ \A j \in Ids : j \in Nat
  BY <1>1, CommandFacts, IdsAreNumbers
<1>9. ASSUME NEW m \in 1 .. Len(toAgent'), NEW n \in 1 .. Len(toAgent'), m < n,
             Opens(toAgent'[m]), Opens(toAgent'[n])
      PROVE  toAgent'[m].id < toAgent'[n].id
  <2>1. m \in 1 .. Len(toAgent) /\ toAgent'[m] = toAgent[m]
    <3>1. n <= Len(toAgent) + 1
      BY <1>6, <1>8
    <3> QED  BY <1>6, <1>8, <1>9, <3>1
  <2>2. CASE n \in 1 .. Len(toAgent) /\ toAgent'[n] = toAgent[n]
    BY <1>1, <1>9, <2>1, <2>2 DEF Ordered
  <2>3. CASE n = Len(toAgent) + 1 /\ toAgent'[n].id = i /\ Introducing(i)
    BY <1>7, <1>9, <2>1, <2>3
  <2> QED  BY <1>6, <1>9, <2>2, <2>3
<1>10. ASSUME NEW m \in 1 .. Len(commands'), NEW n \in 1 .. Len(commands'), m < n,
              Introduces(commands'[m]), Introduces(commands'[n])
       PROVE  commands'[m].id < commands'[n].id
  <2>1. PICK k \in 1 .. Len(commands), l \in 1 .. Len(commands) :
           commands'[m] = commands[k] /\ commands'[n] = commands[l] /\ k < l
    BY <1>5, <1>8, <1>10
  <2> QED  BY <1>1, <1>10, <2>1 DEF Ordered
<1>11. ASSUME NEW n \in 1 .. Len(commands'), Introduces(commands'[n])
       PROVE  /\ Unborn(commands[n].id)'
              /\ \A m \in 1 .. Len(toAgent') : Opens(toAgent'[m]) => toAgent'[m].id < commands'[n].id
              /\ \A c \in Callers : pc[c] = "sending" => commands'[n].id < id[c]
  <2>1. PICK k \in 1 .. Len(commands) : commands'[n] = commands[k] /\ (Pops => k = n + 1)
    BY <1>5
  <2>2. /\ Unborn(commands[k].id) /\ commands[k].id \in Ids
        /\ \A m \in 1 .. Len(toAgent) : Opens(toAgent[m]) => toAgent[m].id < commands[k].id
        /\ \A c \in Callers : pc[c] = "sending" => commands[k].id < id[c]
    BY <1>1, <1>2, <1>11, <2>1 DEF Ordered
  <2>3. Introducing(i) => i < commands[k].id
    <3>1. Introducing(i) => 1 < k
      BY <2>1 DEF Introducing
    <3> QED  BY <1>7, <1>11, <2>1, <3>1
  <2>4. PICK x \in Ids : x = commands[k].id
    BY <2>2
  <2>5. Unborn(x)'
    BY <1>8, <2>2, <2>3, <2>4
  <2>6. Unborn(commands[n].id)'
    BY <2>1, <2>4, <2>5
  <2>7. \A m \in 1 .. Len(toAgent') : Opens(toAgent'[m]) => toAgent'[m].id < commands'[n].id
    BY <1>6, <2>1, <2>2, <2>3
  <2> QED  BY <2>1, <2>2, <2>6, <2>7
<1>12. ASSUME NEW c \in Callers, pc[c] = "sending"
       PROVE  /\ Unborn(id[c])'
              /\ \A m \in 1 .. Len(toAgent') : Opens(toAgent'[m]) => toAgent'[m].id < id[c]
  <2>1. /\ Unborn(id[c]) /\ id[c] \in Ids /\ (Introducing(i) => i < id[c])
        /\ \A m \in 1 .. Len(toAgent) : Opens(toAgent[m]) => toAgent[m].id < id[c]
    BY <1>1, <1>2, <1>7, <1>12 DEF Ordered
  <2>2. PICK x \in Ids : x = id[c]
    BY <2>1
  <2>3. Unborn(x)'
    BY <1>8, <2>1, <2>2
  <2> QED  BY <1>6, <2>1, <2>2, <2>3
<1>13. \A j \in Ids : j >= nextStreamId => Unborn(j)'
  BY <1>1, <1>8 DEF Ordered
<1>14. \A m \in 1 .. Len(toAgent') :
          toAgent'[m].id < nextStreamId /\ (Opens(toAgent'[m]) => Fresh(toAgent'[m].id))
  BY <1>1, <1>6, <1>7 DEF Ordered
<1> QED
  BY <1>3, <1>4, <1>9, <1>10, <1>11, <1>12, <1>13, <1>14 DEF Ordered

LEMMA Shifted ==
  ASSUME NEW S \in SUBSET (Nat \ {0}), IsFiniteSet(S), NEW T \in SUBSET Nat,
         \A n \in Nat : n \in T <=> n + 1 \in S
  PROVE  Cardinality(T) = Cardinality(S)
<1> DEFINE f == [n \in S |-> n - 1]
<1>1. f \in [S -> T]
  <2> SUFFICES ASSUME NEW n \in S PROVE n - 1 \in T
    OBVIOUS
  <2>1. n - 1 \in Nat /\ (n - 1) + 1 = n
    OBVIOUS
  <2> QED  BY <2>1
<1>2. \A a, b \in S : f[a] = f[b] => a = b
  OBVIOUS
<1>3. \A t \in T : \E s \in S : f[s] = t
  <2> SUFFICES ASSUME NEW t \in T PROVE \E s \in S : f[s] = t
    OBVIOUS
  <2>1. t + 1 \in S /\ f[t + 1] = t
    OBVIOUS
  <2> QED  BY <2>1
<1> HIDE DEF f
<1>4. f \in Bijection(S, T)
  BY <1>1, <1>2, <1>3, Fun_IsBij
<1>5. ExistsBijection(S, T)
  BY <1>4 DEF ExistsBijection
<1> QED
  BY <1>5, FS_Bijection

LEMMA PoppedPermits ==
  ASSUME Types, Pops
  PROVE  /\ Cardinality(CommandPermits) \in Nat /\ Cardinality(CommandPermits') \in Nat
         /\ Cardinality(CommandPermits') + Count(Head(commands).permit)
              = Cardinality(CommandPermits)
<1>1. /\ commands \in Seq(Commands) /\ Len(commands) \in Nat /\ Len(commands) > 0
      /\ Head(commands) = commands[1] /\ Len(commands') = Len(commands) - 1
      /\ \A n \in 1 .. Len(commands') :
            n + 1 \in 1 .. Len(commands) /\ commands'[n] = commands[n + 1]
  <2>1. commands \in Seq(Commands) /\ commands # <<>> /\ commands' = Tail(commands)
    BY DEF Types, Pops
  <2> QED  BY <2>1, Popped
<1> DEFINE A == CommandPermits
           B == CommandPermits'
           A1 == A \ {1}
<1>2. /\ A \in SUBSET (1 .. Len(commands)) /\ (1 \in A <=> commands[1].permit)
      /\ A1 \in SUBSET (Nat \ {0}) /\ B \in SUBSET Nat
  BY <1>1 DEF CommandPermits
<1>3. ASSUME NEW n \in Nat PROVE n \in B <=> n + 1 \in A1
  <2>1. CASE n \in 1 .. Len(commands')
    BY <1>1, <2>1 DEF CommandPermits
  <2>2. CASE n \notin 1 .. Len(commands')
    <3>1. n + 1 \notin 1 .. Len(commands) \/ n + 1 = 1
      BY <1>1, <2>2
    <3> QED  BY <2>2, <3>1 DEF CommandPermits
  <2> QED  BY <2>1, <2>2
<1>4. IsFiniteSet(A) /\ Cardinality(A) \in Nat /\ IsFiniteSet(A1)
  <2>1. IsFiniteSet(1 .. Len(commands))
    BY PlacesFinite
  <2> HIDE DEF A
  <2>2. IsFiniteSet(A) /\ Cardinality(A) \in Nat
    BY <1>2, <2>1, FS_Subset, FS_CardinalityType
  <2> QED  BY <2>2, FS_Subset
<1> HIDE DEF A, B
<1>5. Cardinality(B) = Cardinality(A1)
  BY <1>2, <1>3, <1>4, Shifted
<1>6. Cardinality(A1) = Cardinality(A) - Count(1 \in A)
  <2>1. CASE 1 \in A
    <3>1. Cardinality(A1) = Cardinality(A) - 1
      BY <1>4, <2>1, FS_RemoveElement
    <3> QED  BY <2>1, <3>1 DEF Count
  <2>2. CASE 1 \notin A
    <3>1. A1 = A
      BY <2>2
    <3> QED  BY <1>4, <2>2, <3>1 DEF Count
  <2> QED  BY <2>1, <2>2
<1>7. Cardinality(A1) \in Nat
  BY <1>4, FS_CardinalityType
<1>8. Count(1 \in A) = Count(Head(commands).permit)
  BY <1>1, <1>2 DEF Count
<1>9. Count(1 \in A) \in Nat
  BY Counts
<1>10. /\ Cardinality(A) \in Nat /\ Cardinality(B) \in Nat
       /\ Cardinality(B) + Count(Head(commands).permit) = Cardinality(A)
  BY <1>4, <1>5, <1>6, <1>7, <1>8, <1>9
<1> QED
  BY <1>10 DEF A, B

\* The permits a step of the client's driver moves, and where to.
LEMMA ClientAccounted ==
  ASSUME SessionInv, Types', NEW i \in Ids, OnlyClient(i), NEW o \in Callers, id[o] = i,
         EntrySound(i)',
         \/ /\ commands' = commands
            /\ slots' + Count(reply'[o].permit) + Count(permit'[i])
                 = slots + Count(reply[o].permit) + Count(permit[i])
         \/ /\ Pops
            /\ slots' + Count(reply'[o].permit) + Count(permit'[i])
                 = slots + Count(reply[o].permit) + Count(permit[i])
                     + Count(Head(commands).permit)
  PROVE  PermitsAccounted'
<1>1. Types /\ IdsOwned /\ PermitsAccounted /\ \A j \in Ids : StreamSound(j)
  BY DEF SessionInv
<1>2. Permits' = Permits
  BY DEF OnlyClient, Permits
<1>3. /\ Cardinality(ReplyPermits) \in Nat /\ Cardinality(ReplyPermits') \in Nat
      /\ Cardinality(ReplyPermits') + Count(reply[o].permit)
           = Cardinality(ReplyPermits) + Count(reply'[o].permit)
  <2> DEFINE A == ReplyPermits
             B == ReplyPermits'
  <2>1. A \in SUBSET Callers /\ B \in SUBSET Callers
    BY DEF ReplyPermits
  <2>2. \A c \in Callers : c # o => reply'[c] = reply[c]
    <3>1. i # 0
      BY IdsAreNumbers
    <3> QED  BY <1>1, <3>1 DEF OnlyClient, IdsOwned
  <2>3. \A y : y # o => (y \in B <=> y \in A)
    BY <2>2 DEF ReplyPermits
  <2>4. (o \in A <=> reply[o].permit) /\ (o \in B <=> reply'[o].permit)
    BY DEF ReplyPermits
  <2> HIDE DEF A, B
  <2>5. /\ Cardinality(A) \in Nat /\ Cardinality(B) \in Nat
        /\ Cardinality(B) + Count(o \in A) = Cardinality(A) + Count(o \in B)
    BY <2>1, <2>3, OneDiffers, CallersAssumption
  <2>6. Count(o \in A) = Count(reply[o].permit) /\ Count(o \in B) = Count(reply'[o].permit)
    BY <2>4 DEF Count
  <2> QED  BY <2>5, <2>6 DEF A, B
<1>4. /\ Cardinality(EntryPermits) \in Nat /\ Cardinality(EntryPermits') \in Nat
      /\ Cardinality(EntryPermits') + Count(permit[i])
           = Cardinality(EntryPermits) + Count(permit'[i])
  <2> DEFINE A == EntryPermits
             B == EntryPermits'
  <2>1. A \in SUBSET Ids /\ B \in SUBSET Ids /\ \A y : y # i => (y \in B <=> y \in A)
    BY DEF EntryPermits, OnlyClient
  <2>2. (i \in A <=> permit[i]) /\ (i \in B <=> permit'[i])
    BY DEF EntryPermits
  <2> HIDE DEF A, B
  <2>3. /\ Cardinality(A) \in Nat /\ Cardinality(B) \in Nat
        /\ Cardinality(B) + Count(i \in A) = Cardinality(A) + Count(i \in B)
    BY ZenonT(40), <2>1, OneDiffers, IdsAreNumbers
  <2>4. Count(i \in A) = Count(permit[i]) /\ Count(i \in B) = Count(permit'[i])
    BY <2>2 DEF Count
  <2> QED  BY <2>3, <2>4 DEF A, B
<1>5. /\ slots + Cardinality(Permits) + Cardinality(ReplyPermits)
           + Cardinality(CommandPermits) + Cardinality(EntryPermits) = MaxStreams
      /\ Cardinality(Permits) \in Nat /\ slots \in Nat /\ slots' \in Nat
      /\ Cardinality(CommandPermits) \in Nat
  <2>1. IsFiniteSet(Permits)
    BY FS_Subset, CallersAssumption DEF Permits
  <2>2. IsFiniteSet(CommandPermits)
    <3>1. IsFiniteSet(1 .. Len(commands))
      BY <1>1, PlacesFinite
    <3> QED  BY <3>1, FS_Subset DEF CommandPermits
  <2> QED  BY <1>1, <2>1, <2>2, FS_CardinalityType DEF PermitsAccounted, Types
<1>6. /\ Count(reply[o].permit) \in Nat /\ Count(reply'[o].permit) \in Nat
      /\ Count(permit[i]) \in Nat /\ Count(permit'[i]) \in Nat
      /\ Count(Head(commands).permit) \in Nat
  BY Counts
<1>7. slots' + Cardinality(Permits') + Cardinality(ReplyPermits')
        + Cardinality(CommandPermits') + Cardinality(EntryPermits') = MaxStreams
  <2>1. CASE /\ commands' = commands
             /\ slots' + Count(reply'[o].permit) + Count(permit'[i])
                  = slots + Count(reply[o].permit) + Count(permit[i])
    <3>1. CommandPermits' = CommandPermits
      BY <2>1 DEF CommandPermits
    <3> QED  BY <1>2, <1>3, <1>4, <1>5, <1>6, <2>1, <3>1
  <2>2. CASE /\ Pops
             /\ slots' + Count(reply'[o].permit) + Count(permit'[i])
                  = slots + Count(reply[o].permit) + Count(permit[i])
                      + Count(Head(commands).permit)
    <3>1. /\ Cardinality(CommandPermits') \in Nat
          /\ Cardinality(CommandPermits') + Count(Head(commands).permit)
               = Cardinality(CommandPermits)
      BY <1>1, <2>2, PoppedPermits
    <3> QED  BY <1>2, <1>3, <1>4, <1>5, <1>6, <2>2, <3>1
  <2> QED  BY <2>1, <2>2
<1>8. ASSUME NEW j \in Ids, streams'["client"][j] \in {"Opening", "Open"} PROVE permit'[j]
  <2>1. CASE j = i
    BY <1>8, <2>1 DEF EntrySound
  <2>2. CASE j # i
    <3>1. streams'["client"][j] = streams["client"][j] /\ permit'[j] = permit[j]
      BY <2>2, TwoEnds DEF OnlyClient, SameRecord
    <3> QED  BY <1>1, <1>8, <3>1 DEF StreamSound, EntrySound
  <2> QED  BY <2>1, <2>2
<1> QED
  BY <1>7, <1>8 DEF PermitsAccounted

\* Nobody else waits on stream i: no request for it is queued.
Unasked(i) == \A n \in 1 .. Len(commands) : commands[n].id = i => ~Asks(commands[n])

LEMMA BusyUnasked ==
  ASSUME SessionInv, NEW o \in Callers, id[o] \in Ids,
         streams["client"][id[o]] \in {"Resolving", "Opening"}, commands' = commands \/ Pops
  PROVE  /\ Unasked(id[o])
         /\ \A n \in 1 .. Len(commands') : commands'[n].id = id[o] => ~Asks(commands'[n])
<1>1. Types /\ Waiting(o)
  BY DEF SessionInv, CallersSound
<1>2. Unasked(id[o])
  BY <1>1 DEF Waiting, Unasked
<1>3. \A n \in 1 .. Len(commands') : \E k \in 1 .. Len(commands) : commands'[n] = commands[k]
  BY <1>1, Remaining
<1> QED
  BY <1>2, <1>3 DEF Unasked

LEMMA PoppedUnasked ==
  ASSUME SessionInv, Pops, Asks(Head(commands))
  PROVE  \A n \in 1 .. Len(commands') :
            commands'[n].id = Head(commands).id => ~Asks(commands'[n])
<1>1. Types /\ AsksOnce
  BY DEF SessionInv
<1>2. Head(commands) = commands[1] /\ 1 \in 1 .. Len(commands)
  BY <1>1, CommandFacts DEF Pops
<1> SUFFICES ASSUME NEW n \in 1 .. Len(commands'), commands'[n].id = Head(commands).id,
                    Asks(commands'[n])
             PROVE  FALSE
  OBVIOUS
<1>3. PICK k \in 1 .. Len(commands) : commands'[n] = commands[k] /\ k = n + 1
  BY <1>1, Remaining
<1>4. k = 1
  BY <1>1, <1>2, <1>3 DEF AsksOnce
<1> QED
  BY <1>3, <1>4

LEMMA WaitingKept ==
  ASSUME Types, NEW o \in Callers, Waiting(o), commands' = commands \/ Pops,
         pc'[o] = pc[o], id' = id, reply'[o] = reply[o],
         id[o] # 0 => \/ streams'["client"][id[o]] = streams["client"][id[o]]
                      \/ streams'["client"][id[o]] \notin {"Resolving", "Opening"}
  PROVE  Waiting(o)'
<1>1. \A n \in 1 .. Len(commands') : \E k \in 1 .. Len(commands) : commands'[n] = commands[k]
  BY Remaining
<1>2. \A n \in 1 .. Len(commands) : commands[n].id # 0
  BY CommandFacts, IdsAreNumbers
<1> QED
  BY <1>1, <1>2 DEF Waiting, Awaits, Asks

LEMMA ClientFrame ==
  ASSUME SessionInv, Types', NEW i \in Ids, OnlyClient(i), commands' = commands \/ Pops,
         \/ toAgent' = toAgent
         \/ \E t \in Requests :
               /\ toAgent' = Append(toAgent, Frame(t, i))
               /\ ~Opens(Frame(t, i)) \/ Introducing(i),
         Unborn(i) => Same(i) \/ Introducing(i),
         StreamSound(i)', FramesNeat', StreamLimit', PermitsAccounted',
         \A o \in Callers : id[o] = i => Waiting(o)' /\ Permitted(o)'
  PROVE  SessionInv'
<1>1. /\ Types /\ IdsOwned /\ CommandsSound /\ AsksOnce /\ CallersSound
      /\ Len(commands) <= CommandCapacity /\ Len(commands) \in Nat
      /\ UNCHANGED <<pc, id, holdsSlot, nextStreamId, session, highestStreamId>>
  BY CommandFacts DEF SessionInv, OnlyClient
<1>2. ASSUME NEW j \in Ids \ {i} PROVE Same(j)
  <2>1. Fresh(j)' => Fresh(j)
    BY <1>1 DEF Fresh
  <2>2. SameRecord("client", j) /\ SameRecord("agent", j)
    BY TwoEnds DEF OnlyClient
  <2>3. permit'[j] = permit[j] /\ operations' = operations /\ SameSent(j) /\ SameTold(j)
    BY DEF OnlyClient
  <2> QED  BY <2>1, <2>2, <2>3 DEF Same, SameClient, SameAgent
<1>3. \A j \in Ids : StreamSound(j)'
  <2> SUFFICES ASSUME NEW j \in Ids \ {i} PROVE StreamSound(j)'
    OBVIOUS
  <2>1. Same(j) /\ StreamSound(j)
    BY <1>2 DEF SessionInv
  <2> QED  BY <1>1, <2>1, Untouched
<1>4. i < nextStreamId
  <2>1. CASE Owned(i)
    <3>1. PICK c \in Callers : id[c] = i
      BY <2>1 DEF Owned
    <3> QED  BY <1>1, <3>1, IdsAreNumbers DEF IdsOwned
  <2>2. CASE ~Unborn(i)
    <3>1. ~(i >= nextStreamId)
      BY <2>2 DEF SessionInv, Ordered
    <3>2. i \in Nat /\ nextStreamId \in Nat
      BY <1>1, IdsAreNumbers DEF Types
    <3> QED  BY <3>1, <3>2
  <2> QED  BY <2>1, <2>2 DEF OnlyClient
<1>5. Ordered'
  <2>1. \A j \in Ids : Fresh(j)' <=> Fresh(j)
    BY <1>1 DEF Fresh
  <2>2. \A j \in Ids : j # i \/ ~Introducing(i) => (Unborn(j) => Unborn(j)')
    <3> SUFFICES ASSUME NEW j \in Ids, j # i \/ ~Introducing(i), Unborn(j) PROVE Unborn(j)'
      OBVIOUS
    <3>1. Same(j) /\ Fresh(j)'
      BY <1>2, <2>1 DEF Unborn
    <3> QED  BY <3>1, StaysUnborn
  <2> QED  BY <1>1, <1>4, <2>2, ClientOrdered
<1>6. \A n \in 1 .. Len(commands') : \E k \in 1 .. Len(commands) :
         commands'[n] = commands[k] /\ (Pops => k = n + 1) /\ (commands' = commands => k = n)
  BY <1>1, Remaining
<1>7. \A j : (Literal(j)' <=> Literal(j)) /\ (Owned(j)' <=> Owned(j))
  BY <1>1, SameOwner
<1>8. CommandsSound'
  BY <1>1, <1>6, <1>7 DEF CommandsSound
<1>9. AsksOnce'
  <2> SUFFICES ASSUME NEW m \in 1 .. Len(commands'), NEW n \in 1 .. Len(commands'),
                      Asks(commands'[m]), Asks(commands'[n]), commands'[m].id = commands'[n].id
               PROVE  m = n
    BY DEF AsksOnce
  <2>1. PICK k \in 1 .. Len(commands), l \in 1 .. Len(commands) :
           /\ commands'[m] = commands[k] /\ commands'[n] = commands[l]
           /\ (k = m + 1 /\ l = n + 1) \/ (k = m /\ l = n)
    BY <1>6
  <2>2. k = l
    BY <1>1, <2>1 DEF AsksOnce
  <2>3. m \in Int /\ n \in Int
    OBVIOUS
  <2> QED  BY <2>1, <2>2, <2>3
<1>10. Len(commands') <= CommandCapacity
  <2>1. CASE Pops
    <3>1. commands \in Seq(Commands)
      BY <1>1 DEF Types
    <3>2. Len(commands') = Len(commands) - 1
      BY <2>1, <3>1, Popped DEF Pops
    <3> QED  BY <1>1, <3>2
  <2> QED  BY <1>1, <2>1
<1>11. ASSUME NEW c \in Callers PROVE Waiting(c)' /\ Permitted(c)'
  <2>1. CASE id[c] = i
    BY <2>1
  <2>2. CASE id[c] # i
    <3>1. Waiting(c) /\ Permitted(c) /\ reply'[c] = reply[c]
      BY <1>1, <2>2 DEF CallersSound, OnlyClient
    <3>2. id[c] # 0 => streams'["client"][id[c]] = streams["client"][id[c]]
      BY <1>1, <2>2, TwoEnds DEF OnlyClient, SameRecord, Types
    <3>3. Waiting(c)'
      BY <1>1, <3>1, <3>2, WaitingKept
    <3>4. Permitted(c)'
      BY <1>1, <3>1 DEF Permitted
    <3> QED  BY <3>3, <3>4
  <2> QED  BY <2>1, <2>2
<1>12. IdsOwned' /\ EndedEmpty' /\ NoProtocolError'
  BY <1>1 DEF IdsOwned, EndedEmpty, NoProtocolError, SessionInv, OnlyClient
<1> QED
  BY <1>3, <1>5, <1>8, <1>9, <1>10, <1>11, <1>12 DEF SessionInv, CallersSound

LEMMA ClientSound ==
  ASSUME NEW i \in Ids, StreamSound(i), OnlyClient(i),
         EntrySound(i)', RecordSound("client", i)', ClientReady(i)',
         session["agent"] = "up" => AgentReady(i)' /\ Agreed(i)'
  PROVE  StreamSound(i)'
<1>1. SameRecord("agent", i) /\ session' = session
  BY TwoEnds DEF OnlyClient
<1>2. RecordSound("agent", i)'
  BY <1>1, TwoEnds DEF StreamSound, RecordSound, SameRecord, Clean
<1> QED
  BY <1>1, <1>2, TwoEnds DEF StreamSound

LEMMA ClientLimit ==
  ASSUME SessionInv, Types', NEW i \in Ids, OnlyClient(i),
         \/ streams["client"][i] # "none"
         \/ streams'["client"][i] = "none"
         \/ Cardinality(Entries("client")) < MaxStreams
  PROVE  StreamLimit'
<1>1. /\ Cardinality(Entries("client")) <= MaxStreams
      /\ Cardinality(Entries("agent")) <= MaxStreams
      /\ Cardinality(relays) + Cardinality(Operations) <= MaxStreams
  BY TwoEnds DEF SessionInv, StreamLimit
<1>2. Entries("agent")' = Entries("agent")
  BY TwoEnds DEF OnlyClient, SameRecord, Entries
<1>3. Cardinality(Entries("client")') <= MaxStreams
  <2> DEFINE A == Entries("client")
             B == Entries("client")'
  <2>1. /\ A \in SUBSET Ids /\ B \in SUBSET Ids
        /\ \A y : y # i => (y \in B <=> y \in A)
    BY TwoEnds DEF Entries, OnlyClient, SameRecord
  <2>2. i \in A \/ i \notin B \/ Cardinality(A) < MaxStreams
    BY DEF Entries
  <2>3. Cardinality(A) <= MaxStreams
    BY <1>1
  <2> HIDE DEF A, B
  <2>4. /\ Cardinality(A) \in Nat /\ Cardinality(B) \in Nat
        /\ Cardinality(B) + Count(i \in A) = Cardinality(A) + Count(i \in B)
    BY <2>1, OneDiffers, IdsAreNumbers
  <2>5. Cardinality(B) <= MaxStreams
    BY <2>2, <2>3, <2>4 DEF Count
  <2> QED  BY <2>5 DEF B
<1>4. Operations' = Operations /\ relays' = relays
  BY DEF OnlyClient, Operations
<1> QED
  BY <1>1, <1>2, <1>3, <1>4, TwoEnds DEF StreamLimit

LEMMA ClientTypes ==
  ASSUME Types, UNCHANGED CallerSide, UNCHANGED agentVars, UNCHANGED session,
         reply' \in [Callers -> Replies], slots' \in Nat, commands' = commands \/ Pops,
         streams' \in PerEnd(States), candidates' \in PerEnd(BOOLEAN),
         permit' \in [Ids -> BOOLEAN],
         dropped' \in PerEnd(BOOLEAN), remoteClosed' \in PerEnd(BOOLEAN),
         closeQueued' \in PerEnd(BOOLEAN),
         events' \in PerEnd({"none", "Stopped", "LocalCloseQueued"}),
         toAgent' \in Seq(Frames(Requests)), toClient' \in Seq(Frames(Replied))
  PROVE  Types'
<1>1. commands' \in Seq(Commands)
  <2>1. commands \in Seq(Commands)
    BY DEF Types
  <2>2. CASE Pops
    BY <2>1, <2>2, Popped DEF Pops
  <2> QED  BY <2>1, <2>2
<1> QED
  BY <1>1 DEF Types, CallerSide, agentVars

LEMMA Answered ==
  ASSUME Types, IdsOwned, NEW o \in Callers, id[o] \in Ids,
         NEW kind \in {"ok", "remote", "error"}, NEW p \in BOOLEAN, Answer(id[o], kind, p)
  PROVE  /\ reply' \in [Callers -> Replies]
         /\ \A c \in Callers : id[c] # id[o] => reply'[c] = reply[c]
         /\ Listening(o) => reply'[o].kind = kind /\ reply'[o].permit = p
         /\ ~Listening(o) => reply'[o] = reply[o]
<1>1. reply' \in [Callers -> Replies]
  BY AnswerTypes
<1>2. Owner(id[o]) = o
  BY OwnerIs, IdsAreNumbers
<1>3. reply \in [Callers -> Replies]
  BY DEF Types
<1>4. /\ Listening(o) => reply' = [reply EXCEPT ![o] = [kind |-> kind, permit |-> p]]
      /\ ~Listening(o) => reply' = reply
  BY <1>2 DEF Answer
<1> QED
  BY <1>1, <1>3, <1>4

\* An answer leaves the caller's account as it should be.
LEMMA PermittedAnswer ==
  ASSUME Types, NEW o \in Callers, Permitted(o), UNCHANGED <<pc, holdsSlot>>,
         ~Listening(o) => reply'[o] = reply[o],
         Listening(o) =>
            /\ reply'[o].permit => pc[o] = "opening" /\ reply'[o].kind \in {"remote", "error"}
            /\ reply'[o].kind = "remote" /\ pc[o] = "opening" /\ o \in Resolvers =>
                  reply'[o].permit
  PROVE  Permitted(o)' /\ (Listening(o) => ~reply[o].permit)
  BY DEF Permitted, Listening

LEMMA WaitingAnswer ==
  ASSUME SessionInv, NEW o \in Callers, id[o] \in Ids, id' = id,
         \A n \in 1 .. Len(commands') : commands'[n].id = id[o] => ~Asks(commands'[n]),
         streams'["client"][id[o]] \notin {"Resolving", "Opening"}
  PROVE  Waiting(o)'
  BY DEF Waiting, Asks

LEMMA HeadCommand ==
  ASSUME SessionInv, NEW type, Command(type)
  PROVE  \E i \in Ids, o \in Callers :
            /\ Head(commands).id = i /\ Head(commands).type = type /\ id[o] = i
            /\ Owned(i) /\ Pops /\ session["client"] = "up"
            /\ Waiting(o) /\ Permitted(o) /\ StreamSound(i)
            /\ (Head(commands).permit <=> type \in {"Open", "OpenIp"})
            /\ type = "Resolve" => ~Literal(i) /\ Awaits(o, "resolving")
            /\ type = "OpenIp" => Literal(i)
            /\ type \in {"Open", "OpenIp"} => Awaits(o, "opening")
            /\ type \in {"Resolve", "OpenIp"} => Unborn(i) /\ Introducing(i)
            /\ type \in {"Resolve", "Open", "OpenIp"} =>
                  /\ Asks(Head(commands))
                  /\ streams["client"][i] \notin {"Resolving", "Opening"}
            /\ \A c \in Callers : id[c] = i => c = o
<1>1. /\ Types /\ IdsOwned /\ CommandsSound /\ CallersSound /\ Ordered /\ Pops
      /\ session["client"] = "up" /\ Head(commands).type = type
  BY DEF SessionInv, Command, Pops
<1>2. Head(commands) = commands[1] /\ 1 \in 1 .. Len(commands) /\ commands[1].id \in Ids
  BY <1>1, CommandFacts DEF Pops
<1>3. PICK i \in Ids : i = commands[1].id
  BY <1>2
<1>4. PICK o \in Callers : id[o] = i
  BY <1>1, <1>2, <1>3 DEF CommandsSound, Owned
<1>5. \A c \in Callers : id[c] = i => c = o
  BY <1>1, <1>4, IdsAreNumbers DEF IdsOwned
<1>6. Waiting(o) /\ Permitted(o) /\ StreamSound(i) /\ Owned(i)
  BY <1>1, <1>4 DEF CallersSound, SessionInv, Owned
<1>7. /\ (Head(commands).permit <=> type \in {"Open", "OpenIp"})
      /\ type = "Resolve" => ~Literal(i)
      /\ type = "OpenIp" => Literal(i)
  BY <1>1, <1>2, <1>3 DEF CommandsSound
<1>8. /\ type = "Resolve" => Awaits(o, "resolving")
      /\ type \in {"Open", "OpenIp"} => Awaits(o, "opening")
      /\ type \in {"Resolve", "Open", "OpenIp"} =>
            /\ Asks(Head(commands))
            /\ streams["client"][i] \notin {"Resolving", "Opening"}
  BY <1>1, <1>2, <1>3, <1>4, <1>6 DEF Waiting, Asks
<1>9. type \in {"Resolve", "OpenIp"} => Unborn(i) /\ Introducing(i)
  BY <1>1, <1>2, <1>3 DEF Ordered, Introduces, Introducing
<1> QED
  BY <1>1, <1>2, <1>3, <1>4, <1>5, <1>6, <1>7, <1>8, <1>9

LEMMA CommandResolveStep ==
  ASSUME SessionInv, CommandResolve
  PROVE  SessionInv'
<1>1. Types /\ IdsOwned /\ FramesNeat /\ Command("Resolve")
  BY DEF SessionInv, CommandResolve
<1>2. PICK i \in Ids, o \in Callers :
        /\ Head(commands).id = i /\ id[o] = i /\ Owned(i) /\ Pops /\ session["client"] = "up"
        /\ Waiting(o) /\ Permitted(o) /\ StreamSound(i) /\ ~Head(commands).permit
        /\ ~Literal(i) /\ Awaits(o, "resolving") /\ Unborn(i) /\ Introducing(i)
        /\ Asks(Head(commands)) /\ \A c \in Callers : id[c] = i => c = o
  BY <1>1, HeadCommand
<1>3. streams["client"][i] = "none" /\ i \notin Entries("client")
  BY <1>2 DEF Unborn, Entries
<1>4. /\ \/ /\ Answer(i, "error", FALSE) /\ streams' = streams /\ toAgent' = toAgent
         \/ /\ Cardinality(Entries("client")) < MaxStreams
            /\ Become("client", i, "Resolving") /\ ToAgent("RESOLVE", i) /\ reply' = reply
      /\ session' = session
      /\ UNCHANGED <<slots, candidates, permit, remoteClosed, closeQueued>>
      /\ UNCHANGED <<pc, id, holdsSlot, opens, handleVars, agentVars, dropped, events, toClient>>
  BY <1>2, <1>3 DEF CommandResolve, Command
<1>5. /\ UNCHANGED CallerSide /\ candidates' \in PerEnd(BOOLEAN) /\ permit' \in [Ids -> BOOLEAN]
      /\ dropped' \in PerEnd(BOOLEAN) /\ remoteClosed' \in PerEnd(BOOLEAN)
      /\ closeQueued' \in PerEnd(BOOLEAN) /\ slots' \in Nat
      /\ events' \in PerEnd({"none", "Stopped", "LocalCloseQueued"})
      /\ toClient' \in Seq(Frames(Replied))
  BY <1>1, <1>4 DEF Types, CallerSide, handleVars
<1>6. Waiting(o)' /\ Permitted(o)' =>
        \A c \in Callers : id[c] = i => Waiting(c)' /\ Permitted(c)'
  BY <1>2
<1>7. CASE Answer(i, "error", FALSE) /\ streams' = streams /\ toAgent' = toAgent
  <2>1. /\ reply' \in [Callers -> Replies]
        /\ \A c \in Callers : id[c] # i => reply'[c] = reply[c]
        /\ Listening(o) => reply'[o].kind = "error" /\ reply'[o].permit = FALSE
        /\ ~Listening(o) => reply'[o] = reply[o]
    BY <1>1, <1>2, <1>7, Answered
  <2>2. Types'
    <3>1. streams' \in PerEnd(States) /\ toAgent' \in Seq(Frames(Requests))
      BY <1>1, <1>7 DEF Types
    <3> QED  BY <1>1, <1>2, <1>4, <1>5, <2>1, <3>1, ClientTypes
  <2>3. OnlyClient(i) /\ Same(i)
    BY <1>2, <1>4, <1>7, <2>1 DEF OnlyClient, Same, SameClient, SameAgent, SameRecord, SameSent,
       SameTold, Fresh, handleVars, agentVars
  <2>4. StreamSound(i)'
    BY <1>2, <1>4, <2>3, Untouched
  <2>5. Permitted(o)' /\ (Listening(o) => ~reply[o].permit)
    BY <1>1, <1>2, <1>4, <2>1, PermittedAnswer
  <2>6. Waiting(o)'
    <3>1. \A n \in 1 .. Len(commands') : commands'[n].id = i => ~Asks(commands'[n])
      BY <1>2, PoppedUnasked
    <3> QED  BY <1>2, <1>3, <1>4, <1>7, <3>1, WaitingAnswer
  <2>7. PermitsAccounted'
    <3>1. Count(reply'[o].permit) = Count(reply[o].permit) /\ Count(Head(commands).permit) = 0
      BY <1>2, <2>1, <2>5 DEF Count
    <3>2. slots \in Nat /\ Count(reply[o].permit) \in Nat /\ Count(permit[i]) \in Nat
      BY <1>1, Counts DEF Types
    <3>3. slots' + Count(reply'[o].permit) + Count(permit'[i])
            = slots + Count(reply[o].permit) + Count(permit[i]) + Count(Head(commands).permit)
      BY <1>4, <3>1, <3>2
    <3> QED  BY <1>2, <2>2, <2>3, <2>4, <3>3, ClientAccounted DEF StreamSound
  <2>8. FramesNeat'
    BY <1>1, <1>4, <1>7 DEF FramesNeat
  <2>9. StreamLimit'
    BY <1>3, <1>7, <2>2, <2>3, ClientLimit
  <2> QED  BY <1>2, <1>6, <1>7, <2>2, <2>3, <2>4, <2>5, <2>6, <2>7, <2>8, <2>9, ClientFrame
<1>8. CASE /\ Cardinality(Entries("client")) < MaxStreams
           /\ Become("client", i, "Resolving") /\ ToAgent("RESOLVE", i) /\ reply' = reply
  <2>1. /\ streams' \in PerEnd(States) /\ streams'["client"][i] = "Resolving"
        /\ \A d \in Ends, j \in Ids : d # "client" \/ j # i => streams'[d][j] = streams[d][j]
    BY <1>1, <1>8, Becoming, TwoEnds DEF States
  <2>2. Sends("RESOLVE", i) /\ toAgent' = Append(toAgent, Frame("RESOLVE", i))
    BY <1>1, <1>8, Sending DEF Requests, ToAgent, Frame
  <2>3. Types'
    <3>1. reply' \in [Callers -> Replies]
      BY <1>1, <1>8 DEF Types
    <3> QED  BY <1>1, <1>2, <1>4, <1>5, <2>1, <2>2, <3>1, ClientTypes DEF Sends
  <2>4. OnlyClient(i) /\ SameRecord("agent", i) /\ SameTold(i)
    BY <1>2, <1>4, <1>8, <2>1, <2>2, TwoEnds DEF OnlyClient, SameRecord, SameTold, Sends,
       handleVars, agentVars
  <2>5. (Literal(i)' <=> Literal(i)) /\ (Owned(i)' <=> Owned(i)) /\ (Fresh(i)' <=> Fresh(i))
    BY <1>4, SameOwner DEF Fresh, agentVars
  <2>6. EntrySound(i)'
    BY <1>2, <1>3, <1>4, <2>1, <2>5 DEF StreamSound, EntrySound
  <2>7. RecordSound("client", i)' /\ ClientReady(i)'
    BY <1>2, <1>4, <2>1, <2>4 DEF Unborn, Silent, Told, RecordSound, ClientReady, Clean, SameTold
  <2>8. session["agent"] = "up" => AgentReady(i)' /\ Agreed(i)'
    <3>1. ASSUME session["agent"] = "up" PROVE AgentReady(i)'
      BY <1>2, <1>4, <2>1, <2>2, <2>4, <2>5, <3>1
         DEF Unborn, Silent, Asked, Clean, AgentReady, Sends, SameRecord, StreamSound, agentVars
    <3>2. Agreed(i)'
      BY <1>2, <1>4, <2>1, <2>2, <2>4
         DEF Unborn, Silent, Asked, Told, Agreed, Row, Sends, SameRecord, SameTold
    <3> QED  BY <3>1, <3>2
  <2>9. StreamSound(i)'
    BY <1>2, <2>4, <2>6, <2>7, <2>8, ClientSound
  <2>10. Waiting(o)' /\ Permitted(o)'
    <3>1. \A n \in 1 .. Len(commands') : commands'[n].id = i => ~Asks(commands'[n])
      BY <1>2, PoppedUnasked
    <3>2. Waiting(o)'
      BY <1>2, <1>4, <1>8, <2>1, <3>1 DEF Waiting, Awaits, Asks
    <3> QED  BY <1>2, <1>4, <1>8, <3>2 DEF Permitted
  <2>11. PermitsAccounted'
    <3>1. Count(Head(commands).permit) = 0
      BY <1>2 DEF Count
    <3>2. slots \in Nat /\ Count(reply[o].permit) \in Nat /\ Count(permit[i]) \in Nat
      BY <1>1, Counts DEF Types
    <3>3. slots' + Count(reply'[o].permit) + Count(permit'[i])
            = slots + Count(reply[o].permit) + Count(permit[i]) + Count(Head(commands).permit)
      BY <1>4, <1>8, <3>1, <3>2
    <3> QED  BY <1>2, <2>3, <2>4, <2>6, <3>3, ClientAccounted
  <2>12. FramesNeat'
    BY <1>1, <1>2, <1>4, <2>2 DEF FramesNeat, Sends, Unborn, Silent, Asked
  <2>13. StreamLimit'
    BY <1>8, <2>3, <2>4, ClientLimit
  <2>14. \E t \in Requests : /\ toAgent' = Append(toAgent, Frame(t, i))
                             /\ ~Opens(Frame(t, i)) \/ Introducing(i)
    BY <1>2, <2>2 DEF Requests
  <2> QED  BY <1>2, <1>6, <2>3, <2>4, <2>9, <2>10, <2>11, <2>12, <2>13, <2>14, ClientFrame
<1> QED
  BY <1>4, <1>7, <1>8

LEMMA CommandOpenStep ==
  ASSUME SessionInv, CommandOpen
  PROVE  SessionInv'
<1>1. Types /\ IdsOwned /\ FramesNeat /\ Command("Open")
  BY DEF SessionInv, CommandOpen
<1>2. PICK i \in Ids, o \in Callers :
        /\ Head(commands).id = i /\ id[o] = i /\ Owned(i) /\ Pops /\ session["client"] = "up"
        /\ Waiting(o) /\ Permitted(o) /\ StreamSound(i) /\ Head(commands).permit
        /\ Awaits(o, "opening") /\ streams["client"][i] \notin {"Resolving", "Opening"}
        /\ Asks(Head(commands)) /\ \A c \in Callers : id[c] = i => c = o
  BY <1>1, HeadCommand
<1>3. Head(commands).permit = TRUE /\ Owner(i) = o
  <2>1. Head(commands).permit \in BOOLEAN
    BY <1>1, <1>2, CommandFacts DEF Pops
  <2>2. i # 0
    BY IdsAreNumbers
  <2> QED  BY <1>1, <1>2, <2>1, <2>2, OwnerIs
<1>4. /\ \/ /\ streams["client"][i] # "Resolved" /\ Answer(i, "error", TRUE)
            /\ slots' = slots + Count(~Listening(o))
            /\ streams' = streams /\ permit' = permit /\ toAgent' = toAgent
         \/ /\ streams["client"][i] = "Resolved" /\ Become("client", i, "Opening")
            /\ permit' = [permit EXCEPT ![i] = TRUE] /\ ToAgent("OPEN", i)
            /\ slots' = slots /\ reply' = reply
      /\ UNCHANGED <<session, candidates, remoteClosed, closeQueued>>
      /\ UNCHANGED <<pc, id, holdsSlot, opens, handleVars, agentVars, dropped, events, toClient>>
  <2>1. \/ /\ streams["client"][i] # "Resolved" /\ Answer(i, "error", Head(commands).permit)
           /\ slots' = slots + Undelivered(i, Head(commands).permit)
           /\ streams' = streams /\ permit' = permit /\ toAgent' = toAgent
        \/ /\ streams["client"][i] = "Resolved" /\ Become("client", i, "Opening")
           /\ permit' = [permit EXCEPT ![i] = Head(commands).permit] /\ ToAgent("OPEN", i)
           /\ slots' = slots /\ reply' = reply
    BY <1>2 DEF CommandOpen
  <2>2. Undelivered(i, TRUE) = Count(~Listening(o))
    BY <1>3 DEF Undelivered
  <2> QED  BY <1>3, <2>1, <2>2 DEF CommandOpen, Command
<1>5. /\ UNCHANGED CallerSide /\ candidates' \in PerEnd(BOOLEAN)
      /\ dropped' \in PerEnd(BOOLEAN) /\ remoteClosed' \in PerEnd(BOOLEAN)
      /\ closeQueued' \in PerEnd(BOOLEAN)
      /\ events' \in PerEnd({"none", "Stopped", "LocalCloseQueued"})
      /\ toClient' \in Seq(Frames(Replied)) /\ slots \in Nat /\ permit \in [Ids -> BOOLEAN]
  BY <1>1, <1>4 DEF Types, CallerSide, handleVars
<1>6. Waiting(o)' /\ Permitted(o)' =>
         \A c \in Callers : id[c] = i => Waiting(c)' /\ Permitted(c)'
  BY <1>2
<1>7. \A n \in 1 .. Len(commands') : commands'[n].id = i => ~Asks(commands'[n])
  BY <1>2, PoppedUnasked
<1>8. CASE /\ streams["client"][i] # "Resolved" /\ Answer(i, "error", TRUE)
           /\ slots' = slots + Count(~Listening(o))
           /\ streams' = streams /\ permit' = permit /\ toAgent' = toAgent
  <2>1. /\ reply' \in [Callers -> Replies]
        /\ \A c \in Callers : id[c] # i => reply'[c] = reply[c]
        /\ Listening(o) => reply'[o].kind = "error" /\ reply'[o].permit = TRUE
        /\ ~Listening(o) => reply'[o] = reply[o]
    BY <1>1, <1>2, <1>8, Answered
  <2>2. Types'
    <3>1. streams' \in PerEnd(States) /\ toAgent' \in Seq(Frames(Requests))
      BY <1>1, <1>8 DEF Types
    <3>2. slots' \in Nat
      BY <1>5, <1>8, Counts
    <3> QED  BY <1>1, <1>2, <1>4, <1>5, <1>8, <2>1, <3>1, <3>2, ClientTypes
  <2>3. OnlyClient(i) /\ Same(i)
    BY <1>2, <1>4, <1>8, <2>1 DEF OnlyClient, Same, SameClient, SameAgent, SameRecord, SameSent,
       SameTold, Fresh, handleVars, agentVars
  <2>4. StreamSound(i)'
    BY <1>2, <1>4, <2>3, Untouched
  <2>5. Permitted(o)' /\ (Listening(o) => ~reply[o].permit)
    <3>1. Listening(o) => pc[o] = "opening"
      BY <1>2 DEF Listening, Awaits
    <3> QED  BY <1>1, <1>2, <1>4, <2>1, <3>1, PermittedAnswer
  <2>6. Waiting(o)'
    BY <1>2, <1>4, <1>7, <1>8, WaitingAnswer
  <2>7. PermitsAccounted'
    <3>1. Count(reply'[o].permit) + Count(~Listening(o)) = Count(reply[o].permit) + 1
      <4>1. CASE Listening(o)
        BY <2>1, <2>5, <4>1 DEF Count
      <4>2. CASE ~Listening(o)
        BY <2>1, <4>2 DEF Count
      <4> QED  BY <4>1, <4>2
    <3>2. /\ Count(reply[o].permit) \in Nat /\ Count(permit[i]) \in Nat
          /\ Count(reply'[o].permit) \in Nat /\ Count(~Listening(o)) \in Nat
          /\ Count(Head(commands).permit) = 1
      BY <1>3, Counts DEF Count
    <3>3. slots' + Count(reply'[o].permit) + Count(permit'[i])
            = slots + Count(reply[o].permit) + Count(permit[i]) + Count(Head(commands).permit)
      <4>1. slots' = slots + Count(~Listening(o)) /\ permit' = permit /\ slots \in Nat
        BY <1>5, <1>8
      <4> QED  BY <3>1, <3>2, <4>1
    <3> QED  BY <1>2, <2>2, <2>3, <2>4, <3>3, ClientAccounted DEF StreamSound
  <2>8. FramesNeat'
    BY <1>1, <1>4, <1>8 DEF FramesNeat
  <2>9. StreamLimit'
    BY <1>8, <2>2, <2>3, ClientLimit
  <2> QED  BY <1>2, <1>6, <1>8, <2>2, <2>3, <2>4, <2>5, <2>6, <2>7, <2>8, <2>9, ClientFrame
<1>9. CASE /\ streams["client"][i] = "Resolved" /\ Become("client", i, "Opening")
           /\ permit' = [permit EXCEPT ![i] = TRUE] /\ ToAgent("OPEN", i)
           /\ slots' = slots /\ reply' = reply
  <2>1. /\ streams' \in PerEnd(States) /\ streams'["client"][i] = "Opening"
        /\ \A d \in Ends, j \in Ids : d # "client" \/ j # i => streams'[d][j] = streams[d][j]
    BY <1>1, <1>9, Becoming, TwoEnds DEF States
  <2>2. Sends("OPEN", i) /\ toAgent' = Append(toAgent, Frame("OPEN", i))
    BY <1>1, <1>9, Sending DEF Requests, ToAgent, Frame
  <2>3. /\ permit' \in [Ids -> BOOLEAN] /\ permit'[i] = TRUE
        /\ \A j \in Ids \ {i} : permit'[j] = permit[j]
    BY <1>5, <1>9
  <2>4. Types'
    <3>1. reply' \in [Callers -> Replies] /\ slots' \in Nat
      BY <1>1, <1>9 DEF Types
    <3> QED  BY <1>1, <1>2, <1>4, <1>5, <2>1, <2>2, <2>3, <3>1, ClientTypes DEF Sends
  <2>5. OnlyClient(i) /\ SameRecord("agent", i) /\ SameTold(i)
    BY <1>2, <1>4, <1>9, <2>1, <2>2, <2>3, TwoEnds DEF OnlyClient, SameRecord, SameTold, Sends,
       handleVars, agentVars
  <2>6. (Literal(i)' <=> Literal(i)) /\ (Owned(i)' <=> Owned(i)) /\ (Fresh(i)' <=> Fresh(i))
    BY <1>4, SameOwner DEF Fresh, agentVars
  <2>7. /\ ~permit[i] /\ ~Literal(i) /\ candidates["client"][i] /\ Clean("client", i)
        /\ Told(i, "none") /\ ~In(toClient, "CLOSE", i)
    <3>1. ~permit[i] /\ ~Literal(i) /\ candidates["client"][i]
      BY <1>2, <1>9 DEF StreamSound, EntrySound
    <3>2. Clean("client", i)
      BY <1>2, <1>9, TwoEnds DEF StreamSound, RecordSound
    <3>3. Told(i, "none") /\ ~In(toClient, "CLOSE", i)
      BY <1>2, <1>9 DEF StreamSound, ClientReady, Told
    <3> QED  BY <3>1, <3>2, <3>3
  <2>8. EntrySound(i)'
    BY <1>2, <1>4, <2>1, <2>3, <2>6, <2>7 DEF EntrySound
  <2>9. RecordSound("client", i)' /\ ClientReady(i)'
    BY <1>4, <2>1, <2>5, <2>7 DEF Told, RecordSound, ClientReady, Clean, SameTold
  <2>10. ASSUME session["agent"] = "up" PROVE AgentReady(i)' /\ Agreed(i)' /\ Neat(toAgent')
    <3>1. Agreed(i) /\ AgentReady(i) /\ Neat(toAgent)
      BY <1>1, <1>2, <2>10 DEF StreamSound, FramesNeat
    <3>2. streams["agent"][i] = "Resolved" /\ Asked(i, "none") /\ ~In(toAgent, "CLOSE", i)
      BY <1>9, <3>1 DEF Agreed, Row
    <3>3. AgentReady(i)'
      BY <1>4, <2>1, <2>2, <2>5, <2>6, <2>7, <3>1, <3>2
         DEF Asked, AgentReady, Sends, SameRecord, agentVars, Clean
    <3>4. Agreed(i)'
      BY <2>1, <2>2, <2>5, <2>6, <2>7, <3>2
         DEF Asked, Told, Agreed, Row, Sends, SameRecord, SameTold
    <3> QED  BY <2>2, <3>1, <3>2, <3>3, <3>4 DEF Sends, Asked
  <2>11. StreamSound(i)'
    BY <1>2, <2>5, <2>8, <2>9, <2>10, ClientSound
  <2>12. Waiting(o)' /\ Permitted(o)'
    <3>1. Waiting(o)'
      BY <1>2, <1>4, <1>7, <1>9, <2>1 DEF Waiting, Awaits, Asks
    <3> QED  BY <1>2, <1>4, <1>9, <3>1 DEF Permitted
  <2>13. PermitsAccounted'
    <3>1. Count(Head(commands).permit) = 1 /\ Count(permit[i]) = 0 /\ Count(permit'[i]) = 1
      BY <1>3, <2>3, <2>7 DEF Count
    <3>2. Count(reply[o].permit) \in Nat
      BY Counts
    <3>3. slots' + Count(reply'[o].permit) + Count(permit'[i])
            = slots + Count(reply[o].permit) + Count(permit[i]) + Count(Head(commands).permit)
      <4>1. slots' = slots /\ reply' = reply /\ slots \in Nat
        BY <1>5, <1>9
      <4> QED  BY <3>1, <3>2, <4>1
    <3> QED  BY <1>2, <2>4, <2>5, <2>8, <3>3, ClientAccounted
  <2>14. FramesNeat'
    BY <1>1, <1>4, <2>10 DEF FramesNeat
  <2>15. StreamLimit'
    BY <1>9, <2>4, <2>5, ClientLimit
  <2>16. \E t \in Requests : /\ toAgent' = Append(toAgent, Frame(t, i))
                             /\ ~Opens(Frame(t, i)) \/ Introducing(i)
    BY <2>2, <2>7 DEF Requests, Opens, Frame
  <2>17. ~Unborn(i)
    BY <1>9 DEF Unborn
  <2> QED  BY <1>2, <1>6, <2>4, <2>5, <2>11, <2>12, <2>13, <2>14, <2>15, <2>16, <2>17, ClientFrame
<1> QED
  BY <1>4, <1>8, <1>9

LEMMA CommandOpenIpStep ==
  ASSUME SessionInv, CommandOpenIp
  PROVE  SessionInv'
<1>1. Types /\ IdsOwned /\ FramesNeat /\ Command("OpenIp")
  BY DEF SessionInv, CommandOpenIp
<1>2. PICK i \in Ids, o \in Callers :
        /\ Head(commands).id = i /\ id[o] = i /\ Owned(i) /\ Pops /\ session["client"] = "up"
        /\ Waiting(o) /\ Permitted(o) /\ StreamSound(i) /\ Head(commands).permit
        /\ Literal(i) /\ Awaits(o, "opening") /\ Unborn(i) /\ Introducing(i)
        /\ Asks(Head(commands)) /\ \A c \in Callers : id[c] = i => c = o
  BY <1>1, HeadCommand
<1>3. streams["client"][i] = "none" /\ i \notin Entries("client") /\ ~permit[i]
  BY <1>2 DEF Unborn, Entries, StreamSound, EntrySound
<1>4. /\ \/ /\ Answer(i, "error", FALSE) /\ streams' = streams /\ toAgent' = toAgent
            /\ slots' = slots + 1 /\ candidates' = candidates /\ permit' = permit
         \/ /\ Cardinality(Entries("client")) < MaxStreams
            /\ Become("client", i, "Opening") /\ ToAgent("OPEN", i) /\ reply' = reply
            /\ candidates' = [candidates EXCEPT !["client"][i] = FALSE]
            /\ permit' = [permit EXCEPT ![i] = TRUE] /\ slots' = slots
      /\ session' = session
      /\ UNCHANGED <<remoteClosed, closeQueued>>
      /\ UNCHANGED <<pc, id, holdsSlot, opens, handleVars, agentVars, dropped, events, toClient>>
  BY <1>2, <1>3 DEF CommandOpenIp, Command
<1>5. /\ UNCHANGED CallerSide /\ candidates \in PerEnd(BOOLEAN) /\ permit \in [Ids -> BOOLEAN]
      /\ dropped' \in PerEnd(BOOLEAN) /\ remoteClosed' \in PerEnd(BOOLEAN)
      /\ closeQueued' \in PerEnd(BOOLEAN) /\ slots \in Nat
      /\ events' \in PerEnd({"none", "Stopped", "LocalCloseQueued"})
      /\ toClient' \in Seq(Frames(Replied))
  BY <1>1, <1>4 DEF Types, CallerSide, handleVars
<1>6. Waiting(o)' /\ Permitted(o)' =>
         \A c \in Callers : id[c] = i => Waiting(c)' /\ Permitted(c)'
  BY <1>2
<1>7. \A n \in 1 .. Len(commands') : commands'[n].id = i => ~Asks(commands'[n])
  BY <1>2, PoppedUnasked
<1>8. Count(Head(commands).permit) = 1
  BY <1>2 DEF Count
<1>9. CASE /\ Answer(i, "error", FALSE) /\ streams' = streams /\ toAgent' = toAgent
           /\ slots' = slots + 1 /\ candidates' = candidates /\ permit' = permit
  <2>1. /\ reply' \in [Callers -> Replies]
        /\ \A c \in Callers : id[c] # i => reply'[c] = reply[c]
        /\ Listening(o) => reply'[o].kind = "error" /\ reply'[o].permit = FALSE
        /\ ~Listening(o) => reply'[o] = reply[o]
    BY <1>1, <1>2, <1>9, Answered
  <2>2. Types'
    <3>1. streams' \in PerEnd(States) /\ toAgent' \in Seq(Frames(Requests)) /\ slots' \in Nat
      BY <1>1, <1>9 DEF Types
    <3> QED  BY <1>1, <1>2, <1>4, <1>5, <1>9, <2>1, <3>1, ClientTypes
  <2>3. OnlyClient(i) /\ Same(i)
    BY <1>2, <1>4, <1>9, <2>1 DEF OnlyClient, Same, SameClient, SameAgent, SameRecord, SameSent,
       SameTold, Fresh, handleVars, agentVars
  <2>4. StreamSound(i)'
    BY <1>2, <1>4, <2>3, Untouched
  <2>5. Permitted(o)' /\ (Listening(o) => ~reply[o].permit)
    BY <1>1, <1>2, <1>4, <2>1, PermittedAnswer
  <2>6. Waiting(o)'
    BY <1>2, <1>3, <1>4, <1>7, <1>9, WaitingAnswer
  <2>7. PermitsAccounted'
    <3>1. Count(reply'[o].permit) = Count(reply[o].permit)
      BY <2>1, <2>5 DEF Count
    <3>2. Count(reply[o].permit) \in Nat /\ Count(permit[i]) \in Nat
      BY Counts
    <3>3. slots' + Count(reply'[o].permit) + Count(permit'[i])
            = slots + Count(reply[o].permit) + Count(permit[i]) + Count(Head(commands).permit)
      BY <1>5, <1>8, <1>9, <3>1, <3>2
    <3> QED  BY <1>2, <2>2, <2>3, <2>4, <3>3, ClientAccounted DEF StreamSound
  <2>8. FramesNeat'
    BY <1>1, <1>4, <1>9 DEF FramesNeat
  <2>9. StreamLimit'
    BY <1>3, <1>9, <2>2, <2>3, ClientLimit
  <2> QED  BY <1>2, <1>6, <1>9, <2>2, <2>3, <2>4, <2>5, <2>6, <2>7, <2>8, <2>9, ClientFrame
<1>10. CASE /\ Cardinality(Entries("client")) < MaxStreams
            /\ Become("client", i, "Opening") /\ ToAgent("OPEN", i) /\ reply' = reply
            /\ candidates' = [candidates EXCEPT !["client"][i] = FALSE]
            /\ permit' = [permit EXCEPT ![i] = TRUE] /\ slots' = slots
  <2>1. /\ streams' \in PerEnd(States) /\ streams'["client"][i] = "Opening"
        /\ \A d \in Ends, j \in Ids : d # "client" \/ j # i => streams'[d][j] = streams[d][j]
    BY <1>1, <1>10, Becoming, TwoEnds DEF States
  <2>2. Sends("OPEN", i) /\ toAgent' = Append(toAgent, Frame("OPEN", i))
    BY <1>1, <1>10, Sending DEF Requests, ToAgent, Frame
  <2>3. /\ permit' \in [Ids -> BOOLEAN] /\ permit'[i] = TRUE
        /\ \A j \in Ids \ {i} : permit'[j] = permit[j]
    BY <1>5, <1>10
  <2>4. /\ candidates' \in PerEnd(BOOLEAN) /\ ~candidates'["client"][i]
        /\ \A d \in Ends, j \in Ids :
              d # "client" \/ j # i => candidates'[d][j] = candidates[d][j]
    BY <1>5, <1>10, TwoEnds DEF PerEnd
  <2>5. Types'
    <3>1. reply' \in [Callers -> Replies] /\ slots' \in Nat
      BY <1>1, <1>10 DEF Types
    <3> QED  BY <1>1, <1>2, <1>4, <1>5, <2>1, <2>2, <2>3, <2>4, <3>1, ClientTypes DEF Sends
  <2>6. OnlyClient(i) /\ SameRecord("agent", i) /\ SameTold(i)
    <3>1. \A d \in Ends, j \in Ids : d # "client" \/ j # i => SameRecord(d, j)
      BY <1>4, <2>1, <2>4 DEF SameRecord
    <3>2. reply' = reply
      BY <1>10
    <3> QED  BY <1>2, <1>4, <2>2, <2>3, <3>1, <3>2, TwoEnds
                DEF OnlyClient, SameTold, Sends, handleVars, agentVars
  <2>7. (Literal(i)' <=> Literal(i)) /\ (Owned(i)' <=> Owned(i)) /\ (Fresh(i)' <=> Fresh(i))
    BY <1>4, SameOwner DEF Fresh, agentVars
  <2>8. EntrySound(i)'
    BY <1>2, <2>1, <2>3, <2>4, <2>7 DEF EntrySound
  <2>9. RecordSound("client", i)' /\ ClientReady(i)'
    BY <1>2, <1>4, <2>1, <2>6 DEF Unborn, Silent, Told, RecordSound, ClientReady, Clean, SameTold
  <2>10. session["agent"] = "up" => AgentReady(i)' /\ Agreed(i)'
    <3>1. ASSUME session["agent"] = "up" PROVE AgentReady(i)'
      BY <1>2, <1>4, <2>1, <2>2, <2>6, <2>7, <3>1
         DEF Unborn, Silent, Asked, Clean, AgentReady, Sends, SameRecord, StreamSound, agentVars
    <3>2. Agreed(i)'
      BY <1>2, <1>4, <2>1, <2>2, <2>6, <2>7
         DEF Unborn, Silent, Asked, Told, Agreed, Row, Sends, SameRecord, SameTold
    <3> QED  BY <3>1, <3>2
  <2>11. StreamSound(i)'
    BY <1>2, <2>6, <2>8, <2>9, <2>10, ClientSound
  <2>12. Waiting(o)' /\ Permitted(o)'
    <3>1. Waiting(o)'
      BY <1>2, <1>4, <1>7, <1>10, <2>1 DEF Waiting, Awaits, Asks
    <3> QED  BY <1>2, <1>4, <1>10, <3>1 DEF Permitted
  <2>13. PermitsAccounted'
    <3>1. Count(permit[i]) = 0 /\ Count(permit'[i]) = 1
      BY <1>3, <2>3 DEF Count
    <3>2. Count(reply[o].permit) \in Nat
      BY Counts
    <3>3. slots' + Count(reply'[o].permit) + Count(permit'[i])
            = slots + Count(reply[o].permit) + Count(permit[i]) + Count(Head(commands).permit)
      <4>1. slots' = slots /\ reply' = reply /\ slots \in Nat
        BY <1>5, <1>10
      <4> QED  BY <1>8, <3>1, <3>2, <4>1
    <3> QED  BY <1>2, <2>5, <2>6, <2>8, <3>3, ClientAccounted
  <2>14. FramesNeat'
    BY <1>1, <1>2, <1>4, <2>2 DEF FramesNeat, Sends, Unborn, Silent, Asked
  <2>15. StreamLimit'
    BY <1>10, <2>5, <2>6, ClientLimit
  <2>16. \E t \in Requests : /\ toAgent' = Append(toAgent, Frame(t, i))
                             /\ ~Opens(Frame(t, i)) \/ Introducing(i)
    BY <1>2, <2>2 DEF Requests
  <2> QED  BY <1>2, <1>6, <2>5, <2>6, <2>11, <2>12, <2>13, <2>14, <2>15, <2>16, ClientFrame
<1> QED
  BY <1>4, <1>9, <1>10


LEMMA CommandCloseStep ==
  ASSUME SessionInv, CommandClose
  PROVE  SessionInv'
<1>1. Types /\ IdsOwned /\ FramesNeat /\ Command("Close")
  BY DEF SessionInv, CommandClose
<1>2. PICK i \in Ids, o \in Callers :
        /\ Head(commands).id = i /\ id[o] = i /\ Owned(i) /\ Pops /\ session["client"] = "up"
        /\ Waiting(o) /\ Permitted(o) /\ StreamSound(i) /\ ~Head(commands).permit
        /\ \A c \in Callers : id[c] = i => c = o
  BY <1>1, HeadCommand
<1> DEFINE state == streams["client"][i]
<1>3. /\ \/ /\ state \in {"none", "Closing"}
            /\ UNCHANGED <<reply, streams, remoteClosed, closeQueued, toAgent>>
         \/ /\ state = "Open" /\ Become("client", i, "Closing")
            /\ remoteClosed' = [remoteClosed EXCEPT !["client"][i] = TRUE]
            /\ closeQueued' = [closeQueued EXCEPT !["client"][i] = TRUE]
            /\ \/ closeQueued["client"][i] /\ toAgent' = toAgent
               \/ ~closeQueued["client"][i] /\ ToAgent("CLOSE", i)
            /\ reply' = reply
         \/ /\ state \in {"Resolving", "Resolved", "Opening"} /\ Become("client", i, "Closing")
            /\ \/ state = "Resolved" /\ reply' = reply
               \/ state # "Resolved" /\ Answer(i, "error", FALSE)
            /\ ToAgent("CLOSE", i) /\ UNCHANGED <<remoteClosed, closeQueued>>
      /\ UNCHANGED <<slots, session, candidates, permit>>
      /\ UNCHANGED <<pc, id, holdsSlot, opens, handleVars, agentVars, dropped, events, toClient>>
  BY <1>2 DEF CommandClose, Command
<1> HIDE DEF state
<1>4. /\ UNCHANGED CallerSide /\ candidates' \in PerEnd(BOOLEAN) /\ permit' \in [Ids -> BOOLEAN]
      /\ dropped' \in PerEnd(BOOLEAN) /\ slots' \in Nat /\ slots \in Nat
      /\ events' \in PerEnd({"none", "Stopped", "LocalCloseQueued"})
      /\ toClient' \in Seq(Frames(Replied))
      /\ remoteClosed \in PerEnd(BOOLEAN) /\ closeQueued \in PerEnd(BOOLEAN)
      /\ reply \in [Callers -> Replies]
  BY <1>1, <1>3 DEF Types, CallerSide, handleVars
<1>5. Waiting(o)' /\ Permitted(o)' =>
         \A c \in Callers : id[c] = i => Waiting(c)' /\ Permitted(c)'
  BY <1>2
<1>6. Count(Head(commands).permit) = 0 /\ Count(permit[i]) \in Nat /\ permit' = permit
      /\ Count(reply[o].permit) \in Nat /\ slots' = slots
  BY <1>2, <1>3, Counts DEF Count
<1>7. (Literal(i)' <=> Literal(i)) /\ (Owned(i)' <=> Owned(i)) /\ (Fresh(i)' <=> Fresh(i))
  BY <1>3, SameOwner DEF Fresh, agentVars
<1>8. CASE /\ state \in {"none", "Closing"}
           /\ UNCHANGED <<reply, streams, remoteClosed, closeQueued, toAgent>>
  <2>1. Types'
    <3>1. streams' \in PerEnd(States) /\ toAgent' \in Seq(Frames(Requests))
      BY <1>1, <1>8 DEF Types
    <3> QED  BY <1>1, <1>2, <1>3, <1>4, <1>8, <3>1, ClientTypes
  <2>2. OnlyClient(i) /\ Same(i)
    BY <1>2, <1>3, <1>8 DEF OnlyClient, Same, SameClient, SameAgent, SameRecord, SameSent,
       SameTold, Fresh, handleVars, agentVars
  <2>3. StreamSound(i)'
    BY <1>2, <1>3, <2>2, Untouched
  <2>4. Waiting(o)' /\ Permitted(o)'
    <3>1. Waiting(o)'
      BY <1>1, <1>2, <1>3, <1>8, WaitingKept
    <3> QED  BY <1>2, <1>3, <1>8, <3>1 DEF Permitted
  <2>5. PermitsAccounted'
    <3>1. slots' + Count(reply'[o].permit) + Count(permit'[i])
            = slots + Count(reply[o].permit) + Count(permit[i]) + Count(Head(commands).permit)
      <4>1. reply' = reply
        BY <1>8
      <4> QED  BY <1>4, <1>6, <4>1
    <3> QED  BY <1>2, <2>1, <2>2, <2>3, <3>1, ClientAccounted DEF StreamSound
  <2>6. FramesNeat'
    BY <1>1, <1>3, <1>8 DEF FramesNeat
  <2>7. StreamLimit'
    BY <1>8, <2>1, <2>2, ClientLimit
  <2> QED  BY <1>2, <1>5, <1>8, <2>1, <2>2, <2>3, <2>4, <2>5, <2>6, <2>7, ClientFrame
<1>9. ASSUME Become("client", i, "Closing"), state # "none"
      PROVE  /\ streams' \in PerEnd(States) /\ streams'["client"][i] = "Closing"
             /\ \A d \in Ends, j \in Ids : d # "client" \/ j # i => streams'[d][j] = streams[d][j]
             /\ EntrySound(i)' /\ ~Unborn(i)
  <2>1. /\ streams' \in PerEnd(States) /\ streams'["client"][i] = "Closing"
        /\ \A d \in Ends, j \in Ids : d # "client" \/ j # i => streams'[d][j] = streams[d][j]
    BY <1>1, <1>9, Becoming, TwoEnds DEF States
  <2> QED  BY <1>2, <1>7, <1>9, <2>1 DEF EntrySound, Unborn, state
<1>10. CASE /\ state = "Open" /\ Become("client", i, "Closing")
            /\ remoteClosed' = [remoteClosed EXCEPT !["client"][i] = TRUE]
            /\ closeQueued' = [closeQueued EXCEPT !["client"][i] = TRUE]
            /\ \/ closeQueued["client"][i] /\ toAgent' = toAgent
               \/ ~closeQueued["client"][i] /\ ToAgent("CLOSE", i)
            /\ reply' = reply
  <2>1. /\ streams' \in PerEnd(States) /\ streams'["client"][i] = "Closing"
        /\ \A d \in Ends, j \in Ids : d # "client" \/ j # i => streams'[d][j] = streams[d][j]
        /\ EntrySound(i)' /\ ~Unborn(i) /\ streams["client"][i] = "Open"
    BY <1>9, <1>10 DEF state
  <2>2. /\ remoteClosed' \in PerEnd(BOOLEAN) /\ closeQueued' \in PerEnd(BOOLEAN)
        /\ \A d \in Ends, j \in Ids : d # "client" \/ j # i =>
              remoteClosed'[d][j] = remoteClosed[d][j] /\ closeQueued'[d][j] = closeQueued[d][j]
    BY <1>4, <1>10, TwoEnds DEF PerEnd
  <2>3. \/ closeQueued["client"][i] /\ toAgent' = toAgent
        \/ /\ ~closeQueued["client"][i] /\ Sends("CLOSE", i)
           /\ toAgent' = Append(toAgent, Frame("CLOSE", i))
    BY <1>1, <1>10, Sending DEF Requests, ToAgent, Frame
  <2>4. toAgent' \in Seq(Frames(Requests)) /\ \A j \in Ids \ {i} : SameSent(j)
    BY <1>1, <2>3 DEF Types, Sends, SameSent
  <2>5. Types'
    <3>1. reply' \in [Callers -> Replies]
      BY <1>4, <1>10
    <3> QED  BY <1>1, <1>2, <1>3, <1>4, <2>1, <2>2, <2>4, <3>1, ClientTypes
  <2>6. OnlyClient(i) /\ SameRecord("agent", i) /\ SameTold(i)
    <3>1. \A d \in Ends, j \in Ids : d # "client" \/ j # i => SameRecord(d, j)
      BY <1>3, <2>1, <2>2 DEF SameRecord
    <3>2. reply' = reply
      BY <1>10
    <3> QED  BY <1>2, <1>3, <2>4, <3>1, <3>2, TwoEnds
                DEF OnlyClient, SameTold, handleVars, agentVars
  <2>7. RecordSound("client", i)' /\ ClientReady(i)'
    <3>1. RecordSound("client", i) /\ ClientReady(i)
      BY <1>2, TwoEnds DEF StreamSound
    <3> QED  BY <1>2, <1>3, <2>1, <2>6, <3>1 DEF Told, RecordSound, ClientReady, SameTold
  <2>8. ASSUME session["agent"] = "up" PROVE AgentReady(i)' /\ Agreed(i)' /\ Neat(toAgent')
    <3>1. Agreed(i) /\ AgentReady(i) /\ Neat(toAgent)
      BY <1>1, <1>2, <2>8 DEF StreamSound, FramesNeat
    <3>2. CASE closeQueued["client"][i] /\ toAgent' = toAgent
      <4>1. AgentReady(i)'
        BY <1>3, <1>7, <2>6, <3>1, <3>2 DEF AgentReady, SameRecord, agentVars, Clean
      <4>2. Agreed(i)'
        BY <1>3, <1>7, <2>1, <2>6, <3>1, <3>2
           DEF Asked, Told, Agreed, Row, SameRecord, SameTold, Stages
      <4> QED  BY <3>1, <3>2, <4>1, <4>2
    <3>3. CASE ~closeQueued["client"][i] /\ Sends("CLOSE", i)
      <4>1. /\ ~In(toAgent, "CLOSE", i) /\ streams["agent"][i] \in {"Open", "Closing"}
            /\ Row(i, "Open", streams["agent"][i])
        BY <2>1, <3>1, <3>3 DEF Agreed, Row
      <4>2. AgentReady(i)'
        BY <1>3, <1>7, <2>6, <3>1, <3>3, <4>1 DEF AgentReady, Sends, SameRecord, agentVars, Clean
      <4>3. Agreed(i)'
        BY <1>3, <1>7, <2>1, <2>6, <3>3, <4>1
           DEF Asked, Told, Agreed, Row, SameRecord, SameTold, Sends, Stages
      <4> QED  BY <3>1, <3>3, <4>1, <4>2, <4>3 DEF Sends
    <3> QED  BY <2>3, <3>2, <3>3
  <2>9. StreamSound(i)'
    BY <1>2, <2>1, <2>6, <2>7, <2>8, ClientSound
  <2>10. Waiting(o)' /\ Permitted(o)'
    <3>1. Waiting(o)'
      BY <1>1, <1>2, <1>3, <1>10, <2>1, WaitingKept
    <3> QED  BY <1>2, <1>3, <1>10, <3>1 DEF Permitted
  <2>11. PermitsAccounted'
    <3>1. slots' + Count(reply'[o].permit) + Count(permit'[i])
            = slots + Count(reply[o].permit) + Count(permit[i]) + Count(Head(commands).permit)
      <4>1. reply' = reply
        BY <1>10
      <4> QED  BY <1>4, <1>6, <4>1
    <3> QED  BY <1>2, <2>1, <2>5, <2>6, <3>1, ClientAccounted
  <2>12. FramesNeat'
    BY <1>1, <1>3, <2>8 DEF FramesNeat
  <2>13. StreamLimit'
    BY <2>1, <2>5, <2>6, ClientLimit
  <2>14. \/ toAgent' = toAgent
         \/ \E t \in Requests : /\ toAgent' = Append(toAgent, Frame(t, i))
                                /\ ~Opens(Frame(t, i)) \/ Introducing(i)
    BY <2>3 DEF Requests, Opens, Frame
  <2> QED  BY <1>2, <1>5, <2>1, <2>5, <2>6, <2>9, <2>10, <2>11, <2>12, <2>13, <2>14, ClientFrame
<1>11. CASE /\ state \in {"Resolving", "Resolved", "Opening"} /\ Become("client", i, "Closing")
            /\ \/ state = "Resolved" /\ reply' = reply
               \/ state # "Resolved" /\ Answer(i, "error", FALSE)
            /\ ToAgent("CLOSE", i) /\ UNCHANGED <<remoteClosed, closeQueued>>
  <2>1. /\ streams' \in PerEnd(States) /\ streams'["client"][i] = "Closing"
        /\ \A d \in Ends, j \in Ids : d # "client" \/ j # i => streams'[d][j] = streams[d][j]
        /\ EntrySound(i)' /\ ~Unborn(i)
        /\ streams["client"][i] \in {"Resolving", "Resolved", "Opening"}
    BY <1>9, <1>11 DEF state
  <2>2. Sends("CLOSE", i) /\ toAgent' = Append(toAgent, Frame("CLOSE", i))
    BY <1>1, <1>11, Sending DEF Requests, ToAgent, Frame
  <2>3. /\ reply' \in [Callers -> Replies]
        /\ \A c \in Callers : id[c] # i => reply'[c] = reply[c]
        /\ Listening(o) /\ state # "Resolved" => reply'[o].kind = "error" /\ reply'[o].permit = FALSE
        /\ ~Listening(o) \/ state = "Resolved" => reply'[o] = reply[o]
    <3>1. CASE state = "Resolved" /\ reply' = reply
      BY <1>4, <3>1
    <3>2. CASE state # "Resolved" /\ Answer(i, "error", FALSE)
      BY <1>1, <1>2, <3>2, Answered
    <3> QED  BY <1>11, <3>1, <3>2
  <2>4. Types'
    <3>1. remoteClosed' \in PerEnd(BOOLEAN) /\ closeQueued' \in PerEnd(BOOLEAN)
      BY <1>4, <1>11
    <3> QED  BY <1>1, <1>2, <1>3, <1>4, <2>1, <2>2, <2>3, <3>1, ClientTypes DEF Sends
  <2>5. OnlyClient(i) /\ SameRecord("agent", i) /\ SameTold(i)
    <3>1. \A d \in Ends, j \in Ids : d # "client" \/ j # i => SameRecord(d, j)
      BY <1>3, <1>11, <2>1 DEF SameRecord
    <3> QED  BY <1>2, <1>3, <2>2, <2>3, <3>1, TwoEnds
                DEF OnlyClient, SameTold, Sends, handleVars, agentVars
  <2>6. RecordSound("client", i)' /\ ClientReady(i)'
    <3>1. RecordSound("client", i) /\ ClientReady(i)
      BY <1>2, TwoEnds DEF StreamSound
    <3> QED  BY <1>2, <1>3, <2>1, <2>5, <3>1 DEF Told, RecordSound, ClientReady, SameTold
  <2>7. ASSUME session["agent"] = "up" PROVE AgentReady(i)' /\ Agreed(i)' /\ Neat(toAgent')
    <3>1. Agreed(i) /\ AgentReady(i) /\ Neat(toAgent)
      BY <1>1, <1>2, <2>7 DEF StreamSound, FramesNeat
    <3>2. /\ ~In(toAgent, "CLOSE", i)
          /\ Row(i, streams["client"][i], streams["agent"][i])
      BY <2>1, <3>1 DEF Agreed
    <3>3. ~Fresh(i) \/ In(toAgent, "RESOLVE", i) \/ (In(toAgent, "OPEN", i) /\ Literal(i))
      BY <2>1, <3>1, <3>2 DEF AgentReady, Row, Asked
    <3>4. AgentReady(i)'
      BY <1>3, <1>7, <2>2, <2>5, <3>1, <3>2, <3>3
         DEF AgentReady, Sends, SameRecord, agentVars, Clean
    <3>5. Agreed(i)'
      BY <1>3, <1>7, <2>1, <2>2, <2>5, <3>2
         DEF Asked, Told, Agreed, Row, SameRecord, SameTold, Sends, Stages
    <3> QED  BY <2>2, <3>1, <3>2, <3>4, <3>5 DEF Sends
  <2>8. StreamSound(i)'
    BY <1>2, <2>1, <2>5, <2>6, <2>7, ClientSound
  <2>9. Permitted(o)' /\ Count(reply'[o].permit) = Count(reply[o].permit)
    <3>1. CASE Listening(o) /\ state # "Resolved"
      <4>1. Permitted(o)' /\ (Listening(o) => ~reply[o].permit)
        BY <1>1, <1>2, <1>3, <2>3, <3>1, PermittedAnswer
      <4> QED  BY <2>3, <3>1, <4>1 DEF Count
    <3>2. CASE ~Listening(o) \/ state = "Resolved"
      BY <1>2, <1>3, <2>3, <3>2 DEF Permitted
    <3> QED  BY <3>1, <3>2
  <2>10. Waiting(o)'
    <3>1. CASE state = "Resolved"
      BY <1>1, <1>2, <1>3, <2>1, <2>3, <3>1, WaitingKept
    <3>2. CASE state # "Resolved"
      <4>1. \A n \in 1 .. Len(commands') : commands'[n].id = i => ~Asks(commands'[n])
        BY <1>2, <2>1, <3>2, BusyUnasked DEF state
      <4> QED  BY <1>2, <1>3, <2>1, <4>1, WaitingAnswer
    <3> QED  BY <3>1, <3>2
  <2>11. PermitsAccounted'
    <3>1. slots' + Count(reply'[o].permit) + Count(permit'[i])
            = slots + Count(reply[o].permit) + Count(permit[i]) + Count(Head(commands).permit)
      BY <1>4, <1>6, <2>9
    <3> QED  BY <1>2, <2>1, <2>4, <2>5, <3>1, ClientAccounted
  <2>12. FramesNeat'
    BY <1>1, <1>3, <2>7 DEF FramesNeat
  <2>13. StreamLimit'
    BY <2>1, <2>4, <2>5, ClientLimit
  <2>14. \E t \in Requests : /\ toAgent' = Append(toAgent, Frame(t, i))
                             /\ ~Opens(Frame(t, i)) \/ Introducing(i)
    BY <2>2 DEF Requests, Opens, Frame
  <2> QED  BY <1>2, <1>5, <2>1, <2>4, <2>5, <2>8, <2>9, <2>10, <2>11, <2>12, <2>13, <2>14, ClientFrame
<1> QED
  BY <1>3, <1>8, <1>10, <1>11


LEMMA HeadReply ==
  ASSUME SessionInv, NEW t, ClientReceives(t)
  PROVE  \E i \in Ids, o \in Callers :
            /\ Head(toClient).id = i /\ ClientTakes(t, i) /\ id[o] = i /\ Owned(i)
            /\ session["client"] = "up" /\ commands' = commands
            /\ StreamSound(i) /\ ClientReady(i) /\ RecordSound("client", i)
            /\ Waiting(o) /\ Permitted(o) /\ streams["client"][i] # "none" /\ Owner(i) = o
            /\ \A c \in Callers : id[c] = i => c = o
<1>1. /\ Types /\ IdsOwned /\ CallersSound /\ FramesNeat /\ session["client"] = "up"
      /\ commands' = commands
  BY DEF SessionInv, ClientReceives
<1>2. PICK i \in Ids : Head(toClient).id = i /\ ClientTakes(t, i)
  BY <1>1, ClientTaking
<1>3. StreamSound(i) /\ ClientReady(i) /\ RecordSound("client", i)
  BY <1>1, TwoEnds DEF SessionInv, StreamSound
<1>4. In(toClient, t, i) /\ t \in Replied
  <2>1. toClient \in Seq(Frames(Replied)) /\ toClient # <<>> /\ Head(toClient).type = t
    BY <1>1 DEF Types, ClientReceives
  <2> QED  BY <1>2, <2>1, HeadFrame DEF ClientTakes
<1>5. streams["client"][i] # "none"
  BY <1>3, <1>4 DEF ClientReady, Replied
<1>6. PICK o \in Callers : id[o] = i
  BY <1>3, <1>5 DEF StreamSound, EntrySound, Owned
<1>7. Owner(i) = o /\ (\A c \in Callers : id[c] = i => c = o) /\ Owned(i)
  <2>1. i # 0
    BY IdsAreNumbers
  <2>2. Owner(i) = o
    BY <1>1, <1>6, <2>1, OwnerIs
  <2> QED  BY <1>1, <1>6, <2>1, <2>2 DEF IdsOwned, Owned
<1>8. Waiting(o) /\ Permitted(o)
  BY <1>1 DEF CallersSound
<1> QED
  BY <1>1, <1>2, <1>3, <1>5, <1>6, <1>7, <1>8

\* An answer for a stream that the client is already closing is dropped.
LEMMA LateReply ==
  ASSUME SessionInv, NEW t \in {"RESOLVE_OK", "OPEN_OK", "OPEN_ERROR"}, ClientReceives(t),
         streams["client"][Head(toClient).id] = "Closing",
         UNCHANGED <<reply, slots, session, streams, candidates, permit, sharedVars, toAgent>>
  PROVE  SessionInv'
<1>1. Types /\ IdsOwned /\ FramesNeat
  BY DEF SessionInv
<1>2. PICK i \in Ids, o \in Callers :
        /\ Head(toClient).id = i /\ ClientTakes(t, i) /\ id[o] = i /\ Owned(i)
        /\ session["client"] = "up" /\ commands' = commands
        /\ StreamSound(i) /\ ClientReady(i) /\ RecordSound("client", i)
        /\ Waiting(o) /\ Permitted(o) /\ \A c \in Callers : id[c] = i => c = o
  BY HeadReply
<1>3. /\ streams["client"][i] = "Closing"
      /\ UNCHANGED <<reply, slots, session, streams, candidates, permit, toAgent>>
      /\ UNCHANGED <<dropped, remoteClosed, closeQueued, pc, id, holdsSlot, opens, nextStreamId>>
      /\ UNCHANGED <<shutdown, highestStreamId, operations, relays, events>>
  BY <1>2 DEF ClientReceives, sharedVars, handleVars, agentVars
<1>4. Types'
  <2>1. /\ UNCHANGED CallerSide /\ UNCHANGED agentVars
        /\ reply' \in [Callers -> Replies] /\ slots' \in Nat
        /\ streams' \in PerEnd(States) /\ candidates' \in PerEnd(BOOLEAN)
        /\ permit' \in [Ids -> BOOLEAN] /\ dropped' \in PerEnd(BOOLEAN)
        /\ remoteClosed' \in PerEnd(BOOLEAN) /\ closeQueued' \in PerEnd(BOOLEAN)
        /\ events' \in PerEnd({"none", "Stopped", "LocalCloseQueued"})
        /\ toAgent' \in Seq(Frames(Requests))
    BY <1>1, <1>3 DEF Types, CallerSide, agentVars
  <2> QED  BY <1>1, <1>2, <1>3, <2>1, ClientTypes DEF ClientTakes
<1>5. OnlyClient(i) /\ SameRecord("client", i) /\ SameRecord("agent", i) /\ SameSent(i)
  BY <1>2, <1>3, TwoEnds DEF OnlyClient, SameRecord, SameSent, ClientTakes
<1>6. (Literal(i)' <=> Literal(i)) /\ (Owned(i)' <=> Owned(i)) /\ (Fresh(i)' <=> Fresh(i))
  BY <1>3, SameOwner DEF Fresh
<1>7. EntrySound(i)' /\ RecordSound("client", i)'
  BY <1>2, <1>3, <1>6, TwoEnds DEF StreamSound, EntrySound, RecordSound, Clean
<1>8. ClientReady(i)'
  BY <1>2, <1>3 DEF ClientReady, ClientTakes, Told
<1>9. ASSUME session["agent"] = "up" PROVE AgentReady(i)' /\ Agreed(i)'
  <2>1. Agreed(i) /\ AgentReady(i)
    BY <1>2, <1>9 DEF StreamSound
  <2>2. AgentReady(i)'
    BY <1>3, <1>6, <2>1 DEF AgentReady, Clean
  <2>3. /\ streams'["client"][i] = "Closing" /\ streams'["agent"][i] = streams["agent"][i]
        /\ In(toAgent', "CLOSE", i) <=> In(toAgent, "CLOSE", i)
        /\ Asked(i, "none")' <=> Asked(i, "none")
    BY <1>3 DEF Asked
  <2>4. CASE In(toAgent, "CLOSE", i) /\ \E stage \in Stages : Row(i, stage, streams["agent"][i])
    <3>1. PICK stage \in Stages : Row(i, stage, streams["agent"][i])
      BY <2>4
    <3>2. CASE t = "RESOLVE_OK"
      <4>1. Row(i, "Resolved", streams["agent"][i])'
        BY <1>2, <1>3, <3>1, <3>2 DEF Row, Asked, Told, ClientTakes, Stages
      <4> QED  BY <2>2, <2>3, <2>4, <4>1 DEF Agreed, Stages
    <3>3. CASE t = "OPEN_OK"
      <4>1. Row(i, "Open", streams["agent"][i])'
        BY <1>2, <1>3, <3>1, <3>3 DEF Row, Asked, Told, ClientTakes, Stages
      <4> QED  BY <2>2, <2>3, <2>4, <4>1 DEF Agreed, Stages
    <3>4. CASE t = "OPEN_ERROR"
      <4>1. Row(i, "Resolved", streams["agent"][i])' \/ Row(i, "over", streams["agent"][i])'
        BY <1>2, <1>3, <1>6, <3>1, <3>4 DEF Row, Asked, Told, ClientTakes, Stages
      <4> QED  BY <2>2, <2>3, <2>4, <4>1 DEF Agreed, Stages
    <3> QED  BY <3>2, <3>3, <3>4
  <2>5. CASE /\ streams["agent"][i] \in {"none", "Cancelled"}
             /\ Asked(i, "none") /\ ~In(toAgent, "CLOSE", i) /\ In(toClient, "CLOSE", i)
    <3>1. In(toClient', "CLOSE", i)
      BY <1>2, <2>5 DEF ClientTakes
    <3> QED  BY <2>2, <2>3, <2>5, <3>1 DEF Agreed
  <2> QED  BY <1>3, <2>1, <2>2, <2>4, <2>5 DEF Agreed
<1>10. StreamSound(i)'
  BY <1>2, <1>5, <1>7, <1>8, <1>9, ClientSound
<1>11. Waiting(o)' /\ Permitted(o)'
  <2>1. Waiting(o)'
    BY <1>1, <1>2, <1>3, WaitingKept
  <2> QED  BY <1>2, <1>3, <2>1 DEF Permitted
<1>12. PermitsAccounted'
  BY <1>2, <1>3, <1>4, <1>5, <1>7, ClientAccounted
<1>13. FramesNeat' /\ ~Unborn(i)
  BY <1>1, <1>2, <1>3 DEF FramesNeat, ClientTakes, Unborn
<1>14. StreamLimit'
  BY <1>3, <1>4, <1>5, ClientLimit
<1> QED
  BY <1>2, <1>3, <1>4, <1>5, <1>10, <1>11, <1>12, <1>13, <1>14, ClientFrame

LEMMA RecvResolveOkStep ==
  ASSUME SessionInv, RecvResolveOk
  PROVE  SessionInv'
<1>1. Types /\ IdsOwned /\ FramesNeat /\ ClientReceives("RESOLVE_OK")
  BY DEF SessionInv, RecvResolveOk
<1>2. PICK i \in Ids, o \in Callers :
        /\ Head(toClient).id = i /\ ClientTakes("RESOLVE_OK", i) /\ id[o] = i /\ Owned(i)
        /\ session["client"] = "up" /\ commands' = commands
        /\ StreamSound(i) /\ ClientReady(i) /\ RecordSound("client", i)
        /\ Waiting(o) /\ Permitted(o) /\ Owner(i) = o /\ \A c \in Callers : id[c] = i => c = o
  BY <1>1, HeadReply
<1>3. streams["client"][i] \in {"Resolving", "Closing"}
  BY <1>2 DEF ClientReady, ClientTakes
<1>4. CASE streams["client"][i] = "Closing"
  <2>1. UNCHANGED <<reply, slots, session, streams, candidates, permit, sharedVars, toAgent>>
    BY <1>2, <1>4 DEF RecvResolveOk, ClientState
  <2> QED  BY <1>1, <1>2, <1>4, <2>1, LateReply
<1>5. CASE streams["client"][i] = "Resolving"
  <2>1. /\ Answer(i, "ok", FALSE)
        /\ candidates' = [candidates EXCEPT !["client"][i] = TRUE]
        /\ \/ Listening(o) /\ Become("client", i, "Resolved") /\ toAgent' = toAgent
           \/ ~Listening(o) /\ Become("client", i, "Closing") /\ ToAgent("CLOSE", i)
        /\ UNCHANGED <<slots, session, permit>>
        /\ UNCHANGED <<dropped, remoteClosed, closeQueued, pc, id, holdsSlot, opens, nextStreamId>>
        /\ UNCHANGED <<shutdown, highestStreamId, operations, relays, events>>
    BY <1>2, <1>5 DEF RecvResolveOk, ClientState, ClientReceives, sharedVars, handleVars, agentVars
  <2>2. /\ reply' \in [Callers -> Replies]
        /\ \A c \in Callers : id[c] # i => reply'[c] = reply[c]
        /\ Listening(o) => reply'[o].kind = "ok" /\ reply'[o].permit = FALSE
        /\ ~Listening(o) => reply'[o] = reply[o]
    BY <1>1, <1>2, <2>1, Answered
  <2>3. /\ streams' \in PerEnd(States)
        /\ streams'["client"][i] = IF Listening(o) THEN "Resolved" ELSE "Closing"
        /\ \A d \in Ends, j \in Ids : d # "client" \/ j # i => streams'[d][j] = streams[d][j]
    BY <1>1, <2>1, Becoming, TwoEnds DEF States
  <2>4. /\ candidates' \in PerEnd(BOOLEAN) /\ candidates'["client"][i]
        /\ \A d \in Ends, j \in Ids :
              d # "client" \/ j # i => candidates'[d][j] = candidates[d][j]
    <3>1. candidates \in PerEnd(BOOLEAN)
      BY <1>1 DEF Types
    <3> QED  BY <2>1, <3>1, TwoEnds DEF PerEnd
  <2>5. \/ Listening(o) /\ toAgent' = toAgent
        \/ /\ ~Listening(o) /\ Sends("CLOSE", i)
           /\ toAgent' = Append(toAgent, Frame("CLOSE", i))
    BY <1>1, <2>1, Sending DEF Requests, ToAgent, Frame
  <2>6. toAgent' \in Seq(Frames(Requests)) /\ \A j \in Ids \ {i} : SameSent(j)
    BY <1>1, <2>5 DEF Types, Sends, SameSent
  <2>7. Types'
    <3>1. /\ UNCHANGED CallerSide /\ UNCHANGED agentVars
          /\ slots' \in Nat /\ permit' \in [Ids -> BOOLEAN] /\ dropped' \in PerEnd(BOOLEAN)
          /\ remoteClosed' \in PerEnd(BOOLEAN) /\ closeQueued' \in PerEnd(BOOLEAN)
          /\ events' \in PerEnd({"none", "Stopped", "LocalCloseQueued"})
      BY <1>1, <2>1 DEF Types, CallerSide, agentVars
    <3> QED  BY <1>1, <1>2, <2>1, <2>2, <2>3, <2>4, <2>6, <3>1, ClientTypes DEF ClientTakes
  <2>8. OnlyClient(i) /\ SameRecord("agent", i)
    <3>1. \A d \in Ends, j \in Ids : d # "client" \/ j # i => SameRecord(d, j)
      BY <2>1, <2>3, <2>4 DEF SameRecord
    <3> QED  BY <1>2, <2>1, <2>2, <2>6, <3>1, TwoEnds DEF OnlyClient, ClientTakes
  <2>9. (Literal(i)' <=> Literal(i)) /\ (Owned(i)' <=> Owned(i)) /\ (Fresh(i)' <=> Fresh(i))
    BY <2>1, SameOwner DEF Fresh
  <2>10. EntrySound(i)' /\ RecordSound("client", i)'
    BY <1>2, <1>5, <2>1, <2>3, <2>4, <2>9 DEF StreamSound, EntrySound, RecordSound, Clean
  <2>11. ClientReady(i)'
    BY <1>2, <1>5, <2>3 DEF ClientReady, ClientTakes, Told
  <2>12. ASSUME session["agent"] = "up" PROVE AgentReady(i)' /\ Agreed(i)' /\ Neat(toAgent')
    <3>1. Agreed(i) /\ AgentReady(i) /\ Neat(toAgent)
      BY <1>1, <1>2, <2>12 DEF StreamSound, FramesNeat
    <3>2. /\ streams["agent"][i] = "Resolved" /\ Asked(i, "none") /\ Told(i, "RESOLVE_OK")
          /\ ~In(toAgent, "CLOSE", i) /\ ~In(toClient, "CLOSE", i)
      BY <1>2, <1>5, <3>1 DEF Agreed, Row, Told, ClientTakes
    <3>3. ~Fresh(i)
      BY <3>1, <3>2 DEF AgentReady
    <3>4. CASE Listening(o) /\ toAgent' = toAgent
      <4>1. AgentReady(i)'
        BY <2>1, <2>8, <2>9, <3>1, <3>4 DEF AgentReady, SameRecord, Clean
      <4>2. Agreed(i)'
        BY <1>2, <2>3, <2>8, <3>2, <3>4 DEF Agreed, Row, Asked, Told, ClientTakes, SameRecord
      <4> QED  BY <3>1, <3>4, <4>1, <4>2
    <3>5. CASE ~Listening(o) /\ Sends("CLOSE", i)
      <4>1. AgentReady(i)'
        BY <2>1, <2>8, <2>9, <3>1, <3>2, <3>3, <3>5
           DEF AgentReady, SameRecord, Clean, Sends
      <4>2. Row(i, "Resolved", streams["agent"][i])' /\ In(toAgent', "CLOSE", i)
        BY <1>2, <2>8, <3>2, <3>5 DEF Row, Asked, Told, ClientTakes, SameRecord, Sends
      <4>3. Agreed(i)'
        BY <2>3, <3>5, <4>2 DEF Agreed, Stages
      <4> QED  BY <3>1, <3>2, <3>5, <4>1, <4>3 DEF Sends
    <3> QED  BY <2>5, <3>4, <3>5
  <2>13. StreamSound(i)'
    BY <1>2, <2>8, <2>10, <2>11, <2>12, ClientSound
  <2>14. Permitted(o)' /\ Count(reply'[o].permit) = Count(reply[o].permit)
    <3>1. Permitted(o)' /\ (Listening(o) => ~reply[o].permit)
      BY <1>1, <1>2, <2>1, <2>2, PermittedAnswer
    <3> QED  BY <2>2, <3>1 DEF Count
  <2>15. Waiting(o)'
    <3>1. \A n \in 1 .. Len(commands') : commands'[n].id = i => ~Asks(commands'[n])
      BY <1>2, <1>5, BusyUnasked
    <3> QED  BY <1>2, <2>1, <2>3, <3>1, WaitingAnswer
  <2>16. PermitsAccounted'
    BY <1>2, <2>1, <2>7, <2>8, <2>10, <2>14, ClientAccounted
  <2>17. FramesNeat' /\ ~Unborn(i)
    BY <1>1, <1>2, <1>5, <2>1, <2>12 DEF FramesNeat, ClientTakes, Unborn
  <2>18. StreamLimit'
    BY <1>5, <2>7, <2>8, ClientLimit
  <2>19. \/ toAgent' = toAgent
         \/ \E t \in Requests : /\ toAgent' = Append(toAgent, Frame(t, i))
                                /\ ~Opens(Frame(t, i)) \/ Introducing(i)
    BY <2>5 DEF Requests, Opens, Frame
  <2>20. \A c \in Callers : id[c] = i => Waiting(c)' /\ Permitted(c)'
    BY <1>2, <2>14, <2>15
  <2> QED  BY <1>2, <2>7, <2>8, <2>13, <2>16, <2>17, <2>18, <2>19, <2>20, ClientFrame
<1> QED
  BY <1>3, <1>4, <1>5


LEMMA RecvOpenOkStep ==
  ASSUME SessionInv, RecvOpenOk
  PROVE  SessionInv'
<1>1. Types /\ IdsOwned /\ FramesNeat /\ ClientReceives("OPEN_OK")
  BY DEF SessionInv, RecvOpenOk
<1>2. PICK i \in Ids, o \in Callers :
        /\ Head(toClient).id = i /\ ClientTakes("OPEN_OK", i) /\ id[o] = i /\ Owned(i)
        /\ session["client"] = "up" /\ commands' = commands
        /\ StreamSound(i) /\ ClientReady(i) /\ RecordSound("client", i)
        /\ Waiting(o) /\ Permitted(o) /\ Owner(i) = o /\ \A c \in Callers : id[c] = i => c = o
  BY <1>1, HeadReply
<1>3. streams["client"][i] \in {"Opening", "Closing"}
  BY <1>2 DEF ClientReady, ClientTakes
<1>4. CASE streams["client"][i] = "Closing"
  <2>1. UNCHANGED <<reply, slots, session, streams, candidates, permit, sharedVars, toAgent>>
    BY <1>2, <1>4 DEF RecvOpenOk, ClientState, sharedVars
  <2> QED  BY <1>1, <1>2, <1>4, <2>1, LateReply
<1>5. CASE streams["client"][i] = "Opening"
  <2>1. /\ Answer(i, "ok", FALSE) /\ Become("client", i, "Open")
        /\ dropped' = [dropped EXCEPT !["client"][i] = ~Listening(o)]
        /\ UNCHANGED <<slots, session, permit, candidates, toAgent>>
        /\ UNCHANGED <<remoteClosed, closeQueued, pc, id, holdsSlot, opens, nextStreamId>>
        /\ UNCHANGED <<shutdown, highestStreamId, operations, relays, events>>
    BY <1>2, <1>5 DEF RecvOpenOk, ClientState, ClientReceives, sharedVars, handleVars, agentVars
  <2>2. /\ reply' \in [Callers -> Replies]
        /\ \A c \in Callers : id[c] # i => reply'[c] = reply[c]
        /\ Listening(o) => reply'[o].kind = "ok" /\ reply'[o].permit = FALSE
        /\ ~Listening(o) => reply'[o] = reply[o]
    BY <1>1, <1>2, <2>1, Answered
  <2>3. /\ streams' \in PerEnd(States) /\ streams'["client"][i] = "Open"
        /\ \A d \in Ends, j \in Ids : d # "client" \/ j # i => streams'[d][j] = streams[d][j]
    BY <1>1, <2>1, Becoming, TwoEnds DEF States
  <2>4. dropped' \in PerEnd(BOOLEAN)
    <3>1. dropped \in PerEnd(BOOLEAN)
      BY <1>1 DEF Types
    <3>2. PICK gone \in BOOLEAN : gone = ~Listening(o)
      BY DEF Listening
    <3>3. dropped' = [dropped EXCEPT !["client"][i] = gone]
      BY <2>1, <3>2
    <3> QED  BY <3>1, <3>3, TwoEnds DEF PerEnd
  <2>5. Types'
    <3>1. /\ UNCHANGED CallerSide /\ UNCHANGED agentVars
          /\ slots' \in Nat /\ permit' \in [Ids -> BOOLEAN] /\ candidates' \in PerEnd(BOOLEAN)
          /\ remoteClosed' \in PerEnd(BOOLEAN) /\ closeQueued' \in PerEnd(BOOLEAN)
          /\ events' \in PerEnd({"none", "Stopped", "LocalCloseQueued"})
          /\ toAgent' \in Seq(Frames(Requests))
      BY <1>1, <2>1 DEF Types, CallerSide, agentVars
    <3> QED  BY <1>1, <1>2, <2>1, <2>2, <2>3, <2>4, <3>1, ClientTypes DEF ClientTakes
  <2>6. OnlyClient(i) /\ SameRecord("agent", i) /\ SameSent(i)
    <3>1. \A d \in Ends, j \in Ids : d # "client" \/ j # i => SameRecord(d, j)
      BY <2>1, <2>3 DEF SameRecord
    <3> QED  BY <1>2, <2>1, <2>2, <3>1, TwoEnds DEF OnlyClient, ClientTakes, SameSent
  <2>7. (Literal(i)' <=> Literal(i)) /\ (Owned(i)' <=> Owned(i)) /\ (Fresh(i)' <=> Fresh(i))
    BY <2>1, SameOwner DEF Fresh
  <2>8. EntrySound(i)' /\ RecordSound("client", i)' /\ Clean("client", i)
    BY <1>2, <1>5, <2>1, <2>3, <2>7 DEF StreamSound, EntrySound, RecordSound, Clean
  <2>9. ClientReady(i)'
    BY <1>2, <1>5, <2>3 DEF ClientReady, ClientTakes, Told
  <2>10. ASSUME session["agent"] = "up" PROVE AgentReady(i)' /\ Agreed(i)'
    <3>1. Agreed(i) /\ AgentReady(i)
      BY <1>2, <2>10 DEF StreamSound
    <3>2. /\ streams["agent"][i] \in {"Open", "Closing"} /\ Asked(i, "none")
          /\ Told(i, "OPEN_OK") /\ ~In(toAgent, "CLOSE", i)
          /\ In(toClient, "CLOSE", i) <=> closeQueued["agent"][i]
      BY <1>2, <1>5, <3>1 DEF Agreed, Row, Told, ClientTakes
    <3>3. AgentReady(i)'
      BY <2>1, <2>6, <2>7, <3>1 DEF AgentReady, SameRecord, Clean
    <3>4. Agreed(i)'
      BY <1>2, <2>1, <2>3, <2>6, <2>8, <3>2
         DEF Agreed, Row, Asked, Told, ClientTakes, SameRecord, SameSent, Clean
    <3> QED  BY <3>3, <3>4
  <2>11. StreamSound(i)'
    BY <1>2, <2>6, <2>8, <2>9, <2>10, ClientSound
  <2>12. Permitted(o)' /\ Count(reply'[o].permit) = Count(reply[o].permit)
    <3>1. Permitted(o)' /\ (Listening(o) => ~reply[o].permit)
      BY <1>1, <1>2, <2>1, <2>2, PermittedAnswer
    <3> QED  BY <2>2, <3>1 DEF Count
  <2>13. Waiting(o)'
    <3>1. \A n \in 1 .. Len(commands') : commands'[n].id = i => ~Asks(commands'[n])
      BY <1>2, <1>5, BusyUnasked
    <3> QED  BY <1>2, <2>1, <2>3, <3>1, WaitingAnswer
  <2>14. PermitsAccounted'
    BY <1>2, <2>1, <2>5, <2>6, <2>8, <2>12, ClientAccounted
  <2>15. FramesNeat' /\ ~Unborn(i)
    BY <1>1, <1>2, <1>5, <2>1 DEF FramesNeat, ClientTakes, Unborn
  <2>16. StreamLimit'
    BY <1>5, <2>5, <2>6, ClientLimit
  <2>17. \A c \in Callers : id[c] = i => Waiting(c)' /\ Permitted(c)'
    BY <1>2, <2>12, <2>13
  <2> QED  BY <1>2, <2>1, <2>5, <2>6, <2>11, <2>14, <2>15, <2>16, <2>17, ClientFrame
<1> QED
  BY <1>3, <1>4, <1>5

LEMMA RecvOpenErrorStep ==
  ASSUME SessionInv, RecvOpenError
  PROVE  SessionInv'
<1>1. Types /\ IdsOwned /\ FramesNeat /\ ClientReceives("OPEN_ERROR")
  BY DEF SessionInv, RecvOpenError
<1>2. PICK i \in Ids, o \in Callers :
        /\ Head(toClient).id = i /\ ClientTakes("OPEN_ERROR", i) /\ id[o] = i /\ Owned(i)
        /\ session["client"] = "up" /\ commands' = commands
        /\ StreamSound(i) /\ ClientReady(i) /\ RecordSound("client", i)
        /\ Waiting(o) /\ Permitted(o) /\ Owner(i) = o /\ \A c \in Callers : id[c] = i => c = o
  BY <1>1, HeadReply
<1>3. streams["client"][i] \in {"Resolving", "Opening", "Closing"}
  BY <1>2 DEF ClientReady, ClientTakes
<1>4. CASE streams["client"][i] = "Closing"
  <2>1. UNCHANGED <<reply, slots, session, streams, candidates, permit, sharedVars, toAgent>>
    BY <1>2, <1>4 DEF RecvOpenError, ClientState, sharedVars
  <2> QED  BY <1>1, <1>2, <1>4, <2>1, LateReply
<1> DEFINE retry == streams["client"][i] = "Opening" /\ candidates["client"][i]
<1>5. ASSUME streams["client"][i] \in {"Resolving", "Opening"}
      PROVE  /\ retry \in BOOLEAN
             /\ permit \in [Ids -> BOOLEAN] /\ slots \in Nat
             /\ permit[i] <=> streams["client"][i] = "Opening"
             /\ retry <=> streams["client"][i] = "Opening" /\ ~Literal(i)
             /\ pc[o] \in (IF streams["client"][i] = "Opening" THEN {"opening", "done"}
                                                              ELSE {"resolving", "done"})
             /\ o \in Resolvers => ~Literal(i)
  <2>1. permit \in [Ids -> BOOLEAN] /\ slots \in Nat
    BY <1>1 DEF Types
  <2>2. /\ permit[i] <=> streams["client"][i] = "Opening"
        /\ retry <=> streams["client"][i] = "Opening" /\ ~Literal(i)
    BY <1>2, <1>5, <2>1 DEF StreamSound, EntrySound
  <2>3. pc[o] \in (IF streams["client"][i] = "Opening" THEN {"opening", "done"}
                                                      ELSE {"resolving", "done"})
    BY <1>2, <1>5, IdsAreNumbers DEF Waiting, Awaits
  <2>4. o \in Resolvers => ~Literal(i)
    BY <1>2, CallersAssumption DEF Literal, Callers
  <2>5. retry \in BOOLEAN
    BY <2>2
  <2> QED  BY <2>1, <2>2, <2>3, <2>4, <2>5
<1>6. CASE streams["client"][i] \in {"Resolving", "Opening"}
  <2>1. /\ \/ /\ streams["client"][i] = "Resolving" /\ Become("client", i, "none")
              /\ Answer(i, "remote", FALSE) /\ slots' = slots /\ permit' = permit
           \/ /\ streams["client"][i] = "Opening"
              /\ Become("client", i, IF retry THEN "Resolved" ELSE "none")
              /\ Answer(i, "remote", retry)
              /\ permit' = [permit EXCEPT ![i] = FALSE]
              /\ slots' = slots + (IF retry THEN Count(~Listening(o)) ELSE 1)
        /\ UNCHANGED <<session, candidates, toAgent>>
        /\ UNCHANGED <<dropped, remoteClosed, closeQueued, pc, id, holdsSlot, opens, nextStreamId>>
        /\ UNCHANGED <<shutdown, highestStreamId, operations, relays, events>>
    <3>1. \/ /\ streams["client"][i] = "Resolving" /\ Become("client", i, "none")
             /\ Answer(i, "remote", FALSE) /\ slots' = slots /\ permit' = permit
             /\ session' = session
          \/ /\ streams["client"][i] = "Opening"
             /\ Become("client", i, IF candidates["client"][i] THEN "Resolved" ELSE "none")
             /\ Answer(i, "remote", candidates["client"][i] /\ permit[i])
             /\ permit' = [permit EXCEPT ![i] = FALSE]
             /\ slots' = slots + (IF candidates["client"][i] THEN Undelivered(i, permit[i])
                                                            ELSE Count(permit[i]))
             /\ session' = session
      BY <1>2, <1>6 DEF RecvOpenError, ClientState
    <3>2. streams["client"][i] = "Opening" =>
             /\ permit[i] = TRUE /\ Undelivered(i, permit[i]) = Count(~Listening(o))
             /\ Count(permit[i]) = 1 /\ (candidates["client"][i] <=> retry)
             /\ (candidates["client"][i] /\ permit[i]) = retry
      BY <1>2, <1>5, <1>6 DEF Undelivered, Count
    <3> HIDE DEF retry
    <3>3. UNCHANGED <<candidates, toAgent, dropped, remoteClosed, closeQueued>>
      BY DEF RecvOpenError, sharedVars
    <3>4. /\ UNCHANGED <<pc, id, holdsSlot, opens, nextStreamId>>
          /\ UNCHANGED <<shutdown, highestStreamId, operations, relays, events>>
      BY <1>1 DEF ClientReceives, handleVars, agentVars
    <3> QED  BY <3>1, <3>2, <3>3, <3>4
  <2> HIDE DEF retry
  <2>2. /\ reply' \in [Callers -> Replies]
        /\ \A c \in Callers : id[c] # i => reply'[c] = reply[c]
        /\ Listening(o) => reply'[o].kind = "remote" /\ reply'[o].permit = retry
        /\ ~Listening(o) => reply'[o] = reply[o]
    <3>1. Answer(i, "remote", retry)
      BY <1>5, <1>6, <2>1 DEF retry
    <3> QED  BY <1>1, <1>2, <1>5, <1>6, <3>1, Answered
  <2>3. /\ streams' \in PerEnd(States)
        /\ streams'["client"][i] = IF retry THEN "Resolved" ELSE "none"
        /\ \A d \in Ends, j \in Ids : d # "client" \/ j # i => streams'[d][j] = streams[d][j]
    <3>1. Become("client", i, IF retry THEN "Resolved" ELSE "none")
      BY <2>1 DEF retry
    <3> QED  BY <1>1, <3>1, Becoming, TwoEnds DEF States
  <2>4. /\ permit' \in [Ids -> BOOLEAN] /\ ~permit'[i]
        /\ \A j \in Ids \ {i} : permit'[j] = permit[j]
    BY <1>5, <1>6, <2>1
  <2>5. slots' = slots + (IF streams["client"][i] # "Opening" THEN 0
                          ELSE IF retry THEN Count(~Listening(o)) ELSE 1)
    <3>1. CASE streams["client"][i] = "Opening"
      <4>1. slots' = slots + (IF retry THEN Count(~Listening(o)) ELSE 1)
        BY <2>1, <3>1
      <4> QED  BY <3>1, <4>1
    <3>2. CASE streams["client"][i] # "Opening"
      <4>1. slots' = slots /\ slots \in Nat
        BY <1>5, <1>6, <2>1, <3>2
      <4> QED  BY <3>2, <4>1
    <3> QED  BY <3>1, <3>2
  <2>6. slots' \in Nat
    BY <1>5, <1>6, <2>5, Counts
  <2>7. Types'
    <3>1. /\ UNCHANGED CallerSide /\ UNCHANGED agentVars
          /\ dropped' \in PerEnd(BOOLEAN) /\ candidates' \in PerEnd(BOOLEAN)
          /\ remoteClosed' \in PerEnd(BOOLEAN) /\ closeQueued' \in PerEnd(BOOLEAN)
          /\ events' \in PerEnd({"none", "Stopped", "LocalCloseQueued"})
          /\ toAgent' \in Seq(Frames(Requests))
      BY <1>1, <2>1 DEF Types, CallerSide, agentVars
    <3> QED  BY <1>1, <1>2, <2>1, <2>2, <2>3, <2>4, <2>6, <3>1, ClientTypes DEF ClientTakes
  <2>8. OnlyClient(i) /\ SameRecord("agent", i) /\ SameSent(i)
    <3>1. \A d \in Ends, j \in Ids : d # "client" \/ j # i => SameRecord(d, j)
      BY <2>1, <2>3 DEF SameRecord
    <3> QED  BY <1>2, <2>1, <2>2, <2>4, <3>1, TwoEnds DEF OnlyClient, ClientTakes, SameSent
  <2>9. (Literal(i)' <=> Literal(i)) /\ (Owned(i)' <=> Owned(i)) /\ (Fresh(i)' <=> Fresh(i))
    BY <2>1, SameOwner DEF Fresh
  <2>10. EntrySound(i)' /\ RecordSound("client", i)'
    BY <1>2, <1>5, <1>6, <2>1, <2>3, <2>4, <2>9 DEF EntrySound, RecordSound, Clean, retry
  <2>11. ClientReady(i)'
    BY <1>2, <1>6, <2>3 DEF ClientReady, ClientTakes, Told
  <2>12. ASSUME session["agent"] = "up" PROVE AgentReady(i)' /\ Agreed(i)'
    <3>1. Agreed(i) /\ AgentReady(i)
      BY <1>2, <2>12 DEF StreamSound
    <3>2. /\ streams["agent"][i] = (IF retry THEN "Resolved" ELSE "none")
          /\ Asked(i, "none") /\ Told(i, "OPEN_ERROR")
          /\ ~In(toAgent, "CLOSE", i) /\ ~In(toClient, "CLOSE", i)
      BY <1>2, <1>5, <1>6, <3>1 DEF Agreed, Row, Told, ClientTakes
    <3>3. AgentReady(i)'
      BY <2>1, <2>8, <2>9, <3>1 DEF AgentReady, SameRecord, Clean
    <3>4. Agreed(i)'
      BY <1>2, <2>3, <2>8, <3>2
         DEF Agreed, Row, Silent, Asked, Told, ClientTakes, SameRecord, SameSent
    <3> QED  BY <3>3, <3>4
  <2>13. StreamSound(i)'
    BY <1>2, <2>8, <2>10, <2>11, <2>12, ClientSound
  <2>14. Permitted(o)' /\ (Listening(o) => ~reply[o].permit)
    <3>1. Listening(o) =>
            /\ reply'[o].permit => pc[o] = "opening" /\ reply'[o].kind \in {"remote", "error"}
            /\ reply'[o].kind = "remote" /\ pc[o] = "opening" /\ o \in Resolvers =>
                  reply'[o].permit
      BY <1>5, <1>6, <2>2 DEF Listening
    <3> QED  BY <1>1, <1>2, <2>1, <2>2, <3>1, PermittedAnswer
  <2>15. Waiting(o)'
    <3>1. \A n \in 1 .. Len(commands') : commands'[n].id = i => ~Asks(commands'[n])
      BY <1>2, <1>6, BusyUnasked
    <3> QED  BY <1>2, <2>1, <2>3, <3>1, WaitingAnswer
  <2>16. slots' + Count(reply'[o].permit) + Count(permit'[i])
           = slots + Count(reply[o].permit) + Count(permit[i])
    <3>1. /\ Count(permit'[i]) = 0 /\ Count(reply[o].permit) \in Nat
          /\ Count(permit[i]) = IF streams["client"][i] = "Opening" THEN 1 ELSE 0
      BY <1>5, <1>6, <2>4, Counts DEF Count
    <3>2. Count(reply'[o].permit) = IF Listening(o) THEN Count(retry) ELSE Count(reply[o].permit)
      BY <2>2 DEF Count
    <3>3. Listening(o) => Count(reply[o].permit) = 0
      BY <2>14 DEF Count
    <3>4. retry => streams["client"][i] = "Opening"
      BY DEF retry
    <3> QED  BY <1>5, <1>6, <2>5, <3>1, <3>2, <3>3, <3>4 DEF Count
  <2>17. PermitsAccounted'
    BY <1>2, <2>7, <2>8, <2>10, <2>16, ClientAccounted
  <2>18. FramesNeat' /\ ~Unborn(i)
    BY <1>1, <1>2, <1>6, <2>1 DEF FramesNeat, ClientTakes, Unborn
  <2>19. StreamLimit'
    BY <1>6, <2>7, <2>8, ClientLimit
  <2>20. \A c \in Callers : id[c] = i => Waiting(c)' /\ Permitted(c)'
    BY <1>2, <2>14, <2>15
  <2> QED  BY <1>2, <2>1, <2>7, <2>8, <2>13, <2>17, <2>18, <2>19, <2>20, ClientFrame
<1> QED
  BY <1>3, <1>4, <1>6


LEMMA ClientRecvCloseStep ==
  ASSUME SessionInv, ClientRecvClose
  PROVE  SessionInv'
<1>1. Types /\ IdsOwned /\ FramesNeat /\ ClientReceives("CLOSE")
  BY DEF SessionInv, ClientRecvClose
<1>2. PICK i \in Ids, o \in Callers :
        /\ Head(toClient).id = i /\ ClientTakes("CLOSE", i) /\ id[o] = i /\ Owned(i)
        /\ session["client"] = "up" /\ commands' = commands
        /\ StreamSound(i) /\ ClientReady(i) /\ RecordSound("client", i)
        /\ Waiting(o) /\ Permitted(o) /\ Owner(i) = o /\ \A c \in Callers : id[c] = i => c = o
  BY <1>1, HeadReply
<1>3. streams["client"][i] \in {"Open", "Closing"} /\ Told(i, "none")
  BY <1>2 DEF ClientReady, ClientTakes, Told
<1>4. /\ \/ /\ streams["client"][i] = "Closing"
            /\ UNCHANGED <<remoteClosed, closeQueued, toAgent>>
         \/ /\ streams["client"][i] = "Open"
            /\ remoteClosed' = [remoteClosed EXCEPT !["client"][i] = TRUE]
            /\ closeQueued' = [closeQueued EXCEPT !["client"][i] = TRUE]
            /\ \/ closeQueued["client"][i] /\ toAgent' = toAgent
               \/ ~closeQueued["client"][i] /\ ToAgent("CLOSE", i)
      /\ slots' = slots + Count(permit[i]) /\ reply' = reply /\ session' = session
      /\ Become("client", i, "none")
      /\ permit' = [permit EXCEPT ![i] = FALSE]
      /\ UNCHANGED <<candidates, dropped>>
  BY <1>2, <1>3 DEF ClientRecvClose, ClientState, Become
<1>5. /\ UNCHANGED <<pc, id, holdsSlot, opens, nextStreamId>>
      /\ UNCHANGED <<shutdown, highestStreamId, operations, relays, events>>
  BY <1>1 DEF ClientReceives, handleVars, agentVars
<1>6. /\ streams' \in PerEnd(States) /\ streams'["client"][i] = "none"
      /\ \A d \in Ends, j \in Ids : d # "client" \/ j # i => streams'[d][j] = streams[d][j]
  BY <1>1, <1>4, Becoming, TwoEnds DEF States
<1>7. /\ permit' \in [Ids -> BOOLEAN] /\ ~permit'[i] /\ slots \in Nat
      /\ \A j \in Ids \ {i} : permit'[j] = permit[j]
  <2>1. permit \in [Ids -> BOOLEAN] /\ slots \in Nat
    BY <1>1 DEF Types
  <2>2. permit' = [permit EXCEPT ![i] = FALSE]
    BY <1>4
  <2> QED  BY <2>1, <2>2
<1>8. /\ remoteClosed' \in PerEnd(BOOLEAN) /\ closeQueued' \in PerEnd(BOOLEAN)
      /\ \A d \in Ends, j \in Ids : d # "client" \/ j # i =>
            remoteClosed'[d][j] = remoteClosed[d][j] /\ closeQueued'[d][j] = closeQueued[d][j]
  <2>1. remoteClosed \in PerEnd(BOOLEAN) /\ closeQueued \in PerEnd(BOOLEAN)
    BY <1>1 DEF Types
  <2>2. CASE UNCHANGED <<remoteClosed, closeQueued>>
    BY <2>1, <2>2
  <2>3. CASE /\ remoteClosed' = [remoteClosed EXCEPT !["client"][i] = TRUE]
             /\ closeQueued' = [closeQueued EXCEPT !["client"][i] = TRUE]
    BY <2>1, <2>3, TwoEnds DEF PerEnd
  <2> QED  BY <1>4, <2>2, <2>3
<1>9. \/ /\ streams["client"][i] = "Closing" \/ closeQueued["client"][i]
         /\ toAgent' = toAgent
      \/ /\ streams["client"][i] = "Open" /\ ~closeQueued["client"][i] /\ Sends("CLOSE", i)
         /\ toAgent' = Append(toAgent, Frame("CLOSE", i))
  BY <1>1, <1>4, Sending DEF Requests, ToAgent, Frame
<1>10. toAgent' \in Seq(Frames(Requests)) /\ \A j \in Ids \ {i} : SameSent(j)
  BY <1>1, <1>9 DEF Types, Sends, SameSent
<1>11. slots' \in Nat /\ slots' = slots + Count(permit[i]) /\ reply' = reply
  BY <1>4, <1>7, Counts
<1>12. Types'
  <2>1. /\ UNCHANGED CallerSide /\ UNCHANGED agentVars /\ reply' \in [Callers -> Replies]
        /\ dropped' \in PerEnd(BOOLEAN) /\ candidates' \in PerEnd(BOOLEAN)
        /\ events' \in PerEnd({"none", "Stopped", "LocalCloseQueued"})
    BY <1>1, <1>4, <1>5 DEF Types, CallerSide, agentVars
  <2> QED  BY <1>1, <1>2, <1>4, <1>6, <1>7, <1>8, <1>10, <1>11, <2>1, ClientTypes DEF ClientTakes
<1>13. OnlyClient(i) /\ SameRecord("agent", i)
  <2>1. \A d \in Ends, j \in Ids : d # "client" \/ j # i => SameRecord(d, j)
    BY <1>4, <1>5, <1>6, <1>8 DEF SameRecord
  <2> QED  BY <1>2, <1>4, <1>5, <1>7, <1>10, <2>1, TwoEnds DEF OnlyClient, ClientTakes
<1>14. (Literal(i)' <=> Literal(i)) /\ (Owned(i)' <=> Owned(i)) /\ (Fresh(i)' <=> Fresh(i))
  BY <1>5, SameOwner DEF Fresh
<1>15. EntrySound(i)' /\ RecordSound("client", i)' /\ ClientReady(i)'
  BY <1>2, <1>3, <1>4, <1>5, <1>6, <1>7
     DEF EntrySound, RecordSound, Clean, ClientReady, ClientTakes, Told
<1>16. ASSUME session["agent"] = "up" PROVE AgentReady(i)' /\ Agreed(i)' /\ Neat(toAgent')
  <2>1. Agreed(i) /\ AgentReady(i) /\ Neat(toAgent) /\ In(toClient, "CLOSE", i)
    BY <1>1, <1>2, <1>16 DEF StreamSound, FramesNeat, ClientTakes
  <2>2. \/ /\ streams["agent"][i] \in {"Open", "Closing"} /\ closeQueued["agent"][i]
           /\ Asked(i, "none")
           /\ streams["client"][i] = "Closing" => In(toAgent, "CLOSE", i)
           /\ streams["client"][i] = "Open" =>
                 (In(toAgent, "CLOSE", i) <=> closeQueued["client"][i])
        \/ /\ streams["agent"][i] \in {"none", "Cancelled"} /\ Asked(i, "none")
           /\ ~In(toAgent, "CLOSE", i)
           /\ streams["client"][i] = "Open" => closeQueued["client"][i]
    BY <1>3, <2>1 DEF Agreed, Row, Stages
  <2>3. /\ \A t \in {"RESOLVE", "OPEN"} : In(toAgent', t, i) <=> In(toAgent, t, i)
        /\ In(toAgent', "CLOSE", i) <=> streams["agent"][i] \in {"Open", "Closing"}
        /\ Neat(toAgent') /\ closeQueued'["agent"][i] = closeQueued["agent"][i]
    <3>1. CASE toAgent' = toAgent /\ (streams["client"][i] = "Closing" \/ closeQueued["client"][i])
      BY <1>3, <1>13, <2>1, <2>2, <3>1 DEF SameRecord
    <3>2. CASE streams["client"][i] = "Open" /\ ~closeQueued["client"][i] /\ Sends("CLOSE", i)
      BY <1>13, <2>1, <2>2, <3>2 DEF SameRecord, Sends
    <3> QED  BY <1>9, <3>1, <3>2
  <2>4. streams["agent"][i] \in {"Open", "Closing"} => ~Fresh(i)
    BY <2>1 DEF AgentReady
  <2>5. AgentReady(i)'
    BY <1>5, <1>13, <1>14, <2>1, <2>3, <2>4 DEF AgentReady, SameRecord, Clean
  <2>6. Agreed(i)'
    BY <1>2, <1>3, <1>6, <1>13, <2>2, <2>3
       DEF Agreed, Silent, Asked, Told, ClientTakes, SameRecord
  <2> QED  BY <2>3, <2>5, <2>6
<1>17. StreamSound(i)'
  BY <1>2, <1>13, <1>15, <1>16, ClientSound
<1>18. Waiting(o)' /\ Permitted(o)'
  <2>1. Waiting(o)'
    BY <1>1, <1>2, <1>5, <1>6, <1>11, WaitingKept
  <2> QED  BY <1>2, <1>5, <1>11, <2>1 DEF Permitted
<1>19. PermitsAccounted'
  <2>1. slots' + Count(reply'[o].permit) + Count(permit'[i])
          = slots + Count(reply[o].permit) + Count(permit[i])
    <3>1. Count(permit'[i]) = 0 /\ Count(reply[o].permit) \in Nat /\ Count(permit[i]) \in Nat
      BY <1>7, Counts DEF Count
    <3> QED  BY <1>7, <1>11, <3>1
  <2> QED  BY <1>2, <1>12, <1>13, <1>15, <2>1, ClientAccounted
<1>20. FramesNeat' /\ ~Unborn(i)
  BY <1>1, <1>2, <1>3, <1>4, <1>16 DEF FramesNeat, ClientTakes, Unborn
<1>21. StreamLimit'
  BY <1>6, <1>12, <1>13, ClientLimit
<1>22. \/ toAgent' = toAgent
       \/ \E t \in Requests : /\ toAgent' = Append(toAgent, Frame(t, i))
                              /\ ~Opens(Frame(t, i)) \/ Introducing(i)
  BY <1>9 DEF Requests, Opens, Frame
<1>23. \A c \in Callers : id[c] = i => Waiting(c)' /\ Permitted(c)'
  BY <1>2, <1>18
<1> QED
  BY <1>2, <1>12, <1>13, <1>17, <1>19, <1>20, <1>21, <1>22, <1>23, ClientFrame

LEMMA ClientWorkerStep ==
  ASSUME SessionInv, NEW i \in Ids, Worker("client", i)
  PROVE  SessionInv'
<1>1. /\ Types /\ IdsOwned /\ StreamSound(i) /\ FramesNeat /\ CallersSound
      /\ session["client"] = "up"
      /\ streams["client"][i] = "Open" /\ events["client"][i] = "none"
  BY DEF SessionInv, Worker
<1>2. RecordSound("client", i) /\ ClientReady(i) /\ Owned(i)
  BY <1>1, TwoEnds DEF StreamSound, EntrySound
<1>3. PICK o \in Callers : id[o] = i /\ \A c \in Callers : id[c] = i => c = o
  BY <1>1, <1>2, IdsAreNumbers DEF Owned, IdsOwned
<1>4. ~remoteClosed["client"][i] /\ ~closeQueued["client"][i]
  <2>1. closeQueued["client"][i] \in BOOLEAN
    BY <1>1, TwoEnds DEF Types, PerEnd
  <2> QED  BY <1>1, <1>2, <2>1 DEF RecordSound
<1>5. /\ events' = [events EXCEPT !["client"][i] = "LocalCloseQueued"]
      /\ closeQueued' = [closeQueued EXCEPT !["client"][i] = TRUE]
      /\ ToAgent("CLOSE", i) /\ toClient' = toClient
      /\ UNCHANGED <<callerVars, slots, handleVars, commands, session, permit>>
      /\ UNCHANGED <<streams, candidates, agentVars, dropped, remoteClosed>>
  BY <1>4 DEF Worker
<1>6. /\ events' \in PerEnd({"none", "Stopped", "LocalCloseQueued"})
      /\ closeQueued' \in PerEnd(BOOLEAN)
      /\ events'["client"][i] = "LocalCloseQueued" /\ closeQueued'["client"][i] = TRUE
      /\ \A d \in Ends, j \in Ids : d # "client" \/ j # i =>
            events'[d][j] = events[d][j] /\ closeQueued'[d][j] = closeQueued[d][j]
  <2>1. /\ events \in PerEnd({"none", "Stopped", "LocalCloseQueued"})
        /\ closeQueued \in PerEnd(BOOLEAN)
    BY <1>1 DEF Types
  <2> QED  BY <1>5, <2>1, TwoEnds DEF PerEnd
<1>7. Sends("CLOSE", i) /\ toAgent' = Append(toAgent, Frame("CLOSE", i))
  BY <1>1, <1>5, Sending DEF Requests, ToAgent, Frame
<1>8. /\ UNCHANGED <<pc, id, holdsSlot, opens, nextStreamId, reply>>
      /\ UNCHANGED <<shutdown, highestStreamId, operations, relays>>
  BY <1>5 DEF callerVars, handleVars, agentVars
<1>9. Types'
  <2>1. /\ UNCHANGED CallerSide /\ UNCHANGED agentVars
        /\ reply' \in [Callers -> Replies] /\ slots' \in Nat
        /\ streams' \in PerEnd(States) /\ candidates' \in PerEnd(BOOLEAN)
        /\ permit' \in [Ids -> BOOLEAN] /\ dropped' \in PerEnd(BOOLEAN)
        /\ remoteClosed' \in PerEnd(BOOLEAN) /\ toClient' \in Seq(Frames(Replied))
    BY <1>1, <1>5, <1>8 DEF Types, CallerSide, agentVars
  <2> QED  BY <1>1, <1>5, <1>6, <1>7, <2>1, ClientTypes DEF Sends
<1>10. OnlyClient(i) /\ SameRecord("agent", i) /\ SameTold(i)
  <2>1. \A d \in Ends, j \in Ids : d # "client" \/ j # i => SameRecord(d, j)
    BY <1>5, <1>6 DEF SameRecord
  <2> QED  BY <1>1, <1>2, <1>5, <1>7, <1>8, <2>1, TwoEnds DEF OnlyClient, Sends, SameTold
<1>11. (Literal(i)' <=> Literal(i)) /\ (Owned(i)' <=> Owned(i)) /\ (Fresh(i)' <=> Fresh(i))
  BY <1>8, SameOwner DEF Fresh
<1>12. EntrySound(i)' /\ RecordSound("client", i)' /\ ClientReady(i)'
  BY <1>1, <1>2, <1>4, <1>5, <1>6, <1>10, <1>11
     DEF StreamSound, EntrySound, RecordSound, ClientReady, SameTold, Told
<1>13. ASSUME session["agent"] = "up" PROVE AgentReady(i)' /\ Agreed(i)' /\ Neat(toAgent')
  <2>1. Agreed(i) /\ AgentReady(i) /\ Neat(toAgent)
    BY <1>1, <1>13 DEF StreamSound, FramesNeat
  <2>2. /\ ~In(toAgent, "CLOSE", i) /\ streams["agent"][i] \in {"Open", "Closing"}
        /\ Row(i, "Open", streams["agent"][i])
    BY <1>1, <1>4, <2>1 DEF Agreed, Row
  <2>3. AgentReady(i)'
    BY <1>7, <1>8, <1>10, <1>11, <2>1, <2>2 DEF AgentReady, Sends, SameRecord, Clean
  <2>4. Agreed(i)'
    BY <1>1, <1>5, <1>6, <1>7, <1>10, <2>2
       DEF Agreed, Row, Asked, Told, Sends, SameRecord, SameTold
  <2> QED  BY <1>7, <2>1, <2>2, <2>3, <2>4 DEF Sends
<1>14. StreamSound(i)'
  BY <1>1, <1>10, <1>12, <1>13, ClientSound
<1>15. \A c \in Callers : id[c] = i => Waiting(c)' /\ Permitted(c)'
  <2>1. Waiting(o) /\ Permitted(o)
    BY <1>1 DEF CallersSound
  <2>2. Waiting(o)'
    BY <1>1, <1>5, <1>8, <2>1, WaitingKept
  <2>3. Permitted(o)'
    BY <1>8, <2>1 DEF Permitted
  <2> QED  BY <1>3, <2>2, <2>3
<1>16. PermitsAccounted'
  BY <1>3, <1>5, <1>8, <1>9, <1>10, <1>12, ClientAccounted
<1>17. FramesNeat' /\ ~Unborn(i)
  BY <1>1, <1>5, <1>13 DEF FramesNeat, Unborn
<1>18. StreamLimit'
  BY <1>1, <1>9, <1>10, ClientLimit
<1>19. \E t \in Requests : /\ toAgent' = Append(toAgent, Frame(t, i))
                           /\ ~Opens(Frame(t, i)) \/ Introducing(i)
  BY <1>7 DEF Requests, Opens, Frame
<1> QED
  BY <1>5, <1>9, <1>10, <1>14, <1>15, <1>16, <1>17, <1>18, <1>19, ClientFrame


LEMMA ClientEventStep ==
  ASSUME SessionInv, NEW i \in Ids, HandleWorkerEvent("client", i)
  PROVE  SessionInv'
<1>1. /\ Types /\ StreamSound(i) /\ FramesNeat /\ CallersSound /\ PermitsAccounted
      /\ session["client"] = "up" /\ events["client"][i] # "none"
  BY DEF SessionInv, HandleWorkerEvent
<1>2. /\ RecordSound("client", i) /\ ClientReady(i)
      /\ events["client"][i] # "Stopped" /\ events["client"][i] = "LocalCloseQueued"
      /\ streams["client"][i] \notin {"Resolving", "Resolved", "Opening"}
      /\ streams["client"][i] = "Open" => closeQueued["client"][i]
  <2>1. events["client"][i] \in {"none", "Stopped", "LocalCloseQueued"}
    BY <1>1, TwoEnds DEF Types, PerEnd
  <2> QED  BY <1>1, <2>1, TwoEnds DEF StreamSound, RecordSound, Clean
<1> DEFINE after == IF streams["client"][i] = "Open" THEN "Closing" ELSE streams["client"][i]
<1>3. /\ events' = [events EXCEPT !["client"][i] = "none"]
      /\ streams' = [streams EXCEPT !["client"][i] = after]
      /\ slots' = slots /\ permit' = permit
      /\ UNCHANGED <<callerVars, handleVars, commands, session, candidates, agentVars,
                     sharedVars, toAgent, toClient>>
  <2>1. Count(FALSE) = 0 /\ slots \in Nat /\ permit \in [Ids -> BOOLEAN]
    BY <1>1 DEF Count, Types
  <2>2. streams["client"][i] = "Open" /\ events["client"][i] = "Stopped" <=> FALSE
    BY <1>2
  <2>3. slots' = slots
    BY <2>1, <2>2 DEF HandleWorkerEvent, Count
  <2>4. permit' = permit
    BY <2>1, <2>2 DEF HandleWorkerEvent
  <2> QED  BY <1>2, <2>3, <2>4 DEF HandleWorkerEvent
<1>4. streams["client"][i] \in States /\ after \in States
  <2>1. streams["client"][i] \in States
    BY <1>1, TwoEnds DEF Types, PerEnd
  <2> QED  BY <2>1 DEF States
<1>5. /\ events' \in PerEnd({"none", "Stopped", "LocalCloseQueued"})
      /\ streams' \in PerEnd(States)
      /\ events'["client"][i] = "none" /\ streams'["client"][i] = after
      /\ \A d \in Ends, j \in Ids : d # "client" \/ j # i =>
            events'[d][j] = events[d][j] /\ streams'[d][j] = streams[d][j]
  <2>1. /\ events \in PerEnd({"none", "Stopped", "LocalCloseQueued"})
        /\ streams \in PerEnd(States)
    BY <1>1 DEF Types
  <2> HIDE DEF after
  <2> QED  BY <1>3, <1>4, <2>1, TwoEnds DEF PerEnd
<1>6. /\ UNCHANGED <<pc, id, holdsSlot, opens, nextStreamId, reply, commands, session>>
      /\ UNCHANGED <<shutdown, highestStreamId, operations, relays, candidates>>
      /\ UNCHANGED <<dropped, remoteClosed, closeQueued, toAgent, toClient, slots, permit>>
  BY <1>3 DEF callerVars, handleVars, agentVars, sharedVars
<1>7. Types'
  <2>1. /\ UNCHANGED CallerSide /\ UNCHANGED agentVars
        /\ reply' \in [Callers -> Replies] /\ slots' \in Nat
        /\ candidates' \in PerEnd(BOOLEAN) /\ closeQueued' \in PerEnd(BOOLEAN)
        /\ permit' \in [Ids -> BOOLEAN] /\ dropped' \in PerEnd(BOOLEAN)
        /\ remoteClosed' \in PerEnd(BOOLEAN) /\ toClient' \in Seq(Frames(Replied))
        /\ toAgent' \in Seq(Frames(Requests))
    BY <1>1, <1>6 DEF Types, CallerSide, agentVars
  <2> QED  BY <1>1, <1>5, <1>6, <2>1, ClientTypes
<1>8. ~Unborn(i)
  BY <1>1 DEF Unborn, Clean
<1>9. OnlyClient(i) /\ SameRecord("agent", i) /\ SameTold(i) /\ SameSent(i)
  <2>1. \A d \in Ends, j \in Ids : d # "client" \/ j # i => SameRecord(d, j)
    BY <1>5, <1>6 DEF SameRecord
  <2> QED  BY <1>1, <1>6, <1>8, <2>1, TwoEnds DEF OnlyClient, SameTold, SameSent
<1>10. (Literal(i)' <=> Literal(i)) /\ (Owned(i)' <=> Owned(i)) /\ (Fresh(i)' <=> Fresh(i))
  BY <1>6, SameOwner DEF Fresh
<1>11. EntrySound(i)' /\ RecordSound("client", i)' /\ ClientReady(i)'
  BY <1>1, <1>2, <1>5, <1>6, <1>9, <1>10
     DEF StreamSound, EntrySound, RecordSound, ClientReady, SameTold, Told
<1>12. ASSUME session["agent"] = "up" PROVE AgentReady(i)' /\ Agreed(i)'
  <2>1. Agreed(i) /\ AgentReady(i)
    BY <1>1, <1>12 DEF StreamSound
  <2>2. AgentReady(i)'
    BY <1>6, <1>9, <1>10, <2>1 DEF AgentReady, SameRecord, SameSent, Clean
  <2>3. Agreed(i)'
    BY <1>2, <1>5, <1>6, <1>9, <1>10, <2>1
       DEF Agreed, Row, Asked, Told, Silent, SameSent, SameTold, SameRecord, Stages
  <2> QED  BY <2>2, <2>3
<1>13. StreamSound(i)'
  BY <1>1, <1>9, <1>11, <1>12, ClientSound
<1>14. ASSUME NEW c \in Callers PROVE Waiting(c)' /\ Permitted(c)'
  <2>1. Waiting(c) /\ Permitted(c)
    BY <1>1 DEF CallersSound
  <2>2. id[c] # 0 => \/ streams'["client"][id[c]] = streams["client"][id[c]]
                     \/ streams'["client"][id[c]] \notin {"Resolving", "Opening"}
    <3>1. id[c] # 0 => id[c] \in Ids
      BY <1>1 DEF Types
    <3> QED  BY <1>2, <1>5, <3>1, TwoEnds
  <2>3. Waiting(c)'
    BY <1>1, <1>6, <2>1, <2>2, WaitingKept
  <2>4. Permitted(c)'
    BY <1>6, <2>1 DEF Permitted
  <2> QED  BY <2>3, <2>4
<1>15. PermitsAccounted'
  <2>1. ASSUME NEW j \in Ids, streams'["client"][j] \in {"Opening", "Open"} PROVE permit'[j]
    BY <1>1, <1>5, <1>6, <2>1, TwoEnds DEF PermitsAccounted
  <2>2. /\ Permits' = Permits /\ ReplyPermits' = ReplyPermits
        /\ CommandPermits' = CommandPermits /\ EntryPermits' = EntryPermits
    BY <1>6 DEF Permits, ReplyPermits, CommandPermits, EntryPermits
  <2> QED  BY <1>1, <1>6, <2>1, <2>2 DEF PermitsAccounted
<1>16. FramesNeat'
  BY <1>1, <1>6 DEF FramesNeat
<1>17. StreamLimit'
  <2>1. streams["client"][i] # "none" \/ streams'["client"][i] = "none"
    BY <1>5
  <2> QED  BY <1>7, <1>9, <2>1, ClientLimit
<1> QED
  BY <1>6, <1>7, <1>8, <1>9, <1>13, <1>14, <1>15, <1>16, <1>17, ClientFrame


LEMMA ClientEndsStep ==
  ASSUME SessionInv, ClientEnds
  PROVE  SessionInv'
<1>1. /\ session' = [session EXCEPT !["client"] = "ended"]
      /\ streams' = [streams EXCEPT !["client"] = [i \in Ids |-> "none"]]
      /\ permit' = [i \in Ids |-> FALSE] /\ commands' = <<>>
      /\ slots' = slots + Cardinality({i \in Ids : permit[i]})
                        + Cardinality({n \in 1 .. Len(commands) : commands[n].permit})
      /\ reply' = [c \in Callers |->
                      IF Listening(c) THEN [kind |-> "error", permit |-> FALSE] ELSE reply[c]]
      /\ remoteClosed' = [remoteClosed EXCEPT !["client"] =
                             [i \in Ids |-> @[i] \/ streams["client"][i] = "Open"]]
      /\ UNCHANGED <<pc, id, holdsSlot, opens, candidates, dropped, closeQueued>>
      /\ UNCHANGED <<nextStreamId, shutdown, highestStreamId, operations, relays>>
      /\ UNCHANGED <<events, toAgent, toClient>>
  BY DEF ClientEnds, handleVars, agentVars
<1>2. /\ Types /\ Ordered /\ FramesNeat /\ IdsOwned /\ CallersSound /\ PermitsAccounted
      /\ NoProtocolError
  BY DEF SessionInv
<1>3. /\ session' \in [Ends -> {"up", "protocolError", "ended"}]
      /\ session'["client"] = "ended" /\ session'["agent"] = session["agent"]
      /\ streams' \in PerEnd(States) /\ remoteClosed' \in PerEnd(BOOLEAN)
      /\ \A j \in Ids :
            /\ streams'["client"][j] = "none" /\ streams'["agent"][j] = streams["agent"][j]
            /\ remoteClosed'["agent"][j] = remoteClosed["agent"][j]
            /\ remoteClosed'["client"][j] => remoteClosed["client"][j] \/ streams["client"][j] = "Open"
  <2>1. /\ session \in [Ends -> {"up", "protocolError", "ended"}] /\ streams \in PerEnd(States)
        /\ remoteClosed \in PerEnd(BOOLEAN)
    BY <1>2 DEF Types
  <2>2. /\ session' \in [Ends -> {"up", "protocolError", "ended"}]
        /\ session'["client"] = "ended" /\ session'["agent"] = session["agent"]
    BY <1>1, <2>1, TwoEnds
  <2>3. /\ streams' \in PerEnd(States)
        /\ \A j \in Ids :
              streams'["client"][j] = "none" /\ streams'["agent"][j] = streams["agent"][j]
    BY <1>1, <2>1, TwoEnds DEF PerEnd, States
  <2>4. /\ remoteClosed' \in PerEnd(BOOLEAN)
        /\ \A j \in Ids :
              /\ remoteClosed'["agent"][j] = remoteClosed["agent"][j]
              /\ remoteClosed'["client"][j] =>
                    remoteClosed["client"][j] \/ streams["client"][j] = "Open"
    BY <1>1, <2>1, TwoEnds DEF PerEnd
  <2> QED  BY <2>2, <2>3, <2>4
<1>4. reply' \in [Callers -> Replies] /\ \A c \in Callers :
         /\ Listening(c) => reply'[c].kind = "error" /\ reply'[c].permit = FALSE
         /\ ~Listening(c) => reply'[c] = reply[c]
  <2>1. reply \in [Callers -> Replies] /\ [kind |-> "error", permit |-> FALSE] \in Replies
    BY <1>2 DEF Types, Replies
  <2> QED  BY <1>1, <2>1
<1>5. /\ Cardinality(EntryPermits) \in Nat /\ Cardinality(CommandPermits) \in Nat
      /\ slots' = slots + Cardinality(EntryPermits) + Cardinality(CommandPermits)
      /\ slots \in Nat /\ slots' \in Nat
  <2>1. IsFiniteSet(EntryPermits)
    BY IdsAreNumbers, FS_Subset DEF EntryPermits
  <2>2. IsFiniteSet(CommandPermits)
    <3>1. IsFiniteSet(1 .. Len(commands))
      BY <1>2, PlacesFinite
    <3> QED  BY <3>1, FS_Subset DEF CommandPermits
  <2>3. Cardinality(EntryPermits) \in Nat /\ Cardinality(CommandPermits) \in Nat
    BY <2>1, <2>2, FS_CardinalityType
  <2>4. slots' = slots + Cardinality(EntryPermits) + Cardinality(CommandPermits)
    BY <1>1 DEF EntryPermits, CommandPermits
  <2>5. slots \in Nat
    BY <1>2 DEF Types
  <2> QED  BY <2>3, <2>4, <2>5
<1>6. permit' \in [Ids -> BOOLEAN] /\ (\A j \in Ids : ~permit'[j])
      /\ commands' \in Seq(Commands) /\ Len(commands') = 0
  BY <1>1
<1>7. Types'
  <2>1. UNCHANGED CallerSide
    BY <1>1 DEF CallerSide
  <2>2. /\ candidates' \in PerEnd(BOOLEAN) /\ highestStreamId' \in Ids \cup {0}
        /\ operations' \in [Ids -> {"none", "resolve", "open"}] /\ relays' \in SUBSET Ids
        /\ dropped' \in PerEnd(BOOLEAN) /\ closeQueued' \in PerEnd(BOOLEAN)
        /\ events' \in PerEnd({"none", "Stopped", "LocalCloseQueued"})
        /\ toAgent' \in Seq(Frames(Requests)) /\ toClient' \in Seq(Frames(Replied))
    BY <1>1, <1>2 DEF Types
  <2> QED  BY <1>2, <1>3, <1>4, <1>5, <1>6, <2>1, <2>2, DriverTypes
<1>8. /\ closeQueued' = closeQueued /\ events' = events
      /\ candidates' = candidates /\ id' = id
      /\ UNCHANGED <<toAgent, toClient, highestStreamId, pc, nextStreamId, operations, relays>>
      /\ holdsSlot' = holdsSlot
  BY <1>1
<1>9. ASSUME NEW j \in Ids PROVE StreamSound(j)'
  <2>1. StreamSound(j) /\ (Literal(j)' <=> Literal(j)) /\ (Owned(j)' <=> Owned(j))
        /\ (Fresh(j)' <=> Fresh(j))
    BY <1>8, SameOwner DEF SessionInv, Fresh
  <2>2. EntrySound(j)'
    BY <1>3, <1>6 DEF EntrySound
  <2>3. RecordSound("client", j)' /\ RecordSound("agent", j)'
    BY <1>3, <1>8, <2>1, TwoEnds DEF StreamSound, RecordSound, Clean
  <2>4. session'["agent"] = "up" => AgentReady(j)'
    BY <1>3, <1>8, <2>1 DEF StreamSound, AgentReady, Clean
  <2> QED  BY <1>3, <2>2, <2>3, <2>4, TwoEnds DEF StreamSound
<1>10. \A j \in Ids : Unborn(j) => Unborn(j)'
  BY <1>3, <1>8 DEF Unborn, Silent, Asked, Told, Clean, Fresh
<1>11. Ordered'
  <2>1. \A c \in Callers : pc[c] = "sending" => id[c] \in Ids
    BY <1>2 DEF Types, IdsOwned
  <2>2. \A frame : Opens(frame)' <=> Opens(frame)
    BY <1>8 DEF Opens, Literal
  <2>3. \A x : Fresh(x)' <=> Fresh(x)
    BY <1>8 DEF Fresh
  <2> QED  BY <1>2, <1>6, <1>8, <1>10, <2>1, <2>2, <2>3 DEF Ordered
<1>12. FramesNeat' /\ NoProtocolError' /\ EndedEmpty'
  BY <1>1, <1>2, <1>3, <1>8, TwoEnds DEF FramesNeat, NoProtocolError, EndedEmpty
<1>13. StreamLimit'
  <2>1. Entries("client")' = {} /\ Entries("agent")' = Entries("agent")
    BY <1>3 DEF Entries
  <2>2. Operations' = Operations /\ relays' = relays
    BY <1>8 DEF Operations
  <2>3. Cardinality({}) = 0
    BY FS_EmptySet
  <2>4. /\ Cardinality(Entries("agent")) <= MaxStreams
        /\ Cardinality(relays) + Cardinality(Operations) <= MaxStreams
    BY TwoEnds DEF SessionInv, StreamLimit
  <2> QED  BY <2>1, <2>2, <2>3, <2>4, TwoEnds DEF StreamLimit
<1>14. IdsOwned' /\ CommandsSound' /\ AsksOnce' /\ Len(commands') <= CommandCapacity
  BY <1>2, <1>6, <1>8 DEF IdsOwned, CommandsSound, AsksOnce
<1>15. ASSUME NEW c \in Callers
       PROVE  Waiting(c)' /\ Permitted(c)' /\ (reply'[c].permit <=> reply[c].permit)
  <2>1. Waiting(c) /\ Permitted(c) /\ (id[c] # 0 => id[c] \in Ids)
    BY <1>2 DEF CallersSound, Types
  <2>2. Waiting(c)'
    BY <1>3, <1>6, <1>8, <2>1 DEF Waiting
  <2>3. CASE Listening(c)
    BY <1>4, <1>8, <2>1, <2>2, <2>3 DEF Permitted, Listening
  <2>4. CASE ~Listening(c)
    BY <1>4, <1>8, <2>1, <2>2, <2>4 DEF Permitted
  <2> QED  BY <2>3, <2>4
<1>16. PermitsAccounted'
  <2>1. /\ Permits' = Permits /\ ReplyPermits' = ReplyPermits
        /\ CommandPermits' = {} /\ EntryPermits' = {}
    BY <1>6, <1>8, <1>15 DEF Permits, ReplyPermits, CommandPermits, EntryPermits
  <2>2. Cardinality({}) = 0
    BY FS_EmptySet
  <2>3. /\ slots + Cardinality(Permits) + Cardinality(ReplyPermits)
             + Cardinality(CommandPermits) + Cardinality(EntryPermits) = MaxStreams
        /\ Cardinality(Permits) \in Nat /\ Cardinality(ReplyPermits) \in Nat
    <3>1. IsFiniteSet(Permits) /\ IsFiniteSet(ReplyPermits)
      BY FS_Subset, CallersAssumption DEF Permits, ReplyPermits
    <3> QED  BY <1>2, <3>1, FS_CardinalityType DEF PermitsAccounted
  <2>4. slots' + Cardinality(Permits') + Cardinality(ReplyPermits')
          + Cardinality(CommandPermits') + Cardinality(EntryPermits') = MaxStreams
    BY <1>5, <2>1, <2>2, <2>3
  <2> QED  BY <1>3, <2>4 DEF PermitsAccounted
<1>17. CallersSound'
  BY <1>15 DEF CallersSound
<1> QED
  BY <1>7, <1>9, <1>11, <1>12, <1>13, <1>14, <1>16, <1>17 DEF SessionInv


-----------------------------------------------------------------------------
(***************************************************************************)
(* The callers' steps.  They change nothing of the drivers, except the     *)
(* command queue.                                                          *)
(***************************************************************************)
Request(t, i, p) == [type |-> t, id |-> i, permit |-> p]

\* A step of caller c.
OnlyCaller(c) ==
    /\ UNCHANGED DriverSide
    /\ \A d \in Callers \ {c} :
          pc'[d] = pc[d] /\ holdsSlot'[d] = holdsSlot[d] /\ reply'[d] = reply[d]

\* The command that caller c queues.
Queues(c, t, p) ==
    /\ commands' = Append(commands, Request(t, id[c], p))
    /\ Len(commands) < CommandCapacity /\ session["client"] = "up"
    /\ t \in CommandTypes /\ p \in BOOLEAN /\ id[c] \in Ids
    /\ p <=> t \in {"Open", "OpenIp"}
    /\ t = "OpenIp" => Literal(id[c])
    /\ t = "Resolve" => ~Literal(id[c])
    /\ t \in {"Resolve", "Open", "OpenIp"} => Unasked(id[c])
    /\ t \in {"Resolve", "OpenIp"} => pc[c] = "sending" /\ pc'[c] # "sending"

LEMMA Queued ==
  ASSUME Types, NEW c \in Callers, NEW t, NEW p, Queues(c, t, p)
  PROVE  /\ Request(t, id[c], p) \in Commands /\ Len(commands) \in Nat
         /\ commands' \in Seq(Commands) /\ Len(commands') = Len(commands) + 1
         /\ \A n \in 1 .. Len(commands') :
               \/ n \in 1 .. Len(commands) /\ commands'[n] = commands[n]
               \/ /\ n = Len(commands) + 1 /\ commands'[n].type = t
                  /\ commands'[n].id = id[c] /\ commands'[n].permit = p
         /\ \A n \in 1 .. Len(commands) : commands'[n] = commands[n] /\ n \in 1 .. Len(commands')
         /\ Len(commands) + 1 \in 1 .. Len(commands')
<1>1. Request(t, id[c], p) \in Commands /\ commands \in Seq(Commands)
  BY DEF Types, Queues, Request, Commands
<1>2. /\ Request(t, id[c], p).type = t /\ Request(t, id[c], p).id = id[c]
      /\ Request(t, id[c], p).permit = p
  BY DEF Request
<1>3. commands' = Append(commands, Request(t, id[c], p))
  BY DEF Queues
<1>4. /\ commands' \in Seq(Commands) /\ Len(commands') = Len(commands) + 1 /\ Len(commands) \in Nat
      /\ commands'[Len(commands) + 1] = Request(t, id[c], p)
      /\ \A n \in 1 .. Len(commands) : commands'[n] = commands[n]
      /\ \A n \in 1 .. Len(commands') : n \in 1 .. Len(commands) \/ n = Len(commands) + 1
  BY <1>1, <1>3, Appended
<1> QED
  BY <1>1, <1>2, <1>4

LEMMA QueuedPermits ==
  ASSUME Types, NEW c \in Callers, NEW t, NEW p, Queues(c, t, p)
  PROVE  /\ Cardinality(CommandPermits) \in Nat /\ Cardinality(CommandPermits') \in Nat
         /\ Cardinality(CommandPermits') = Cardinality(CommandPermits) + Count(p)
<1> DEFINE A == CommandPermits
           B == CommandPermits'
           k == Len(commands) + 1
<1>1. /\ Len(commands) \in Nat /\ Len(commands') = k
      /\ \A n \in 1 .. Len(commands') :
            \/ n \in 1 .. Len(commands) /\ commands'[n] = commands[n]
            \/ n = k /\ commands'[n].permit = p
  BY Queued
<1>2. A \in SUBSET (1 .. k) /\ B \in SUBSET (1 .. k) /\ k \notin A
  BY <1>1 DEF CommandPermits
<1>3. k \in B <=> p
  BY <1>1 DEF CommandPermits
<1>4. \A y : y # k => (y \in B <=> y \in A)
  BY <1>1 DEF CommandPermits
<1>5. IsFiniteSet(1 .. k)
  <2>1. k \in Int /\ 1 \in Int
    BY <1>1
  <2> QED  BY <2>1, FS_Interval
<1> HIDE DEF A, B, k
<1>6. /\ Cardinality(A) \in Nat /\ Cardinality(B) \in Nat
      /\ Cardinality(B) + Count(k \in A) = Cardinality(A) + Count(k \in B)
  BY <1>2, <1>4, <1>5, OneDiffers
<1>7. Count(k \in A) = 0 /\ Count(k \in B) = Count(p) /\ Count(p) \in Nat
  BY <1>2, <1>3, Counts DEF Count
<1>8. /\ Cardinality(A) \in Nat /\ Cardinality(B) \in Nat
      /\ Cardinality(B) = Cardinality(A) + Count(p)
  BY <1>6, <1>7
<1> QED
  BY <1>8 DEF A, B

\* The permits a step of a caller moves.
LEMMA CallerAccounted ==
  ASSUME SessionInv, Types', NEW c \in Callers, OnlyCaller(c),
         \/ /\ commands' = commands
            /\ slots' + Count(holdsSlot'[c]) + Count(reply'[c].permit)
                 = slots + Count(holdsSlot[c]) + Count(reply[c].permit)
         \/ \E t \in CommandTypes, p \in BOOLEAN :
               /\ Queues(c, t, p)
               /\ slots' + Count(holdsSlot'[c]) + Count(reply'[c].permit) + Count(p)
                    = slots + Count(holdsSlot[c]) + Count(reply[c].permit)
  PROVE  PermitsAccounted'
<1>1. Types /\ PermitsAccounted /\ streams' = streams /\ permit' = permit
  BY DEF SessionInv, OnlyCaller, DriverSide
<1>2. EntryPermits' = EntryPermits
  BY <1>1 DEF EntryPermits
<1>3. /\ Cardinality(ReplyPermits) \in Nat /\ Cardinality(ReplyPermits') \in Nat
      /\ Cardinality(ReplyPermits') + Count(reply[c].permit)
           = Cardinality(ReplyPermits) + Count(reply'[c].permit)
  <2> DEFINE A == ReplyPermits
             B == ReplyPermits'
  <2>1. /\ A \in SUBSET Callers /\ B \in SUBSET Callers
        /\ \A y : y # c => (y \in B <=> y \in A)
    BY DEF ReplyPermits, OnlyCaller
  <2>2. (c \in A <=> reply[c].permit) /\ (c \in B <=> reply'[c].permit)
    BY DEF ReplyPermits
  <2> HIDE DEF A, B
  <2>3. /\ Cardinality(A) \in Nat /\ Cardinality(B) \in Nat
        /\ Cardinality(B) + Count(c \in A) = Cardinality(A) + Count(c \in B)
    BY <2>1, OneDiffers, CallersAssumption
  <2>4. Count(c \in A) = Count(reply[c].permit) /\ Count(c \in B) = Count(reply'[c].permit)
    BY <2>2 DEF Count
  <2> QED  BY <2>3, <2>4 DEF A, B
<1>4. /\ Cardinality(Permits) \in Nat /\ Cardinality(Permits') \in Nat
      /\ Cardinality(Permits') + Count(holdsSlot[c])
           = Cardinality(Permits) + Count(holdsSlot'[c])
  <2> DEFINE A == Permits
             B == Permits'
  <2>1. /\ A \in SUBSET Callers /\ B \in SUBSET Callers
        /\ \A y : y # c => (y \in B <=> y \in A)
    BY DEF Permits, OnlyCaller
  <2>2. (c \in A <=> holdsSlot[c]) /\ (c \in B <=> holdsSlot'[c])
    BY DEF Permits
  <2> HIDE DEF A, B
  <2>3. /\ Cardinality(A) \in Nat /\ Cardinality(B) \in Nat
        /\ Cardinality(B) + Count(c \in A) = Cardinality(A) + Count(c \in B)
    BY <2>1, OneDiffers, CallersAssumption
  <2>4. Count(c \in A) = Count(holdsSlot[c]) /\ Count(c \in B) = Count(holdsSlot'[c])
    BY <2>2 DEF Count
  <2> QED  BY <2>3, <2>4 DEF A, B
<1>5. /\ slots + Cardinality(Permits) + Cardinality(ReplyPermits)
           + Cardinality(CommandPermits) + Cardinality(EntryPermits) = MaxStreams
      /\ slots \in Nat /\ slots' \in Nat
      /\ Cardinality(CommandPermits) \in Nat /\ Cardinality(EntryPermits) \in Nat
  <2>1. IsFiniteSet(EntryPermits)
    BY FS_Subset, IdsAreNumbers DEF EntryPermits
  <2>2. IsFiniteSet(CommandPermits)
    <3>1. IsFiniteSet(1 .. Len(commands))
      BY <1>1, PlacesFinite
    <3> QED  BY <3>1, FS_Subset DEF CommandPermits
  <2> QED  BY <1>1, <2>1, <2>2, FS_CardinalityType DEF PermitsAccounted, Types
<1>6. /\ Count(reply[c].permit) \in Nat /\ Count(reply'[c].permit) \in Nat
      /\ Count(holdsSlot[c]) \in Nat /\ Count(holdsSlot'[c]) \in Nat
  BY Counts
<1>7. slots' + Cardinality(Permits') + Cardinality(ReplyPermits')
        + Cardinality(CommandPermits') + Cardinality(EntryPermits') = MaxStreams
  <2>1. CASE /\ commands' = commands
             /\ slots' + Count(holdsSlot'[c]) + Count(reply'[c].permit)
                  = slots + Count(holdsSlot[c]) + Count(reply[c].permit)
    <3>1. CommandPermits' = CommandPermits
      BY <2>1 DEF CommandPermits
    <3> QED  BY <1>2, <1>3, <1>4, <1>5, <1>6, <2>1, <3>1
  <2>2. ASSUME NEW t \in CommandTypes, NEW p \in BOOLEAN, Queues(c, t, p),
               slots' + Count(holdsSlot'[c]) + Count(reply'[c].permit) + Count(p)
                 = slots + Count(holdsSlot[c]) + Count(reply[c].permit)
        PROVE  slots' + Cardinality(Permits') + Cardinality(ReplyPermits')
                 + Cardinality(CommandPermits') + Cardinality(EntryPermits') = MaxStreams
    <3>1. /\ Cardinality(CommandPermits') \in Nat /\ Count(p) \in Nat
          /\ Cardinality(CommandPermits') = Cardinality(CommandPermits) + Count(p)
      BY <1>1, <2>2, QueuedPermits, Counts
    <3> QED  BY <1>2, <1>3, <1>4, <1>5, <1>6, <2>2, <3>1
  <2> QED  BY <2>1, <2>2
<1> QED
  BY <1>1, <1>7 DEF PermitsAccounted


LEMMA QueuedOrdered ==
  ASSUME SessionInv, NEW c \in Callers, OnlyCaller(c), id' = id, nextStreamId' = nextStreamId,
         pc'[c] = "sending" => pc[c] = "sending",
         commands' = commands \/ \E t \in CommandTypes, p \in BOOLEAN : Queues(c, t, p)
  PROVE  Ordered'
<1>1. /\ Types /\ IdsOwned /\ Ordered
      /\ UNCHANGED <<streams, remoteClosed, closeQueued, events, toAgent, toClient>>
      /\ highestStreamId' = highestStreamId /\ operations' = operations
  BY DEF SessionInv, OnlyCaller, DriverSide, agentVars
<1>2. \A frame : Opens(frame)' <=> Opens(frame)
  BY DEF Opens, Literal
<1>3. \A x : (Fresh(x)' <=> Fresh(x)) /\ (Unborn(x)' <=> Unborn(x))
  BY <1>1 DEF Fresh, Unborn, Silent, Asked, Told, Clean
<1>4. \A d \in Callers : pc'[d] = "sending" => pc[d] = "sending"
  BY DEF OnlyCaller
<1>5. CASE commands' = commands
  BY <1>1, <1>2, <1>3, <1>4, <1>5 DEF Ordered
<1>6. ASSUME NEW t \in CommandTypes, NEW p \in BOOLEAN, Queues(c, t, p) PROVE Ordered'
  <2>1. /\ Len(commands) \in Nat
        /\ \A n \in 1 .. Len(commands') :
              \/ n \in 1 .. Len(commands) /\ commands'[n] = commands[n]
              \/ n = Len(commands) + 1 /\ commands'[n].type = t /\ commands'[n].id = id[c]
    BY <1>1, <1>6, Queued
  <2>2. ASSUME NEW n \in 1 .. Len(commands'), n \notin 1 .. Len(commands), Introduces(commands'[n])
        PROVE  /\ n = Len(commands) + 1 /\ commands'[n].id = id[c]
               /\ pc[c] = "sending" /\ pc'[c] # "sending"
    <3>1. n = Len(commands) + 1 /\ commands'[n].type = t /\ commands'[n].id = id[c]
      BY <2>1, <2>2
    <3> QED  BY <1>6, <2>2, <3>1 DEF Introduces, Queues
  <2>3. ASSUME NEW m \in 1 .. Len(commands'), NEW n \in 1 .. Len(commands'), m < n,
               Introduces(commands'[m]), Introduces(commands'[n])
        PROVE  commands'[m].id < commands'[n].id
    <3>1. m \in 1 .. Len(commands) /\ commands'[m] = commands[m]
      BY <2>1, <2>3
    <3>2. CASE n \in 1 .. Len(commands)
      <4>1. commands'[n] = commands[n]
        BY <2>1, <3>2
      <4> QED  BY <1>1, <2>3, <3>1, <3>2, <4>1 DEF Ordered
    <3>3. CASE n \notin 1 .. Len(commands)
      BY <1>1, <2>2, <2>3, <3>1, <3>3 DEF Ordered
    <3> QED  BY <3>2, <3>3
  <2>4. ASSUME NEW n \in 1 .. Len(commands'), Introduces(commands'[n])
        PROVE  /\ Unborn(commands[n].id)'
               /\ \A m \in 1 .. Len(toAgent') : Opens(toAgent'[m]) => toAgent'[m].id < commands'[n].id
               /\ \A d \in Callers : pc'[d] = "sending" => commands'[n].id < id[d]
    <3>1. CASE n \in 1 .. Len(commands)
      <4>1. commands'[n] = commands[n]
        BY <2>1, <3>1
      <4>2. Unborn(commands[n].id)
        BY <1>1, <2>4, <3>1, <4>1 DEF Ordered
      <4>3. PICK x : x = commands[n].id
        OBVIOUS
      <4>4. Unborn(x)'
        BY <1>3, <4>2, <4>3
      <4>5. Unborn(commands[n].id)'
        BY <4>1, <4>3, <4>4
      <4> QED  BY <1>1, <1>4, <2>4, <3>1, <4>1, <4>5 DEF Ordered
    <3>2. CASE n \notin 1 .. Len(commands)
      <4>1. commands'[n].id = id[c] /\ pc[c] = "sending" /\ pc'[c] # "sending"
        BY <2>2, <2>4, <3>2
      <4>2. Unborn(id[c])
        BY <1>1, <4>1 DEF Ordered
      <4>3. PICK x : x = id[c]
        OBVIOUS
      <4>4. Unborn(x)'
        BY <1>3, <4>2, <4>3
      <4>5. Unborn(commands[n].id)'
        BY <4>1, <4>3, <4>4
      <4>6. \A d \in Callers : pc'[d] # "sending"
        BY <1>1, <1>4, <4>1 DEF IdsOwned
      <4>7. \A m \in 1 .. Len(toAgent') : Opens(toAgent'[m]) => toAgent'[m].id < commands'[n].id
        BY <1>1, <4>1 DEF Ordered
      <4> QED  BY <4>5, <4>6, <4>7
    <3> QED  BY <3>1, <3>2
  <2> QED  BY <1>1, <1>2, <1>3, <1>4, <2>3, <2>4 DEF Ordered
<1> QED
  BY <1>5, <1>6

LEMMA CallerFrame ==
  ASSUME SessionInv, Types', NEW c \in Callers, OnlyCaller(c), id' = id,
         nextStreamId' = nextStreamId,
         pc'[c] = "sending" => pc[c] = "sending",
         pc'[c] \in {"new", "admitting"} => id[c] = 0,
         pc'[c] \notin {"new", "admitting", "done"} => id[c] # 0,
         commands' = commands \/ \E t \in CommandTypes, p \in BOOLEAN : Queues(c, t, p),
         Waiting(c)', Permitted(c)', PermitsAccounted'
  PROVE  SessionInv'
<1>1. /\ Types /\ IdsOwned /\ CommandsSound /\ AsksOnce /\ CallersSound
      /\ Len(commands) <= CommandCapacity /\ FramesNeat /\ EndedEmpty /\ NoProtocolError
      /\ StreamLimit
      /\ UNCHANGED <<session, streams, candidates, permit, remoteClosed, closeQueued>>
      /\ UNCHANGED <<events, toAgent, toClient, highestStreamId, operations, relays>>
  BY DEF SessionInv, OnlyCaller, DriverSide, agentVars
<1>2. Ordered'
  BY QueuedOrdered
<1>3. ASSUME NEW j \in Ids PROVE StreamSound(j)'
  <2>1. Same(j) /\ StreamSound(j)
    BY <1>1 DEF Same, SameClient, SameAgent, SameRecord, SameSent, SameTold, Fresh, SessionInv
  <2> QED  BY <1>1, <2>1, Untouched
<1>4. FramesNeat' /\ NoProtocolError' /\ StreamLimit'
  BY <1>1 DEF FramesNeat, NoProtocolError, StreamLimit, Entries, Operations
<1>5. IdsOwned'
  <2>1. \A d \in Callers \ {c} : pc'[d] = pc[d]
    BY DEF OnlyCaller
  <2> QED  BY <1>1, <2>1 DEF IdsOwned
<1>6. \A j : (Literal(j)' <=> Literal(j)) /\ (Owned(j)' <=> Owned(j))
  BY SameOwner
<1>7. CASE commands' = commands
  <2>1. CommandsSound' /\ AsksOnce' /\ Len(commands') <= CommandCapacity /\ EndedEmpty'
    BY <1>1, <1>6, <1>7 DEF CommandsSound, AsksOnce, EndedEmpty
  <2>2. ASSUME NEW d \in Callers \ {c} PROVE Waiting(d)' /\ Permitted(d)'
    <3>1. Waiting(d) /\ Permitted(d) /\ pc'[d] = pc[d] /\ reply'[d] = reply[d]
          /\ holdsSlot'[d] = holdsSlot[d]
      BY <1>1 DEF CallersSound, OnlyCaller
    <3> QED  BY <1>1, <1>7, <3>1 DEF Waiting, Awaits, Permitted
  <2> QED  BY <1>2, <1>3, <1>4, <1>5, <2>1, <2>2 DEF SessionInv, CallersSound
<1>8. ASSUME NEW t \in CommandTypes, NEW p \in BOOLEAN, Queues(c, t, p) PROVE SessionInv'
  <2>1. /\ Len(commands) \in Nat /\ Len(commands') = Len(commands) + 1
        /\ \A n \in 1 .. Len(commands') :
              \/ n \in 1 .. Len(commands) /\ commands'[n] = commands[n]
              \/ /\ n = Len(commands) + 1 /\ commands'[n].type = t
                 /\ commands'[n].id = id[c] /\ commands'[n].permit = p
    BY <1>1, <1>8, Queued
  <2>2. /\ session["client"] = "up" /\ Len(commands) < CommandCapacity /\ id[c] \in Ids
        /\ p <=> t \in {"Open", "OpenIp"}
        /\ t = "OpenIp" => Literal(id[c])
        /\ t = "Resolve" => ~Literal(id[c])
        /\ t \in {"Resolve", "Open", "OpenIp"} => Unasked(id[c])
    BY <1>8 DEF Queues
  <2>3. Len(commands') <= CommandCapacity /\ EndedEmpty'
    BY <1>1, <2>1, <2>2 DEF EndedEmpty
  <2>4. CommandsSound'
    <3> SUFFICES ASSUME NEW n \in 1 .. Len(commands')
                 PROVE  /\ Owned(commands'[n].id)
                        /\ commands'[n].type = "OpenIp" => Literal(commands'[n].id)
                        /\ commands'[n].type = "Resolve" => ~Literal(commands'[n].id)
                        /\ commands'[n].permit <=> commands'[n].type \in {"Open", "OpenIp"}
      BY <1>6 DEF CommandsSound
    <3>1. CASE n \in 1 .. Len(commands) /\ commands'[n] = commands[n]
      BY <1>1, <3>1 DEF CommandsSound
    <3>2. CASE /\ n = Len(commands) + 1 /\ commands'[n].type = t
               /\ commands'[n].id = id[c] /\ commands'[n].permit = p
      BY <2>2, <3>2 DEF Owned
    <3> QED  BY <2>1, <3>1, <3>2
  <2>5. AsksOnce'
    <3> SUFFICES ASSUME NEW m \in 1 .. Len(commands'), NEW n \in 1 .. Len(commands'),
                        Asks(commands'[m]), Asks(commands'[n]), commands'[m].id = commands'[n].id
                 PROVE  m = n
      BY DEF AsksOnce
    <3>1. CASE m \in 1 .. Len(commands) /\ n \in 1 .. Len(commands)
      <4>1. commands'[m] = commands[m] /\ commands'[n] = commands[n]
        BY <2>1, <3>1
      <4> QED  BY <1>1, <3>1, <4>1 DEF AsksOnce
    <3>2. CASE m \notin 1 .. Len(commands) /\ n \notin 1 .. Len(commands)
      BY <2>1, <3>2
    <3>3. CASE m \notin 1 .. Len(commands) /\ n \in 1 .. Len(commands)
      <4>1. commands'[m].type = t /\ commands'[m].id = id[c] /\ commands'[n] = commands[n]
        BY <2>1, <3>3
      <4>2. Unasked(id[c])
        BY <2>2, <4>1 DEF Asks
      <4> QED  BY <3>3, <4>1, <4>2 DEF Unasked
    <3>4. CASE m \in 1 .. Len(commands) /\ n \notin 1 .. Len(commands)
      <4>1. commands'[n].type = t /\ commands'[n].id = id[c] /\ commands'[m] = commands[m]
        BY <2>1, <3>4
      <4>2. Unasked(id[c])
        BY <2>2, <4>1 DEF Asks
      <4> QED  BY <3>4, <4>1, <4>2 DEF Unasked
    <3> QED  BY <3>1, <3>2, <3>3, <3>4
  <2>6. ASSUME NEW d \in Callers \ {c} PROVE Waiting(d)' /\ Permitted(d)'
    <3>1. Waiting(d) /\ Permitted(d) /\ pc'[d] = pc[d] /\ reply'[d] = reply[d]
          /\ holdsSlot'[d] = holdsSlot[d]
      BY <1>1 DEF CallersSound, OnlyCaller
    <3>2. id[d] # id[c]
      BY <1>1, <2>2, IdsAreNumbers DEF IdsOwned
    <3>3. \A n \in 1 .. Len(commands') : commands'[n].id = id[d] =>
             n \in 1 .. Len(commands) /\ commands'[n] = commands[n]
      BY <2>1, <3>2
    <3>4. Waiting(d)'
      BY <1>1, <3>1, <3>3 DEF Waiting, Awaits
    <3> QED  BY <3>1, <3>4 DEF Permitted
  <2> QED  BY <1>2, <1>3, <1>4, <1>5, <2>3, <2>4, <2>5, <2>6 DEF SessionInv, CallersSound
<1> QED
  BY <1>7, <1>8

\* A caller that has no request under way, or leaves it behind.
LEMMA WaitingMoves ==
  ASSUME SessionInv, NEW c \in Callers, id' = id, streams' = streams,
         \/ commands' = commands
         \/ \E t \in CommandTypes, p \in BOOLEAN :
               Queues(c, t, p) /\ t \notin {"Resolve", "Open", "OpenIp"},
         \/ pc'[c] = "done" /\ reply'[c].kind = "none"
         \/ pc[c] \notin {"resolving", "opening", "done"}
         \/ reply[c].kind # "none"
  PROVE  Waiting(c)'
<1>1. Types /\ Waiting(c)
  BY DEF SessionInv, CallersSound
<1>2. ASSUME NEW n \in 1 .. Len(commands')
      PROVE  \/ n \in 1 .. Len(commands) /\ commands'[n] = commands[n]
             \/ commands'[n].type \notin {"Resolve", "Open", "OpenIp"}
  <2>1. CASE commands' = commands
    BY <2>1
  <2>2. ASSUME NEW t \in CommandTypes, NEW p \in BOOLEAN, Queues(c, t, p),
               t \notin {"Resolve", "Open", "OpenIp"}
        PROVE  \/ n \in 1 .. Len(commands) /\ commands'[n] = commands[n]
               \/ commands'[n].type \notin {"Resolve", "Open", "OpenIp"}
    BY <1>1, <2>2, Queued
  <2> QED  BY <2>1, <2>2
<1> QED
  BY <1>1, <1>2 DEF Waiting, Awaits, Asks

LEMMA LiteralIs ==
  ASSUME Types, IdsOwned, NEW c \in Callers, id[c] # 0
  PROVE  /\ Literal(id[c]) <=> c \in IpCallers
         /\ c \in Resolvers <=> c \notin IpCallers
<1>1. \A d \in IpCallers : d \in Callers
  BY DEF Callers
<1>2. Literal(id[c]) <=> c \in IpCallers
  BY <1>1 DEF Literal, IdsOwned
<1>3. c \in Resolvers <=> c \notin IpCallers
  BY CallersAssumption DEF Callers
<1> QED
  BY <1>2, <1>3


LEMMA CallerFacts ==
  ASSUME SessionInv, NEW c \in Callers
  PROVE  /\ Types /\ IdsOwned /\ Waiting(c) /\ Permitted(c) /\ slots \in Nat
         /\ pc \in [Callers -> Places] /\ holdsSlot \in [Callers -> BOOLEAN]
         /\ reply \in [Callers -> Replies] /\ id \in [Callers -> Ids \cup {0}]
         /\ pc[c] \in {"new", "admitting"} => id[c] = 0
         /\ pc[c] \notin {"new", "admitting", "done"} => id[c] # 0 /\ id[c] \in Ids
         /\ reply[c].kind # "none" => pc[c] \in {"resolving", "opening"}
         /\ Count(holdsSlot[c]) \in Nat /\ Count(reply[c].permit) \in Nat
<1>1. Types /\ IdsOwned /\ Waiting(c) /\ Permitted(c)
  BY DEF SessionInv, CallersSound
<1>2. /\ slots \in Nat /\ pc \in [Callers -> Places] /\ holdsSlot \in [Callers -> BOOLEAN]
      /\ reply \in [Callers -> Replies] /\ id \in [Callers -> Ids \cup {0}]
  BY <1>1 DEF Types
<1>3. /\ pc[c] \in {"new", "admitting"} => id[c] = 0
      /\ pc[c] \notin {"new", "admitting", "done"} => id[c] # 0 /\ id[c] \in Ids
  BY <1>1, <1>2 DEF IdsOwned
<1> QED
  BY <1>1, <1>2, <1>3, Counts DEF Permitted

LEMMA AcquireSlotStep ==
  ASSUME SessionInv, NEW c \in Callers, AcquireSlot(c)
  PROVE  SessionInv'
<1>1. /\ Types /\ IdsOwned /\ Waiting(c) /\ Permitted(c) /\ slots \in Nat
      /\ pc \in [Callers -> Places] /\ holdsSlot \in [Callers -> BOOLEAN] /\ id[c] = 0
      /\ Count(reply[c].permit) \in Nat /\ pc[c] = "new" /\ slots > 0
  BY CallerFacts DEF AcquireSlot
<1>2. /\ slots' = slots - 1 /\ holdsSlot' = [holdsSlot EXCEPT ![c] = TRUE]
      /\ pc' = [pc EXCEPT ![c] = "admitting"]
      /\ UNCHANGED <<id, reply, nextStreamId, shutdown, commands, dropped>>
      /\ UNCHANGED DriverSide
  BY DEF AcquireSlot, DriverSide, handleVars, sharedVars
<1>3. /\ pc' \in [Callers -> Places] /\ pc'[c] = "admitting"
      /\ holdsSlot' \in [Callers -> BOOLEAN] /\ holdsSlot'[c] = TRUE
      /\ \A d \in Callers \ {c} : pc'[d] = pc[d] /\ holdsSlot'[d] = holdsSlot[d]
  <2>1. "admitting" \in Places
    BY DEF Places
  <2> QED  BY <1>1, <1>2, <2>1
<1>4. Types'
  <2>1. /\ id' \in [Callers -> Ids \cup {0}] /\ reply' \in [Callers -> Replies]
        /\ nextStreamId' \in Ids /\ shutdown' \in BOOLEAN /\ commands' \in Seq(Commands)
        /\ dropped' \in PerEnd(BOOLEAN)
    BY <1>1, <1>2 DEF Types
  <2>2. slots' \in Nat
    BY <1>1, <1>2
  <2> QED  BY <1>1, <1>2, <1>3, <2>1, <2>2, CallerTypes
<1>5. OnlyCaller(c)
  BY <1>2, <1>3 DEF OnlyCaller
<1>6. Waiting(c)'
  <2>1. streams' = streams
    BY <1>2 DEF DriverSide
  <2> QED  BY <1>1, <1>2, <2>1, WaitingMoves
<1>7. Permitted(c)' /\ ~holdsSlot[c]
  BY <1>1, <1>2, <1>3 DEF Permitted
<1>8. PermitsAccounted'
  <2>1. slots' + Count(holdsSlot'[c]) + Count(reply'[c].permit)
          = slots + Count(holdsSlot[c]) + Count(reply[c].permit)
    <3>1. Count(holdsSlot'[c]) = 1 /\ Count(holdsSlot[c]) = 0 /\ reply' = reply
      BY <1>2, <1>3, <1>7 DEF Count
    <3>2. slots' = slots - 1 /\ slots \in Nat /\ Count(reply[c].permit) \in Nat
      BY <1>1, <1>2
    <3> QED  BY <3>1, <3>2
  <2> QED  BY <1>2, <1>4, <1>5, <2>1, CallerAccounted
<1> QED
  BY <1>1, <1>2, <1>3, <1>4, <1>5, <1>6, <1>7, <1>8, CallerFrame

LEMMA SendCommandStep ==
  ASSUME SessionInv, NEW c \in Callers, SendCommand(c)
  PROVE  SessionInv'
<1>1. /\ Types /\ IdsOwned /\ Waiting(c) /\ Permitted(c) /\ slots \in Nat
      /\ pc \in [Callers -> Places] /\ holdsSlot \in [Callers -> BOOLEAN]
      /\ id[c] # 0 /\ id[c] \in Ids /\ reply[c].kind = "none"
      /\ Count(reply[c].permit) \in Nat /\ pc[c] = "sending"
      /\ session["client"] = "up" /\ Len(commands) < CommandCapacity
  BY CallerFacts DEF SendCommand
<1> DEFINE t == IF c \in Resolvers THEN "Resolve" ELSE "OpenIp"
           p == t = "OpenIp"
           place == IF c \in Resolvers THEN "resolving" ELSE "opening"
<1>2. /\ commands' = Append(commands, Request(t, id[c], p))
      /\ pc' = [pc EXCEPT ![c] = place]
      /\ holdsSlot' = [holdsSlot EXCEPT ![c] = (c \in Resolvers)]
      /\ UNCHANGED <<id, reply, slots, nextStreamId, shutdown, dropped>>
      /\ UNCHANGED DriverSide
  BY DEF SendCommand, Request, DriverSide, handleVars, sharedVars
<1>3. /\ pc' \in [Callers -> Places] /\ pc'[c] = place
      /\ holdsSlot' \in [Callers -> BOOLEAN] /\ holdsSlot'[c] = (c \in Resolvers)
      /\ \A d \in Callers \ {c} : pc'[d] = pc[d] /\ holdsSlot'[d] = holdsSlot[d]
  <2>1. place \in Places /\ (c \in Resolvers) \in BOOLEAN
    BY DEF Places
  <2> HIDE DEF place
  <2>2. pc' \in [Callers -> Places] /\ pc'[c] = place /\ \A d \in Callers \ {c} : pc'[d] = pc[d]
    BY <1>1, <1>2, <2>1
  <2>3. PICK h \in BOOLEAN : h = (c \in Resolvers)
    BY <2>1
  <2>4. holdsSlot' = [holdsSlot EXCEPT ![c] = h]
    BY <1>2, <2>3
  <2>5. /\ holdsSlot' \in [Callers -> BOOLEAN] /\ holdsSlot'[c] = h
        /\ \A d \in Callers \ {c} : holdsSlot'[d] = holdsSlot[d]
    BY <1>1, <2>4
  <2> QED  BY <2>2, <2>3, <2>5
<1>4. /\ Literal(id[c]) <=> c \in IpCallers
      /\ c \in Resolvers <=> c \notin IpCallers
  BY <1>1, LiteralIs
<1>5. Unasked(id[c])
  BY <1>1 DEF Unasked, Waiting, Awaits, Asks
<1>6. t \in CommandTypes /\ p \in BOOLEAN /\ Queues(c, t, p)
  BY <1>1, <1>2, <1>3, <1>4, <1>5 DEF Queues, CommandTypes
<1>7. /\ Len(commands) \in Nat /\ commands' \in Seq(Commands)
      /\ \A n \in 1 .. Len(commands') :
            \/ n \in 1 .. Len(commands) /\ commands'[n] = commands[n]
            \/ commands'[n].type = t
  <2> HIDE DEF t, p
  <2> QED  BY <1>1, <1>6, Queued
<1>8. Types'
  <2>1. /\ id' \in [Callers -> Ids \cup {0}] /\ reply' \in [Callers -> Replies]
        /\ nextStreamId' \in Ids /\ shutdown' \in BOOLEAN /\ slots' \in Nat
        /\ dropped' \in PerEnd(BOOLEAN)
    BY <1>1, <1>2 DEF Types
  <2> QED  BY <1>1, <1>2, <1>3, <1>7, <2>1, CallerTypes
<1>9. OnlyCaller(c)
  BY <1>2, <1>3 DEF OnlyCaller
<1>10. streams["client"][id[c]] = "none" /\ streams' = streams
  BY <1>1, <1>2 DEF SessionInv, Ordered, Unborn, DriverSide
<1>11. Waiting(c)'
  BY <1>1, <1>2, <1>3, <1>5, <1>7, <1>10 DEF Waiting, Awaits, Asks, Unasked
<1>12. Permitted(c)' /\ holdsSlot[c]
  BY <1>1, <1>2, <1>3 DEF Permitted
<1>13. PermitsAccounted'
  <2>1. slots' + Count(holdsSlot'[c]) + Count(reply'[c].permit) + Count(p)
          = slots + Count(holdsSlot[c]) + Count(reply[c].permit)
    <3>1. Count(holdsSlot'[c]) + Count(p) = 1 /\ Count(holdsSlot[c]) = 1
      BY <1>3, <1>12 DEF Count
    <3>2. Count(holdsSlot'[c]) \in Nat /\ Count(p) \in Nat
      BY Counts
    <3>3. slots' = slots /\ reply' = reply
      BY <1>2
    <3> HIDE DEF p
    <3> QED  BY <1>1, <3>1, <3>2, <3>3
  <2> HIDE DEF t, p
  <2> QED  BY <1>6, <1>8, <1>9, <2>1, CallerAccounted
<1>14. pc'[c] # "sending" /\ pc'[c] \notin {"new", "admitting"}
  BY <1>3
<1> HIDE DEF t, p
<1> QED
  BY <1>1, <1>2, <1>6, <1>8, <1>9, <1>11, <1>12, <1>13, <1>14, CallerFrame

LEMMA OpenTargetStep ==
  ASSUME SessionInv, NEW c \in Callers, OpenTarget(c)
  PROVE  SessionInv'
<1>1. /\ Types /\ IdsOwned /\ Waiting(c) /\ Permitted(c) /\ slots \in Nat
      /\ pc \in [Callers -> Places] /\ id[c] # 0 /\ pc[c] = "resolved"
  BY CallerFacts DEF OpenTarget
<1>2. /\ pc' = [pc EXCEPT ![c] = "sendingOpen"]
      /\ UNCHANGED <<id, holdsSlot, reply, slots, nextStreamId, shutdown, commands, dropped>>
      /\ UNCHANGED DriverSide
  BY DEF OpenTarget, DriverSide, handleVars, sharedVars
<1>3. /\ pc' \in [Callers -> Places] /\ pc'[c] = "sendingOpen"
      /\ \A d \in Callers \ {c} : pc'[d] = pc[d]
  <2>1. "sendingOpen" \in Places
    BY DEF Places
  <2> QED  BY <1>1, <1>2, <2>1
<1>4. Types'
  <2>1. /\ id' \in [Callers -> Ids \cup {0}] /\ reply' \in [Callers -> Replies]
        /\ holdsSlot' \in [Callers -> BOOLEAN] /\ slots' \in Nat
        /\ nextStreamId' \in Ids /\ shutdown' \in BOOLEAN /\ commands' \in Seq(Commands)
        /\ dropped' \in PerEnd(BOOLEAN)
    BY <1>1, <1>2 DEF Types
  <2> QED  BY <1>1, <1>2, <1>3, <2>1, CallerTypes
<1>5. OnlyCaller(c)
  BY <1>2, <1>3 DEF OnlyCaller
<1>6. Waiting(c)'
  <2>1. streams' = streams
    BY <1>2 DEF DriverSide
  <2> QED  BY <1>1, <1>2, <2>1, WaitingMoves
<1>7. Permitted(c)'
  BY <1>1, <1>2, <1>3 DEF Permitted
<1>8. PermitsAccounted'
  BY <1>2, <1>4, <1>5, CallerAccounted
<1> QED
  BY <1>1, <1>2, <1>3, <1>4, <1>5, <1>6, <1>7, <1>8, CallerFrame

LEMMA SendOpenStep ==
  ASSUME SessionInv, NEW c \in Callers, SendOpen(c)
  PROVE  SessionInv'
<1>1. /\ Types /\ IdsOwned /\ Waiting(c) /\ Permitted(c) /\ slots \in Nat
      /\ pc \in [Callers -> Places] /\ holdsSlot \in [Callers -> BOOLEAN]
      /\ id[c] # 0 /\ id[c] \in Ids /\ reply[c].kind = "none"
      /\ Count(reply[c].permit) \in Nat /\ pc[c] = "sendingOpen"
      /\ session["client"] = "up" /\ Len(commands) < CommandCapacity
  BY CallerFacts DEF SendOpen
<1>2. holdsSlot[c] = TRUE
  <2>1. holdsSlot[c] \in BOOLEAN
    BY <1>1
  <2> QED  BY <1>1, <2>1 DEF Permitted
<1>3. /\ commands' = Append(commands, Request("Open", id[c], TRUE))
      /\ pc' = [pc EXCEPT ![c] = "opening"]
      /\ holdsSlot' = [holdsSlot EXCEPT ![c] = FALSE]
      /\ UNCHANGED <<id, reply, slots, nextStreamId, shutdown, dropped>>
      /\ UNCHANGED DriverSide
  BY <1>2 DEF SendOpen, Request, DriverSide, handleVars, sharedVars
<1>4. /\ pc' \in [Callers -> Places] /\ pc'[c] = "opening"
      /\ holdsSlot' \in [Callers -> BOOLEAN] /\ holdsSlot'[c] = FALSE
      /\ \A d \in Callers \ {c} : pc'[d] = pc[d] /\ holdsSlot'[d] = holdsSlot[d]
  <2>1. "opening" \in Places
    BY DEF Places
  <2> QED  BY <1>1, <1>3, <2>1
<1>5. Unasked(id[c]) /\ streams["client"][id[c]] \notin {"Resolving", "Opening"}
  BY <1>1 DEF Unasked, Waiting, Awaits, Asks
<1>6. "Open" \in CommandTypes /\ Queues(c, "Open", TRUE)
  BY <1>1, <1>3, <1>4, <1>5 DEF Queues, CommandTypes
<1>7. /\ Len(commands) \in Nat /\ commands' \in Seq(Commands)
      /\ \A n \in 1 .. Len(commands') :
            \/ n \in 1 .. Len(commands) /\ commands'[n] = commands[n]
            \/ commands'[n].type = "Open"
  BY ZenonT(40), <1>1, <1>6, Queued
<1>8. Types'
  <2>1. /\ id' \in [Callers -> Ids \cup {0}] /\ reply' \in [Callers -> Replies]
        /\ nextStreamId' \in Ids /\ shutdown' \in BOOLEAN /\ slots' \in Nat
        /\ dropped' \in PerEnd(BOOLEAN)
    BY <1>1, <1>3 DEF Types
  <2> QED  BY <1>1, <1>3, <1>4, <1>7, <2>1, CallerTypes
<1>9. OnlyCaller(c)
  BY <1>3, <1>4 DEF OnlyCaller
<1>10. streams' = streams
  BY <1>3 DEF DriverSide
<1>11. Waiting(c)'
  <2>1. /\ id' = id /\ reply' = reply /\ pc'[c] = "opening" /\ reply[c].kind = "none"
        /\ streams["client"][id[c]] \notin {"Resolving", "Opening"}
    BY <1>1, <1>3, <1>4, <1>5
  <2>2. Awaits(c, "opening")'
    BY <2>1 DEF Awaits
  <2>3. ASSUME NEW n \in 1 .. Len(commands'), commands'[n].id = id[c]
        PROVE  commands'[n].type \in {"Open", "OpenIp", "Close"}
    <3>1. CASE n \in 1 .. Len(commands) /\ commands'[n] = commands[n]
      <4>1. commands[n].type \in CommandTypes
        <5>1. commands[n] \in Commands
          BY <1>1, <3>1 DEF Types
        <5> QED  BY <5>1 DEF Commands
      <4> QED  BY <1>5, <2>3, <3>1, <4>1 DEF Unasked, Asks, CommandTypes
    <3>2. CASE commands'[n].type = "Open"
      BY <3>2
    <3> QED  BY <1>7, <3>1, <3>2
  <2> QED  BY <1>10, <2>1, <2>2, <2>3 DEF Waiting
<1>12. Permitted(c)'
  BY <1>1, <1>3, <1>4 DEF Permitted
<1>13. PermitsAccounted'
  <2> PICK p \in BOOLEAN : p = TRUE
    OBVIOUS
  <2>1. slots' + Count(holdsSlot'[c]) + Count(reply'[c].permit) + Count(p)
          = slots + Count(holdsSlot[c]) + Count(reply[c].permit)
    <3>1. Count(holdsSlot'[c]) = 0 /\ Count(p) = 1 /\ Count(holdsSlot[c]) = 1
      BY <1>2, <1>4 DEF Count
    <3>2. slots' = slots /\ reply' = reply /\ slots \in Nat /\ Count(reply[c].permit) \in Nat
      BY <1>1, <1>3
    <3> QED  BY <3>1, <3>2
  <2> QED  BY <1>6, <1>8, <1>9, <2>1, CallerAccounted
<1> QED
  BY <1>1, <1>3, <1>4, <1>6, <1>8, <1>9, <1>11, <1>12, <1>13, CallerFrame


\* A caller gives up what it holds, and asks for the end of its stream.
LEMMA Forgetting ==
  ASSUME SessionInv, NEW c \in Callers, Forget(c), UNCHANGED <<id, nextStreamId>>,
         UNCHANGED DriverSide,
         \/ UNCHANGED <<commands, shutdown>>
         \/ CloseBestEffort(id[c]) /\ pc[c] \notin {"new", "admitting", "done"}
  PROVE  SessionInv'
<1>1. /\ Types /\ IdsOwned /\ Waiting(c) /\ Permitted(c) /\ slots \in Nat
      /\ pc \in [Callers -> Places] /\ holdsSlot \in [Callers -> BOOLEAN]
      /\ reply \in [Callers -> Replies]
      /\ pc[c] \notin {"new", "admitting", "done"} => id[c] # 0 /\ id[c] \in Ids
      /\ Count(holdsSlot[c]) \in Nat /\ Count(reply[c].permit) \in Nat
  BY CallerFacts
<1>2. /\ pc' = [pc EXCEPT ![c] = "done"] /\ holdsSlot' = [holdsSlot EXCEPT ![c] = FALSE]
      /\ reply' = [reply EXCEPT ![c] = NoReply]
      /\ slots' = slots + Count(holdsSlot[c]) + Count(reply[c].permit)
  BY DEF Forget
<1>3. /\ pc' \in [Callers -> Places] /\ holdsSlot' \in [Callers -> BOOLEAN]
      /\ reply' \in [Callers -> Replies] /\ slots' \in Nat /\ dropped' \in PerEnd(BOOLEAN)
  <2>1. pc[c] = "opening" => id[c] # 0
    BY <1>1
  <2> QED  BY <1>1, <2>1, ForgetTypes
<1>4. /\ pc'[c] = "done" /\ holdsSlot'[c] = FALSE /\ reply'[c] = NoReply
      /\ \A d \in Callers \ {c} :
            pc'[d] = pc[d] /\ holdsSlot'[d] = holdsSlot[d] /\ reply'[d] = reply[d]
  BY <1>1, <1>2
<1>5. reply'[c].kind = "none" /\ reply'[c].permit = FALSE
  BY <1>4 DEF NoReply
<1>6. commands' = commands \/ Queues(c, "Close", FALSE)
  <2>1. CASE UNCHANGED <<commands, shutdown>>
    BY <2>1
  <2>2. CASE CloseBestEffort(id[c]) /\ pc[c] \notin {"new", "admitting", "done"}
    <3>1. \/ commands' = commands
          \/ /\ commands' = Append(commands, Request("Close", id[c], FALSE))
             /\ Len(commands) < CommandCapacity /\ session["client"] = "up"
      BY <2>2 DEF CloseBestEffort, Request
    <3>2. id[c] \in Ids
      BY <1>1, <2>2
    <3> QED  BY <3>1, <3>2 DEF Queues, CommandTypes
  <2> QED  BY <2>1, <2>2
<1>7. Types'
  <2>1. id' \in [Callers -> Ids \cup {0}] /\ nextStreamId' \in Ids
    BY <1>1 DEF Types
  <2>2. commands' \in Seq(Commands) /\ shutdown' \in BOOLEAN
    <3>1. CASE UNCHANGED <<commands, shutdown>>
      BY <1>1, <3>1 DEF Types
    <3>2. CASE CloseBestEffort(id[c]) /\ pc[c] \notin {"new", "admitting", "done"}
      <4>1. id[c] \in Ids
        BY <1>1, <3>2
      <4> QED  BY <1>1, <3>2, <4>1, CloseTypes
    <3> QED  BY <3>1, <3>2
  <2> QED  BY <1>1, <1>3, <2>1, <2>2, CallerTypes
<1>8. OnlyCaller(c)
  BY <1>4 DEF OnlyCaller
<1>9. Waiting(c)'
  <2>1. streams' = streams
    BY DEF DriverSide
  <2>2. \/ commands' = commands
        \/ \E t \in CommandTypes, p \in BOOLEAN :
              Queues(c, t, p) /\ t \notin {"Resolve", "Open", "OpenIp"}
    BY <1>6 DEF CommandTypes
  <2> QED  BY <1>4, <1>5, <2>1, <2>2, WaitingMoves
<1>10. Permitted(c)'
  BY <1>4, <1>5 DEF Permitted
<1>11. PermitsAccounted'
  <2> PICK p \in BOOLEAN : p = FALSE
    OBVIOUS
  <2>1. Count(holdsSlot'[c]) = 0 /\ Count(reply'[c].permit) = 0 /\ Count(p) = 0
    BY <1>4, <1>5 DEF Count
  <2>2. /\ slots' = slots + Count(holdsSlot[c]) + Count(reply[c].permit) /\ slots \in Nat
        /\ Count(holdsSlot[c]) \in Nat /\ Count(reply[c].permit) \in Nat
    BY <1>1, <1>2
  <2>3. /\ slots' + Count(holdsSlot'[c]) + Count(reply'[c].permit)
             = slots + Count(holdsSlot[c]) + Count(reply[c].permit)
        /\ slots' + Count(holdsSlot'[c]) + Count(reply'[c].permit) + Count(p)
             = slots + Count(holdsSlot[c]) + Count(reply[c].permit)
    BY <2>1, <2>2
  <2>4. "Close" \in CommandTypes /\ (commands' = commands \/ Queues(c, "Close", p))
    BY <1>6 DEF CommandTypes
  <2> QED  BY <1>7, <1>8, <2>3, <2>4, CallerAccounted
<1>12. commands' = commands \/ \E t \in CommandTypes, p \in BOOLEAN : Queues(c, t, p)
  BY <1>6 DEF CommandTypes
<1> QED
  BY <1>1, <1>4, <1>7, <1>8, <1>9, <1>10, <1>11, <1>12, CallerFrame

LEMMA GiveUpStep ==
  ASSUME SessionInv, NEW c \in Callers, GiveUp(c)
  PROVE  SessionInv'
<1>1. Forget(c) /\ UNCHANGED <<id, nextStreamId>> /\ UNCHANGED DriverSide
  BY DEF GiveUp, DriverSide
<1>2. \/ UNCHANGED <<commands, shutdown>>
      \/ CloseBestEffort(id[c]) /\ pc[c] \notin {"new", "admitting", "done"}
  BY DEF GiveUp
<1> QED
  BY <1>1, <1>2, Forgetting

LEMMA UnavailableStep ==
  ASSUME SessionInv, NEW c \in Callers, Unavailable(c)
  PROVE  SessionInv'
<1>1. Forget(c) /\ UNCHANGED <<id, nextStreamId>> /\ UNCHANGED DriverSide
  BY DEF Unavailable, DriverSide, handleVars
<1>2. UNCHANGED <<commands, shutdown>>
  BY DEF Unavailable, handleVars
<1> QED
  BY <1>1, <1>2, Forgetting

LEMMA TakeReplyStep ==
  ASSUME SessionInv, NEW c \in Callers, TakeReply(c)
  PROVE  SessionInv'
<1>1. /\ Types /\ IdsOwned /\ Waiting(c) /\ Permitted(c) /\ slots \in Nat
      /\ pc \in [Callers -> Places] /\ holdsSlot \in [Callers -> BOOLEAN]
      /\ reply \in [Callers -> Replies] /\ reply[c].kind # "none"
      /\ id[c] # 0 /\ pc[c] \in {"resolving", "opening"}
      /\ Count(holdsSlot[c]) \in Nat /\ Count(reply[c].permit) \in Nat
  <2>1. reply[c].kind # "none"
    BY DEF TakeReply
  <2> QED  BY <2>1, CallerFacts
<1>2. UNCHANGED <<id, nextStreamId>> /\ UNCHANGED DriverSide
  BY DEF TakeReply, DriverSide
<1> DEFINE kept == \/ reply[c].kind = "ok"
                   \/ reply[c].kind = "remote" /\ pc[c] = "opening" /\ c \in Resolvers
           place == IF pc[c] = "opening" /\ reply[c].kind = "ok" THEN "stream" ELSE "resolved"
           held == holdsSlot[c] \/ reply[c].permit
<1>3. CASE ~kept
  <2>1. Forget(c) /\ CloseBestEffort(id[c])
    BY <1>3 DEF TakeReply
  <2> QED  BY <1>1, <1>2, <2>1, Forgetting
<1>4. CASE kept
  <2>1. /\ pc' = [pc EXCEPT ![c] = place]
        /\ holdsSlot' = [holdsSlot EXCEPT ![c] = @ \/ reply[c].permit]
        /\ reply' = [reply EXCEPT ![c] = NoReply]
        /\ UNCHANGED <<slots, dropped, commands, shutdown>>
    BY <1>4 DEF TakeReply
  <2>2. /\ pc[c] = "opening" /\ reply[c].kind = "ok" => ~held /\ place = "stream"
        /\ ~(pc[c] = "opening" /\ reply[c].kind = "ok") =>
              held /\ place = "resolved" /\ c \in Resolvers
        /\ ~(holdsSlot[c] /\ reply[c].permit)
    <3>1. reply[c].permit => pc[c] = "opening" /\ reply[c].kind \in {"remote", "error"}
      BY <1>1 DEF Permitted
    <3>2. holdsSlot[c] <=> pc[c] = "resolving"
      BY <1>1 DEF Permitted
    <3>3. /\ reply[c].kind = "remote" /\ pc[c] = "opening" /\ c \in Resolvers => reply[c].permit
          /\ pc[c] = "resolving" => c \in Resolvers
      BY <1>1 DEF Permitted
    <3> QED  BY <1>1, <1>4, <3>1, <3>2, <3>3
  <2>3. place \in Places /\ NoReply \in Replies /\ NoReply.kind = "none" /\ NoReply.permit = FALSE
    BY DEF Places, NoReply, Replies
  <2>4. held \in BOOLEAN
    OBVIOUS
  <2>5. holdsSlot' = [holdsSlot EXCEPT ![c] = held]
    BY <1>1, <2>1
  <2>6. /\ pc' \in [Callers -> Places] /\ pc'[c] = place
        /\ \A d \in Callers \ {c} : pc'[d] = pc[d]
    <3> HIDE DEF place
    <3> QED  BY <1>1, <2>1, <2>3
  <2>7. /\ holdsSlot' \in [Callers -> BOOLEAN] /\ holdsSlot'[c] = held
        /\ \A d \in Callers \ {c} : holdsSlot'[d] = holdsSlot[d]
    <3> HIDE DEF held
    <3> QED  BY <1>1, <2>4, <2>5
  <2>8. /\ reply' \in [Callers -> Replies] /\ reply'[c] = NoReply
        /\ \A d \in Callers \ {c} : reply'[d] = reply[d]
    <3>1. reply' = [reply EXCEPT ![c] = NoReply]
      BY <2>1
    <3> QED  BY <1>1, <2>3, <3>1
  <2>9. reply'[c].kind = "none" /\ reply'[c].permit = FALSE
    BY <2>3, <2>8
  <2>10. UNCHANGED <<slots, dropped, commands, shutdown>>
    BY <2>1
  <2>11. Types'
    <3>1. /\ id' \in [Callers -> Ids \cup {0}] /\ nextStreamId' \in Ids /\ slots' \in Nat
          /\ shutdown' \in BOOLEAN /\ commands' \in Seq(Commands) /\ dropped' \in PerEnd(BOOLEAN)
      BY <1>1, <1>2, <2>10 DEF Types
    <3> QED  BY <1>1, <1>2, <2>6, <2>7, <2>8, <3>1, CallerTypes
  <2>12. OnlyCaller(c)
    BY <1>2, <2>6, <2>7, <2>8 DEF OnlyCaller
  <2>13. Waiting(c)'
    <3>1. streams' = streams
      BY <1>2 DEF DriverSide
    <3> QED  BY <1>1, <1>2, <2>10, <3>1, WaitingMoves
  <2>14. place \in {"stream", "resolved"} /\ (held <=> place = "resolved")
         /\ (place = "resolved" => c \in Resolvers)
    BY <2>2
  <2> HIDE DEF place, kept
  <2>15. Permitted(c)'
    <3>1. pc'[c] = place /\ (holdsSlot'[c] <=> held)
      BY <2>6, <2>7
    <3> HIDE DEF held
    <3> QED  BY <2>9, <2>14, <3>1 DEF Permitted
  <2>16. PermitsAccounted'
    <3>1. Count(holdsSlot'[c]) = Count(holdsSlot[c]) + Count(reply[c].permit)
      BY <2>2, <2>7 DEF Count
    <3>2. Count(reply'[c].permit) = 0 /\ slots' = slots /\ slots \in Nat
          /\ Count(holdsSlot[c]) \in Nat /\ Count(reply[c].permit) \in Nat
      BY <1>1, <2>9, <2>10 DEF Count
    <3>3. slots' + Count(holdsSlot'[c]) + Count(reply'[c].permit)
            = slots + Count(holdsSlot[c]) + Count(reply[c].permit)
      BY <3>1, <3>2
    <3>4. commands' = commands
      BY <2>10
    <3> QED  BY <2>11, <2>12, <3>3, <3>4, CallerAccounted
  <2>17. /\ pc'[c] \notin {"new", "admitting", "done", "sending"} /\ id[c] # 0
         /\ commands' = commands /\ id' = id /\ nextStreamId' = nextStreamId
    BY <1>1, <1>2, <2>6, <2>10, <2>14
  <2> HIDE DEF held
  <2> QED  BY <2>11, <2>12, <2>13, <2>15, <2>16, <2>17, CallerFrame
<1> QED
  BY <1>3, <1>4

LEMMA DropStreamStep ==
  ASSUME SessionInv, NEW c \in Callers, DropStream(c)
  PROVE  SessionInv'
<1>1. /\ Types /\ IdsOwned /\ Waiting(c) /\ Permitted(c) /\ slots \in Nat
      /\ pc \in [Callers -> Places] /\ id[c] \in Ids /\ id[c] # 0 /\ pc[c] = "stream"
  BY CallerFacts DEF DropStream
<1>2. /\ pc' = [pc EXCEPT ![c] = "done"]
      /\ dropped' = [dropped EXCEPT !["client"][id[c]] = TRUE]
      /\ UNCHANGED <<id, holdsSlot, reply, slots, nextStreamId, shutdown, commands>>
      /\ UNCHANGED DriverSide
  BY DEF DropStream, DriverSide, handleVars
<1>3. /\ pc' \in [Callers -> Places] /\ pc'[c] = "done"
      /\ \A d \in Callers \ {c} : pc'[d] = pc[d]
  <2>1. "done" \in Places
    BY DEF Places
  <2> QED  BY <1>1, <1>2, <2>1
<1>4. Types'
  <2>1. /\ id' \in [Callers -> Ids \cup {0}] /\ reply' \in [Callers -> Replies]
        /\ holdsSlot' \in [Callers -> BOOLEAN] /\ slots' \in Nat
        /\ nextStreamId' \in Ids /\ shutdown' \in BOOLEAN /\ commands' \in Seq(Commands)
        /\ dropped \in PerEnd(BOOLEAN)
    BY <1>1, <1>2 DEF Types
  <2>2. dropped' \in PerEnd(BOOLEAN)
    <3>1. "client" \in Ends /\ id[c] \in Ids
      BY <1>1, TwoEnds
    <3> QED  BY <1>2, <2>1, <3>1 DEF PerEnd
  <2> QED  BY <1>1, <1>2, <1>3, <2>1, <2>2, CallerTypes
<1>5. OnlyCaller(c)
  BY <1>2, <1>3 DEF OnlyCaller
<1>6. Waiting(c)'
  <2>1. streams' = streams
    BY <1>2 DEF DriverSide
  <2> QED  BY <1>1, <1>2, <2>1, WaitingMoves
<1>7. Permitted(c)'
  BY <1>1, <1>2, <1>3 DEF Permitted
<1>8. PermitsAccounted'
  BY <1>2, <1>4, <1>5, CallerAccounted
<1> QED
  BY <1>1, <1>2, <1>3, <1>4, <1>5, <1>6, <1>7, <1>8, CallerFrame


(***************************************************************************)
(* A new stream ID.  Nothing in either driver or on the way is about it.   *)
(***************************************************************************)
LEMMA NewStream ==
  ASSUME SessionInv, NEW c \in Callers, pc[c] = "admitting", AdmissionFree,
         nextStreamId + 2 <= IdLimit, id' = [id EXCEPT ![c] = nextStreamId],
         nextStreamId' = nextStreamId + 2, pc' = [pc EXCEPT ![c] = "sending"],
         UNCHANGED <<holdsSlot, reply, slots, shutdown, commands, dropped>>,
         UNCHANGED DriverSide
  PROVE  SessionInv'
<1>1. /\ Types /\ IdsOwned /\ CommandsSound /\ AsksOnce /\ CallersSound /\ Ordered
      /\ Len(commands) <= CommandCapacity /\ FramesNeat /\ EndedEmpty /\ NoProtocolError
      /\ StreamLimit
  BY DEF SessionInv
<1>2. /\ UNCHANGED <<session, streams, candidates, permit, remoteClosed, closeQueued>>
      /\ UNCHANGED <<events, toAgent, toClient, highestStreamId, operations, relays>>
      /\ UNCHANGED <<holdsSlot, reply, slots, commands>>
  BY DEF DriverSide, agentVars
<1>3. PICK k \in Ids : k = nextStreamId
  BY <1>1 DEF Types
<1>4. k \in Nat /\ k # 0 /\ k + 2 \in Ids /\ nextStreamId' = k + 2
  BY <1>3, IdsAreNumbers
<1>5. /\ pc \in [Callers -> Places] /\ id \in [Callers -> Ids \cup {0}] /\ id[c] = 0
      /\ \A d \in Callers : id[d] # 0 => id[d] < k
      /\ \A d \in Callers : pc[d] # "sending"
  BY <1>1, <1>3 DEF Types, IdsOwned, AdmissionFree
<1>6. /\ id' \in [Callers -> Ids \cup {0}] /\ id'[c] = k
      /\ \A d \in Callers \ {c} : id'[d] = id[d]
  BY <1>3, <1>5
<1>7. /\ pc' \in [Callers -> Places] /\ pc'[c] = "sending"
      /\ \A d \in Callers \ {c} : pc'[d] = pc[d]
  <2>1. "sending" \in Places
    BY DEF Places
  <2> QED  BY <1>5, <2>1
<1>8. Types'
  <2>1. /\ reply' \in [Callers -> Replies] /\ holdsSlot' \in [Callers -> BOOLEAN]
        /\ slots' \in Nat /\ shutdown' \in BOOLEAN /\ commands' \in Seq(Commands)
        /\ dropped' \in PerEnd(BOOLEAN)
    BY <1>1 DEF Types
  <2> QED  BY <1>1, <1>4, <1>6, <1>7, <2>1, CallerTypes
<1>9. \A d \in Callers : id[d] \in Nat /\ id[d] < k /\ id[d] # k
  <2> SUFFICES ASSUME NEW d \in Callers PROVE id[d] \in Nat /\ id[d] < k /\ id[d] # k
    OBVIOUS
  <2>1. id[d] \in Nat
    <3>1. id[d] \in Ids \/ id[d] = 0
      BY <1>5
    <3>2. CASE id[d] \in Ids
      BY <3>2, IdsAreNumbers
    <3>3. CASE id[d] = 0
      BY <3>3
    <3> QED  BY <3>1, <3>2, <3>3
  <2>2. id[d] # 0 => id[d] < k
    BY <1>5
  <2>3. k \in Nat /\ k # 0
    BY <1>4
  <2> QED  BY <2>1, <2>2, <2>3
<1>10. ASSUME NEW x, x # 0, x # k
       PROVE  /\ Owned(x) => Owned(x)'
              /\ Literal(x)' <=> Literal(x)
  <2>1. \A d \in Callers : id'[d] = x <=> id[d] = x
    BY <1>5, <1>6, <1>10
  <2>2. \A d \in IpCallers : d \in Callers
    BY DEF Callers
  <2> QED  BY <2>1, <2>2 DEF Owned, Literal
<1>11. ASSUME NEW n \in 1 .. Len(commands)
       PROVE  commands[n].id \in Ids /\ commands[n].id < k /\ commands[n].id # 0
  <2>1. commands[n] \in Commands /\ Owned(commands[n].id)
    BY <1>1 DEF Types, CommandsSound
  <2>2. commands[n].id \in Ids
    BY <2>1 DEF Commands
  <2>3. commands[n].id < k
    BY <1>9, <2>1 DEF Owned
  <2> QED  BY <2>2, <2>3, IdsAreNumbers
<1>12. ASSUME NEW m \in 1 .. Len(toAgent)
       PROVE  toAgent[m].id \in Ids /\ toAgent[m].id < k /\ toAgent[m].id # 0
  <2>1. toAgent[m] \in Frames(Requests) /\ toAgent[m].id < k
    BY <1>1, <1>3 DEF Types, Ordered
  <2>2. toAgent[m].id \in Ids
    BY <2>1 DEF Frames
  <2> QED  BY <2>1, <2>2, IdsAreNumbers
<1>13. Unborn(k)
  <2>1. k >= nextStreamId
    BY <1>3, <1>4
  <2> QED  BY <1>1, <2>1 DEF Ordered
<1>14. \A x : (Fresh(x)' <=> Fresh(x)) /\ (Unborn(x)' <=> Unborn(x))
  BY <1>2 DEF Fresh, Unborn, Silent, Asked, Told, Clean
<1>15. IdsOwned'
  <2>1. \A d \in Callers : id'[d] # 0 => id'[d] < nextStreamId'
    <3>1. ASSUME NEW d \in Callers, id'[d] # 0 PROVE id'[d] < k + 2
      <4>1. id'[d] = k \/ id'[d] = id[d]
        BY <1>6
      <4>2. id[d] \in Nat /\ id[d] < k /\ k \in Nat
        BY <1>4, <1>9
      <4> QED  BY <4>1, <4>2
    <3> QED  BY <1>4, <3>1
  <2>2. \A d, f \in Callers : id'[d] = id'[f] /\ id'[d] # 0 => d = f
    <3> SUFFICES ASSUME NEW d \in Callers, NEW f \in Callers, id'[d] = id'[f], id'[d] # 0
                 PROVE  d = f
      OBVIOUS
    <3>1. CASE d = c
      BY <1>6, <1>9, <3>1
    <3>2. CASE f = c
      BY <1>6, <1>9, <3>2
    <3>3. CASE d # c /\ f # c
      BY <1>1, <1>6, <3>3 DEF IdsOwned
    <3> QED  BY <3>1, <3>2, <3>3
  <2>3. \A d \in Callers : pc'[d] \in {"new", "admitting"} => id'[d] = 0
    BY <1>1, <1>6, <1>7 DEF IdsOwned
  <2>4. \A d \in Callers : pc'[d] \notin {"new", "admitting", "done"} => id'[d] # 0
    BY <1>1, <1>4, <1>6, <1>7 DEF IdsOwned
  <2>5. \A d, f \in Callers : pc'[d] = "sending" /\ pc'[f] = "sending" => d = f
    BY <1>5, <1>7
  <2> QED  BY <2>1, <2>2, <2>3, <2>4, <2>5 DEF IdsOwned
<1>16. CommandsSound'
  <2> SUFFICES ASSUME NEW n \in 1 .. Len(commands')
               PROVE  /\ Owned(commands[n].id)'
                      /\ commands'[n].type = "OpenIp" => Literal(commands[n].id)'
                      /\ commands'[n].type = "Resolve" => ~Literal(commands[n].id)'
                      /\ commands'[n].permit <=> commands'[n].type \in {"Open", "OpenIp"}
    BY DEF CommandsSound
  <2>1. commands' = commands /\ n \in 1 .. Len(commands)
    BY <1>2
  <2>2. PICK x : x = commands[n].id
    OBVIOUS
  <2>3. x # 0 /\ x # k
    BY <1>4, <1>11, <2>1, <2>2
  <2>4. /\ Owned(x) /\ (commands[n].type = "OpenIp" => Literal(x))
        /\ commands[n].type = "Resolve" => ~Literal(x)
        /\ commands[n].permit <=> commands[n].type \in {"Open", "OpenIp"}
    BY <1>1, <2>1, <2>2 DEF CommandsSound
  <2>5. Owned(x)' /\ (Literal(x)' <=> Literal(x))
    BY <1>10, <2>3, <2>4
  <2> QED  BY <2>1, <2>2, <2>4, <2>5
<1>17. AsksOnce' /\ Len(commands') <= CommandCapacity
  BY <1>1, <1>2 DEF AsksOnce
<1>18. CallersSound'
  <2> SUFFICES ASSUME NEW d \in Callers PROVE Waiting(d)' /\ Permitted(d)'
    BY DEF CallersSound
  <2>1. Waiting(d) /\ Permitted(d)
    BY <1>1 DEF CallersSound
  <2>2. CASE d # c
    <3>1. pc'[d] = pc[d] /\ id'[d] = id[d]
      BY <1>6, <1>7, <2>2
    <3>2. Waiting(d)'
      BY <1>2, <2>1, <3>1 DEF Waiting, Awaits
    <3>3. Permitted(d)'
      BY <1>2, <2>1, <3>1 DEF Permitted
    <3> QED  BY <3>2, <3>3
  <2>3. CASE d = c
    <3>1. streams'["client"][id'[d]] = "none"
      BY <1>2, <1>6, <1>13, <2>3 DEF Unborn
    <3>2. \A n \in 1 .. Len(commands') : commands'[n].id # id'[d]
      BY <1>2, <1>4, <1>6, <1>11, <2>3
    <3>3. Waiting(d)'
      BY <3>1, <3>2 DEF Waiting
    <3>4. Permitted(d)'
      BY <1>2, <1>7, <2>1, <2>3 DEF Permitted
    <3> QED  BY <3>3, <3>4
  <2> QED  BY <2>2, <2>3
<1>19. \A m \in 1 .. Len(toAgent) : Opens(toAgent[m])' <=> Opens(toAgent[m])
  <2> SUFFICES ASSUME NEW m \in 1 .. Len(toAgent)
               PROVE  Opens(toAgent[m])' <=> Opens(toAgent[m])
    OBVIOUS
  <2>1. PICK f : f = toAgent[m]
    OBVIOUS
  <2>2. f.id # 0 /\ f.id # k
    BY <1>4, <1>12, <2>1
  <2>3. Literal(f.id)' <=> Literal(f.id)
    BY <1>10, <2>2
  <2>4. Opens(f)' <=> Opens(f)
    BY <2>3 DEF Opens
  <2> QED  BY <1>2, <2>1, <2>4
<1>20. Ordered'
  <2>1. \A m, n \in 1 .. Len(toAgent') :
          m < n /\ Opens(toAgent[m])' /\ Opens(toAgent[n])' => toAgent'[m].id < toAgent'[n].id
    BY <1>1, <1>2, <1>19 DEF Ordered
  <2>2. \A m, n \in 1 .. Len(commands') :
          m < n /\ Introduces(commands'[m]) /\ Introduces(commands'[n]) =>
              commands'[m].id < commands'[n].id
    BY <1>1, <1>2 DEF Ordered
  <2>3. ASSUME NEW n \in 1 .. Len(commands'), Introduces(commands'[n])
        PROVE  /\ Unborn(commands[n].id)'
               /\ \A m \in 1 .. Len(toAgent') :
                     Opens(toAgent[m])' => toAgent'[m].id < commands'[n].id
               /\ \A d \in Callers : pc'[d] = "sending" => commands'[n].id < id'[d]
    <3>1. n \in 1 .. Len(commands) /\ commands' = commands
      BY <1>2
    <3>2. PICK x : x = commands[n].id
      OBVIOUS
    <3>3. Unborn(x)
      BY <1>1, <2>3, <3>1, <3>2 DEF Ordered
    <3>4. Unborn(commands[n].id)'
      BY <1>14, <3>1, <3>2, <3>3
    <3>5. \A m \in 1 .. Len(toAgent') : Opens(toAgent[m])' => toAgent'[m].id < commands'[n].id
      BY <1>1, <1>2, <1>19, <2>3, <3>1 DEF Ordered
    <3>6. \A d \in Callers : pc'[d] = "sending" => d = c
      BY <1>5, <1>7
    <3>7. commands'[n].id < id'[c]
      BY <1>6, <1>11, <3>1
    <3> QED  BY <3>4, <3>5, <3>6, <3>7
  <2>4. ASSUME NEW d \in Callers, pc'[d] = "sending"
        PROVE  /\ Unborn(id[d])'
               /\ \A m \in 1 .. Len(toAgent') : Opens(toAgent[m])' => toAgent'[m].id < id'[d]
    <3>1. d = c /\ id'[d] = k
      BY <1>5, <1>6, <1>7, <2>4
    <3>2. Unborn(k)'
      BY <1>13, <1>14
    <3>3. Unborn(id[d])'
      BY <3>1, <3>2
    <3> QED  BY <1>2, <1>12, <3>1, <3>3
  <2>5. \A i \in Ids : i >= nextStreamId' => Unborn(i)'
    <3> SUFFICES ASSUME NEW i \in Ids, i >= nextStreamId' PROVE Unborn(i)'
      OBVIOUS
    <3>1. i \in Nat /\ i >= nextStreamId
      <4>1. i \in Nat /\ k \in Nat /\ i >= k + 2
        BY <1>4, IdsAreNumbers
      <4>2. i >= k
        BY <4>1
      <4> QED  BY <1>3, <4>1, <4>2
    <3>2. Unborn(i)
      BY <1>1, <3>1 DEF Ordered
    <3> QED  BY <1>14, <3>2
  <2>6. \A m \in 1 .. Len(toAgent') : toAgent'[m].id < nextStreamId'
    <3> SUFFICES ASSUME NEW m \in 1 .. Len(toAgent') PROVE toAgent'[m].id < nextStreamId'
      OBVIOUS
    <3>1. toAgent' = toAgent /\ toAgent[m].id \in Nat /\ toAgent[m].id < k /\ k \in Nat
      BY <1>2, <1>4, <1>12, IdsAreNumbers
    <3>2. toAgent[m].id < k + 2
      BY <3>1
    <3> QED  BY <1>4, <3>1, <3>2
  <2>7. \A m \in 1 .. Len(toAgent') : Opens(toAgent[m])' => Fresh(toAgent[m].id)'
    <3> SUFFICES ASSUME NEW m \in 1 .. Len(toAgent'), Opens(toAgent[m])'
                 PROVE  Fresh(toAgent[m].id)'
      OBVIOUS
    <3>1. toAgent' = toAgent /\ m \in 1 .. Len(toAgent)
      BY <1>2
    <3>2. PICK x : x = toAgent[m].id
      OBVIOUS
    <3>3. Fresh(x)
      BY <1>1, <1>19, <3>1, <3>2 DEF Ordered
    <3> QED  BY <1>14, <3>1, <3>2, <3>3
  <2> QED  BY <2>1, <2>2, <2>3, <2>4, <2>5, <2>6, <2>7 DEF Ordered
<1>21. FramesNeat' /\ NoProtocolError' /\ StreamLimit' /\ EndedEmpty'
  BY <1>1, <1>2 DEF FramesNeat, NoProtocolError, StreamLimit, Entries, Operations, EndedEmpty
<1>22. ASSUME NEW j \in Ids PROVE StreamSound(j)'
  <2>1. Same(j) /\ StreamSound(j)
    BY <1>2 DEF Same, SameClient, SameAgent, SameRecord, SameSent, SameTold, Fresh, SessionInv
  <2>2. CASE j # k
    <3>1. (Literal(j)' <=> Literal(j)) /\ (Owned(j) => Owned(j)')
      BY <1>10, <2>2, IdsAreNumbers
    <3> QED  BY <1>2, <2>1, <3>1, StillSound
  <2>3. CASE j = k
    <3>1. /\ streams'["client"][j] = "none" /\ streams'["agent"][j] = "none"
          /\ operations'[j] = "none" /\ Clean("agent", j)'
          /\ Silent(j)'
      <4>1. Unborn(j)'
        BY <1>13, <1>14, <2>3
      <4> QED  BY <4>1 DEF Unborn
    <3>2. /\ \A t \in Requests : ~In(toAgent', t, j)
          /\ \A t \in Replied : ~In(toClient', t, j)
      BY <3>1 DEF Silent, Asked, Told, Requests, Replied
    <3>3. EntrySound(j)'
      <4>1. ~permit'[j]
        BY <1>2, <2>1, <3>1 DEF StreamSound, EntrySound
      <4> QED  BY <3>1, <4>1 DEF EntrySound
    <3>4. ASSUME NEW e \in Ends PROVE RecordSound(e, j)'
      BY <1>2, <2>1 DEF StreamSound, RecordSound, Clean
    <3>5. AgentReady(j)'
      BY <3>1, <3>2 DEF AgentReady, Requests
    <3>6. ClientReady(j)'
      <4>1. Told(j, "none")'
        BY <3>1 DEF Silent
      <4> QED  BY <3>2, <4>1 DEF ClientReady, Replied
    <3>7. Agreed(j)'
      BY <3>1 DEF Agreed
    <3> QED  BY <3>3, <3>4, <3>5, <3>6, <3>7 DEF StreamSound
  <2> QED  BY <2>2, <2>3
<1>23. PermitsAccounted'
  <2>1. OnlyCaller(c)
    BY <1>2, <1>7 DEF OnlyCaller
  <2> QED  BY <1>2, <1>8, <2>1, CallerAccounted
<1> QED
  BY <1>8, <1>15, <1>16, <1>17, <1>18, <1>20, <1>21, <1>22, <1>23 DEF SessionInv

LEMMA AllocateStreamIdStep ==
  ASSUME SessionInv, NEW c \in Callers, AllocateStreamId(c)
  PROVE  SessionInv'
<1>1. /\ pc[c] = "admitting" /\ AdmissionFree
      /\ UNCHANGED <<reply, commands, dropped>> /\ UNCHANGED DriverSide
  BY DEF AllocateStreamId, DriverSide, sharedVars
<1>2. CASE CanAllocate
  <2>1. /\ id' = [id EXCEPT ![c] = nextStreamId] /\ nextStreamId' = nextStreamId + 2
        /\ pc' = [pc EXCEPT ![c] = "sending"] /\ UNCHANGED <<holdsSlot, slots, shutdown>>
    BY <1>2 DEF AllocateStreamId
  <2>2. nextStreamId + 2 <= IdLimit
    BY <1>2 DEF CanAllocate
  <2> QED  BY <1>1, <2>1, <2>2, NewStream
<1>3. CASE ~CanAllocate
  <2>1. /\ shutdown' = TRUE /\ pc' = [pc EXCEPT ![c] = "done"]
        /\ holdsSlot' = [holdsSlot EXCEPT ![c] = FALSE] /\ slots' = slots + 1
        /\ UNCHANGED <<id, nextStreamId>>
    BY <1>3 DEF AllocateStreamId
  <2>2. /\ Types /\ Waiting(c) /\ Permitted(c) /\ slots \in Nat /\ id[c] = 0
        /\ pc \in [Callers -> Places] /\ holdsSlot \in [Callers -> BOOLEAN]
        /\ Count(reply[c].permit) \in Nat
    BY <1>1, CallerFacts
  <2>3. /\ pc' \in [Callers -> Places] /\ pc'[c] = "done"
        /\ holdsSlot' \in [Callers -> BOOLEAN] /\ holdsSlot'[c] = FALSE
        /\ \A d \in Callers \ {c} : pc'[d] = pc[d] /\ holdsSlot'[d] = holdsSlot[d]
    <3>1. "done" \in Places
      BY DEF Places
    <3> QED  BY <2>1, <2>2, <3>1
  <2>4. Types'
    <3>1. /\ id' \in [Callers -> Ids \cup {0}] /\ reply' \in [Callers -> Replies]
          /\ nextStreamId' \in Ids /\ commands' \in Seq(Commands) /\ dropped' \in PerEnd(BOOLEAN)
      BY <1>1, <2>1, <2>2 DEF Types
    <3>2. slots' \in Nat /\ shutdown' \in BOOLEAN
      BY <2>1, <2>2
    <3> QED  BY <1>1, <2>2, <2>3, <3>1, <3>2, CallerTypes
  <2>5. OnlyCaller(c)
    BY <1>1, <2>3 DEF OnlyCaller
  <2>6. Waiting(c)'
    <3>1. streams' = streams
      BY <1>1 DEF DriverSide
    <3> QED  BY <1>1, <2>1, <3>1, WaitingMoves
  <2>7. Permitted(c)' /\ holdsSlot[c]
    BY <1>1, <2>2, <2>3 DEF Permitted
  <2>8. PermitsAccounted'
    <3>1. slots' + Count(holdsSlot'[c]) + Count(reply'[c].permit)
            = slots + Count(holdsSlot[c]) + Count(reply[c].permit)
      <4>1. Count(holdsSlot'[c]) = 0 /\ Count(holdsSlot[c]) = 1 /\ reply' = reply
        BY <1>1, <2>3, <2>7 DEF Count
      <4>2. slots' = slots + 1 /\ slots \in Nat /\ Count(reply[c].permit) \in Nat
        BY <2>1, <2>2
      <4> QED  BY <4>1, <4>2
    <3> QED  BY <1>1, <2>4, <2>5, <3>1, CallerAccounted
  <2> QED  BY <1>1, <2>1, <2>3, <2>4, <2>5, <2>6, <2>7, <2>8, CallerFrame
<1> QED
  BY <1>2, <1>3


-----------------------------------------------------------------------------
LEMMA InitSound == Init => SessionInv
<1> SUFFICES ASSUME Init PROVE SessionInv
  OBVIOUS
<1>1. /\ pc = [c \in Callers |-> "new"] /\ id = [c \in Callers |-> 0]
      /\ holdsSlot = [c \in Callers |-> FALSE] /\ reply = [c \in Callers |-> NoReply]
      /\ slots = MaxStreams /\ nextStreamId = 1 /\ shutdown = FALSE /\ commands = <<>>
      /\ session = [e \in Ends |-> "up"] /\ permit = [i \in Ids |-> FALSE]
      /\ streams = [e \in Ends |-> [i \in Ids |-> "none"]]
      /\ candidates = [e \in Ends |-> [i \in Ids |-> FALSE]]
      /\ highestStreamId = 0 /\ operations = [i \in Ids |-> "none"] /\ relays = {}
      /\ dropped = [e \in Ends |-> [i \in Ids |-> FALSE]]
      /\ remoteClosed = [e \in Ends |-> [i \in Ids |-> FALSE]]
      /\ closeQueued = [e \in Ends |-> [i \in Ids |-> FALSE]]
      /\ events = [e \in Ends |-> [i \in Ids |-> "none"]]
      /\ toAgent = <<>> /\ toClient = <<>>
  BY DEF Init
<1>2. Types
  <2>1. NoReply \in Replies
    BY DEF NoReply, Replies
  <2>2. /\ pc \in [Callers -> Places] /\ id \in [Callers -> Ids \cup {0}]
        /\ holdsSlot \in [Callers -> BOOLEAN] /\ reply \in [Callers -> Replies]
    BY <1>1, <2>1 DEF Places
  <2>3. slots \in Nat /\ nextStreamId \in Ids /\ shutdown \in BOOLEAN
    BY <1>1, IdsAreNumbers
  <2>4. commands \in Seq(Commands) /\ toAgent \in Seq(Frames(Requests)) /\ toClient \in Seq(Frames(Replied))
    BY <1>1
  <2>5. session \in [Ends -> {"up", "protocolError", "ended"}] /\ permit \in [Ids -> BOOLEAN]
    BY <1>1
  <2>6. /\ streams \in PerEnd(States) /\ candidates \in PerEnd(BOOLEAN)
        /\ dropped \in PerEnd(BOOLEAN) /\ remoteClosed \in PerEnd(BOOLEAN)
        /\ closeQueued \in PerEnd(BOOLEAN)
        /\ events \in PerEnd({"none", "Stopped", "LocalCloseQueued"})
    BY <1>1 DEF PerEnd, States
  <2>7. /\ highestStreamId \in Ids \cup {0} /\ relays \in SUBSET Ids
        /\ operations \in [Ids -> {"none", "resolve", "open"}]
    BY <1>1
  <2> QED  BY <2>2, <2>3, <2>4, <2>5, <2>6, <2>7 DEF Types
<1>3. Len(commands) = 0 /\ Len(toAgent) = 0 /\ Len(toClient) = 0 /\ 1 .. 0 = {}
  BY <1>1
<1>4. \A c \in Callers :
        /\ pc[c] = "new" /\ id[c] = 0 /\ holdsSlot[c] = FALSE
        /\ reply[c].kind = "none" /\ reply[c].permit = FALSE
  BY <1>1 DEF NoReply
<1>5. \A e \in Ends : /\ session[e] = "up"
                      /\ \A i \in Ids : /\ streams[e][i] = "none" /\ Clean(e, i)
  BY <1>1 DEF Clean
<1>6. \A i \in Ids : operations[i] = "none" /\ permit[i] = FALSE /\ Fresh(i)
  BY <1>1, IdsAreNumbers DEF Fresh
<1>7. \A t, i : ~In(toAgent, t, i) /\ ~In(toClient, t, i)
  BY <1>3 DEF In
<1>8. IdsOwned /\ CommandsSound /\ AsksOnce /\ Len(commands) <= CommandCapacity
  BY <1>3, <1>4 DEF IdsOwned, CommandsSound, AsksOnce
<1>9. CallersSound
  <2>1. \A c \in Callers : Waiting(c)
    BY <1>3, <1>4 DEF Waiting
  <2>2. \A c \in Callers : Permitted(c)
    BY <1>4 DEF Permitted
  <2> QED  BY <2>1, <2>2 DEF CallersSound
<1>10. \A i \in Ids : Asked(i, "none") /\ Told(i, "none") /\ Silent(i)
  BY <1>7 DEF Asked, Told, Silent
<1>11. Ordered
  <2>1. \A i \in Ids : Unborn(i)
    BY <1>5, <1>6, <1>10, TwoEnds DEF Unborn
  <2> QED  BY <1>3, <1>4, <2>1 DEF Ordered
<1>12. FramesNeat
  BY <1>3 DEF FramesNeat, Neat
<1>13. ASSUME NEW i \in Ids PROVE StreamSound(i)
  <2>1. EntrySound(i)
    BY <1>5, <1>6, TwoEnds DEF EntrySound
  <2>2. \A e \in Ends : RecordSound(e, i)
    BY <1>5 DEF RecordSound, Clean
  <2>3. AgentReady(i)
    BY <1>5, <1>6, <1>7, TwoEnds DEF AgentReady
  <2>4. ClientReady(i)
    BY <1>7, <1>10 DEF ClientReady
  <2>5. Agreed(i)
    BY <1>5, <1>10, TwoEnds DEF Agreed
  <2> QED  BY <2>1, <2>2, <2>3, <2>4, <2>5 DEF StreamSound
<1>14. EndedEmpty /\ NoProtocolError
  BY <1>5, TwoEnds DEF EndedEmpty, NoProtocolError
<1>15. Cardinality({}) = 0
  BY FS_EmptySet
<1>16. PermitsAccounted
  <2>1. Permits = {} /\ ReplyPermits = {} /\ CommandPermits = {} /\ EntryPermits = {}
    BY <1>3, <1>4, <1>6 DEF Permits, ReplyPermits, CommandPermits, EntryPermits
  <2>2. slots = MaxStreams /\ MaxStreams \in Nat
    BY <1>1
  <2>3. slots + Cardinality(Permits) + Cardinality(ReplyPermits)
          + Cardinality(CommandPermits) + Cardinality(EntryPermits) = MaxStreams
    BY <1>15, <2>1, <2>2
  <2> QED  BY <1>5, <2>3, TwoEnds DEF PermitsAccounted
<1>17. StreamLimit
  <2>1. (\A e \in Ends : Entries(e) = {}) /\ relays = {} /\ Operations = {}
    BY <1>1, <1>5, <1>6 DEF Entries, Operations
  <2> QED  BY <1>15, <2>1 DEF StreamLimit
<1> QED
  BY <1>2, <1>8, <1>9, <1>11, <1>12, <1>13, <1>14, <1>16, <1>17 DEF SessionInv

LEMMA StutterSound ==
  ASSUME SessionInv, UNCHANGED vars
  PROVE  SessionInv'
<1>1. /\ UNCHANGED <<pc, id, holdsSlot, reply, slots, nextStreamId, shutdown, commands>>
      /\ UNCHANGED <<session, streams, candidates, permit, highestStreamId, operations, relays>>
      /\ UNCHANGED <<dropped, remoteClosed, closeQueued, events, toAgent, toClient>>
  BY DEF vars, callerVars, handleVars, agentVars, sharedVars
<1>2. Types'
  BY <1>1 DEF SessionInv, Types
<1>3. IdsOwned' /\ AsksOnce' /\ Len(commands') <= CommandCapacity /\ FramesNeat' /\ EndedEmpty'
  BY <1>1 DEF SessionInv, IdsOwned, AsksOnce, FramesNeat, EndedEmpty
<1>4. CommandsSound'
  BY <1>1 DEF SessionInv, CommandsSound, Owned, Literal
<1>5. CallersSound'
  BY <1>1 DEF SessionInv, CallersSound, Waiting, Awaits, Permitted
<1>6. Ordered'
  <2>1. \A x : (Fresh(x)' <=> Fresh(x)) /\ (Unborn(x)' <=> Unborn(x)) /\ (Opens(x)' <=> Opens(x))
    BY <1>1 DEF Fresh, Unborn, Silent, Asked, Told, Clean, Opens, Literal
  <2> QED  BY <1>1, <2>1 DEF SessionInv, Ordered
<1>7. ASSUME NEW j \in Ids PROVE StreamSound(j)'
  <2>1. Same(j) /\ StreamSound(j)
    BY <1>1 DEF Same, SameClient, SameAgent, SameRecord, SameSent, SameTold, Fresh, SessionInv
  <2> QED  BY <1>1, <2>1, Untouched
<1>8. NoProtocolError' /\ StreamLimit'
  BY <1>1 DEF SessionInv, NoProtocolError, StreamLimit, Entries, Operations
<1>9. PermitsAccounted'
  BY <1>1 DEF SessionInv, PermitsAccounted, Permits, ReplyPermits, CommandPermits, EntryPermits
<1> QED
  BY <1>2, <1>3, <1>4, <1>5, <1>6, <1>7, <1>8, <1>9 DEF SessionInv

LEMMA NextSound == SessionInv /\ [Next]_vars => SessionInv'
<1> SUFFICES ASSUME SessionInv, [Next]_vars PROVE SessionInv'
  OBVIOUS
<1>1. ASSUME NEW c \in Callers, Caller(c) \/ OpenTarget(c) \/ GiveUp(c) \/ DropStream(c)
      PROVE  SessionInv'
  <2>1. CASE AcquireSlot(c)
    BY <2>1, AcquireSlotStep
  <2>2. CASE AllocateStreamId(c)
    BY <2>2, AllocateStreamIdStep
  <2>3. CASE SendCommand(c)
    BY <2>3, SendCommandStep
  <2>4. CASE SendOpen(c)
    BY <2>4, SendOpenStep
  <2>5. CASE TakeReply(c)
    BY <2>5, TakeReplyStep
  <2>6. CASE Unavailable(c)
    BY <2>6, UnavailableStep
  <2>7. CASE OpenTarget(c)
    BY <2>7, OpenTargetStep
  <2>8. CASE GiveUp(c)
    BY <2>8, GiveUpStep
  <2>9. CASE DropStream(c)
    BY <2>9, DropStreamStep
  <2> QED
    BY <1>1, <2>1, <2>2, <2>3, <2>4, <2>5, <2>6, <2>7, <2>8, <2>9 DEF Caller
<1>2. ASSUME NEW e \in Ends, NEW i \in Ids, Worker(e, i) \/ HandleWorkerEvent(e, i)
      PROVE  SessionInv'
  <2>1. CASE e = "client" /\ Worker(e, i)
    BY <2>1, ClientWorkerStep
  <2>2. CASE e = "agent" /\ Worker(e, i)
    BY <2>2, AgentWorkerStep
  <2>3. CASE e = "client" /\ HandleWorkerEvent(e, i)
    BY <2>3, ClientEventStep
  <2>4. CASE e = "agent" /\ HandleWorkerEvent(e, i)
    BY <2>4, AgentEventStep
  <2> QED  BY <1>2, <2>1, <2>2, <2>3, <2>4, TwoEnds
<1>3. CASE ClientDriver
  <2>1. CASE CommandResolve
    BY <2>1, CommandResolveStep
  <2>2. CASE CommandOpen
    BY <2>2, CommandOpenStep
  <2>3. CASE CommandOpenIp
    BY <2>3, CommandOpenIpStep
  <2>4. CASE CommandClose
    BY <2>4, CommandCloseStep
  <2>5. CASE RecvResolveOk
    BY <2>5, RecvResolveOkStep
  <2>6. CASE RecvOpenOk
    BY <2>6, RecvOpenOkStep
  <2>7. CASE RecvOpenError
    BY <2>7, RecvOpenErrorStep
  <2>8. CASE ClientRecvClose
    BY <2>8, ClientRecvCloseStep
  <2> QED
    BY <1>3, <2>1, <2>2, <2>3, <2>4, <2>5, <2>6, <2>7, <2>8 DEF ClientDriver
<1>4. CASE AgentDriver
  <2>1. CASE RecvResolve
    BY <2>1, RecvResolveStep
  <2>2. CASE RecvOpen
    BY <2>2, RecvOpenStep
  <2>3. CASE AgentRecvClose
    BY <2>3, AgentRecvCloseStep
  <2> QED  BY <1>4, <2>1, <2>2, <2>3 DEF AgentDriver
<1>5. ASSUME NEW i \in Ids, RelayEnds(i) PROVE SessionInv'
  BY <1>5, RelayEndsStep
<1>6. ASSUME NEW i \in Ids, NEW ok \in BOOLEAN, FinishOperation(i, ok) PROVE SessionInv'
  BY <1>6, FinishOperationStep
<1>7. CASE ClientEnds
  BY <1>7, ClientEndsStep
<1>8. CASE AgentEnds
  BY <1>8, AgentEndsStep
<1>9. CASE UNCHANGED vars
  BY <1>9, StutterSound
<1> QED
  BY <1>1, <1>2, <1>3, <1>4, <1>5, <1>6, <1>7, <1>8, <1>9 DEF Next

-----------------------------------------------------------------------------
(***************************************************************************)
(* The inductive invariant: callers, commands, entries, records and the    *)
(* frames in both directions always fit together.                          *)
(***************************************************************************)
THEOREM SessionSound == Spec => []SessionInv
<1>1. Init => SessionInv
  BY InitSound
<1>2. SessionInv /\ [Next]_vars => SessionInv'
  BY NextSound
<1> QED
  BY <1>1, <1>2, PTL DEF Spec

(***************************************************************************)
(* However admissions, timeouts, cancellations, late results and crossed   *)
(* CLOSEs interleave, drive_client and drive_agent never answer each other *)
(* with a protocol error.                                                  *)
(***************************************************************************)
THEOREM DriversAgree == Spec => []NoProtocolError
<1>1. SessionInv => NoProtocolError
  BY DEF SessionInv
<1> QED
  BY <1>1, SessionSound, PTL

(***************************************************************************)
(* A Closing entry of either map always has the CLOSE that retires it on   *)
(* its way while both drivers run: tombstones do not accumulate.           *)
(***************************************************************************)
THEOREM TombstonesAnswered == Spec => []TombstoneAnswered
<1>1. SessionInv => TombstoneAnswered
  <2> SUFFICES ASSUME SessionInv, session["client"] = "up", session["agent"] = "up",
                      NEW e \in Ends, NEW i \in Ids, streams[e][i] = "Closing"
               PROVE  InFlight(toAgent, i) \/ InFlight(toClient, i)
    BY DEF TombstoneAnswered
  <2>1. Agreed(i) /\ RecordSound("agent", i)
    BY TwoEnds DEF SessionInv, StreamSound
  <2>2. CASE e = "client"
    <3>1. In(toAgent, "CLOSE", i) \/ In(toClient, "CLOSE", i)
      BY <2>1, <2>2 DEF Agreed
    <3> QED  BY <3>1 DEF In, InFlight, Frame
  <2>3. CASE e = "agent"
    <3>1. closeQueued["agent"][i]
      BY <2>1, <2>3 DEF RecordSound
    <3>2. \A stage : Row(i, stage, "Closing") => In(toClient, "CLOSE", i)
      BY <3>1 DEF Row
    <3>3. In(toAgent, "CLOSE", i) \/ In(toClient, "CLOSE", i)
      BY <2>1, <2>3, <3>2 DEF Agreed
    <3> QED  BY <3>3 DEF In, InFlight, Frame
  <2> QED  BY <2>2, <2>3, TwoEnds
<1> QED
  BY <1>1, SessionSound, PTL

(***************************************************************************)
(* Every permit of ClientInner.slots is in the semaphore, with one caller, *)
(* in one command, one reply or one entry, and a stream that is opening or *)
(* open has its own.                                                       *)
(***************************************************************************)
THEOREM PermitsKept == Spec => []PermitsAccounted
<1>1. SessionInv => PermitsAccounted
  BY DEF SessionInv
<1> QED
  BY <1>1, SessionSound, PTL

(***************************************************************************)
(* max_streams bounds both maps, and the agent's operations and relays     *)
(* together, also those whose stream has already been closed.              *)
(***************************************************************************)
THEOREM StreamsBounded == Spec => []StreamLimit
<1>1. SessionInv => StreamLimit
  BY DEF SessionInv
<1> QED
  BY <1>1, SessionSound, PTL

(***************************************************************************)
(* Type correctness, with what the code's types do not say: the semaphore  *)
(* never has more permits than it was made with, the command channel never *)
(* more than its capacity, and the client never cancels an operation.      *)
(***************************************************************************)
THEOREM TypesCorrect == Spec => []TypeOK
<1>1. SessionInv => TypeOK
  <2> SUFFICES ASSUME SessionInv PROVE TypeOK
    OBVIOUS
  <2>1. Types /\ PermitsAccounted /\ Len(commands) <= CommandCapacity
    BY DEF SessionInv
  <2>2. slots \in 0 .. MaxStreams
    <3>1. /\ IsFiniteSet(Permits) /\ IsFiniteSet(ReplyPermits) /\ IsFiniteSet(EntryPermits)
      BY FS_Subset, CallersAssumption, IdsAreNumbers DEF Permits, ReplyPermits, EntryPermits
    <3>2. IsFiniteSet(CommandPermits)
      <4>1. IsFiniteSet(1 .. Len(commands))
        BY <2>1, PlacesFinite
      <4> QED  BY <4>1, FS_Subset DEF CommandPermits
    <3>3. /\ Cardinality(Permits) \in Nat /\ Cardinality(ReplyPermits) \in Nat
          /\ Cardinality(EntryPermits) \in Nat /\ Cardinality(CommandPermits) \in Nat
      BY <3>1, <3>2, FS_CardinalityType
    <3>4. /\ slots + Cardinality(Permits) + Cardinality(ReplyPermits)
               + Cardinality(CommandPermits) + Cardinality(EntryPermits) = MaxStreams
          /\ slots \in Nat /\ MaxStreams \in Nat
      BY <2>1 DEF PermitsAccounted, Types
    <3> QED  BY <3>3, <3>4
  <2>3. \A i \in Ids : streams["client"][i] # "Cancelled"
    BY DEF SessionInv, StreamSound, EntrySound
  <2>4. /\ pc \in [Callers -> Places] /\ id \in [Callers -> Ids \cup {0}]
        /\ holdsSlot \in [Callers -> BOOLEAN] /\ reply \in [Callers -> Replies]
        /\ nextStreamId \in Ids /\ shutdown \in BOOLEAN
        /\ session \in [Ends -> {"up", "protocolError", "ended"}] /\ streams \in PerEnd(States)
        /\ highestStreamId \in Ids \cup {0}
        /\ operations \in [Ids -> {"none", "resolve", "open"}] /\ relays \subseteq Ids
    BY <2>1 DEF Types
  <2> QED  BY <2>1, <2>2, <2>3, <2>4 DEF TypeOK, Places, Replies, PerEnd, States
<1> QED
  BY <1>1, SessionSound, PTL

=============================================================================
