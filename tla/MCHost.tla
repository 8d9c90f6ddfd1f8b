------------------------------- MODULE MCHost -------------------------------
(***************************************************************************)
(* The parts of the program around the proxy, for TLC: the log worker, the *)
(* user commands, the loading of a configuration, the service with its     *)
(* log, the wizard, and the wire format of the bridge.  They share files,  *)
(* not memory, and nothing one of them does between another's steps is     *)
(* visible to it except through those; so one of them runs in each         *)
(* behaviour and the rest stay put.                                        *)
(***************************************************************************)
EXTENDS Log, UserFile, Config, ServiceLog, Wizard

CONSTANTS LogRecords    \* records emitted when the log worker runs

VARIABLES
    running,    \* the machine that runs
    sent, given, wire, input, buffer, start, frames, delivered, state    \* of Codec

Wire == INSTANCE Codec WITH
    MAX_FRAME_PAYLOAD <- 10, MAX_DATA_PAYLOAD <- 3, MAX_HOSTNAME_LEN <- 2,
    MAX_DIAGNOSTIC_LEN <- 2, MAX_RESOLVE_ADDRESSES <- 2, INITIAL_WINDOW <- 4, MAX_STREAMS <- 3,
    Letter <- 1 .. 7, Mapped <- 8
wireVars == <<sent, given, wire, input, buffer, start, frames, delivered, state>>

\* Configurations: a root, a file, one that a wildcard finds, and a link.
MCListing == << <<"r">>, <<"a">>, <<"b", "a">>, <<"l">> >>
MCTarget(n) == IF n = <<"l">> THEN <<"a">> ELSE n

Set(k, v) == [kind |-> "set", key |-> k, val |-> v]
Include(p) == [kind |-> "include", pattern |-> p]
RuleText(i) == [kind |-> "rule", name |-> i, scope |-> "socks", body |-> <<>>, end |-> "closed"]
Listen == <<Set("internal", "loopback")>>
Opt(k, vs) == {<<>>} \cup {<<Set(k, v)>> : v \in vs}
Loads(r, a, b) == ConfigInit(<<"r">> :> r @@ <<"a">> :> a @@ <<"b", "a">> :> b)

IncludeLines ==
    {RuleText(1), RuleText(2), Set("internal", "public")}
    \cup {Include(p) : p \in { <<"a">>, <<"l">>, <<"b", "a">>, <<"*", "a">>, <<"?">>,
                               <<"?", "*", "?">>, <<"z">>, <<"*", "z">> }}

Includes ==
    \E r \in SeqOf(IncludeLines, 2),
       a \in SeqOf({RuleText(3), Include(<<"l">>), Include(<<"b", "a">>), Set("internal", "public")}, 2),
       b \in SeqOf({RuleText(4), Include(<<"a">>), Include(<<"r">>), Include(<<"*">>)}, 1) :
         Loads(Listen \o r, a, b)

Numbers == \E k \in Numeric, v \in 0 .. Cap + 1 : Loads(Listen \o <<Set(k, v)>>, <<>>, <<>>)

WordSettings ==
    \E m \in Opt("socksmethod", {"none", "username", "both", "magic"}), u \in Opt("userlist", {"path"}),
       p \in Opt("authcommand", {"program"}), o \in Opt("logoutput", {"stdout", "file"}),
       f \in Opt("logfile", {"path"}), c \in Opt("certfile", {"path"}),
       k \in Opt("keyfile", {"path"}), d \in Opt("acmedomains", {"domain"}),
       h \in Opt("acmecache", {"path"}), e \in Opt("acmeemail", {"address"}), i \in {Listen, <<>>} :
         Loads(i \o m \o u \o p \o o \o f \o c \o k \o d \o h \o e, <<>>, <<>>)

Startups ==
    \E e \in Opt("egress", {"direct", "rdp", "smoke"}), x \in Opt("external", {"unspecified", "fixed"}),
       m \in Opt("metricslisten", {"loopback", "public"}), p \in Opt("allowpublic", {"true", "false"}) :
         Loads(Listen \o e \o x \o m \o p, <<>>, <<>>)

Directive == [key : {"from", "to", "protocol", "command", "bandwidth", "log", "x"},
              vals : { <<>>, <<"net">>, <<"host">>, <<"net", "port", "range">>,
                       <<"net", "port", "=", "range">>, <<"net", "ports", "=", "range">>,
                       <<"net", "port">>, <<"net", "port", "=", "=", "range">>,
                       <<"net", "port", "range", "x">>, <<"tcp">>, <<"tcp", "udp">>,
                       <<"connect">>, <<"x">>, <<"rate">> }]

RuleBodies ==
    \E s \in {"client", "socks"}, e \in {"closed", "trailing", "open"}, d \in Directive,
       more \in {<<>>, <<[key |-> "to", vals |-> <<"net">>]>>} :
         Loads(Listen \o <<[kind |-> "rule", name |-> 9, scope |-> s, body |-> <<d>> \o more,
                            end |-> e]>>, <<>>, <<>>)

\* Service: a log that a reload would read, run, link to or cache under.
In(leaf) == << <<"d">>, leaf >>
Usual == [valid |-> TRUE, logfile |-> NoPath, keep |-> 2, sources |-> {In(<<"conf">>)},
          userlist |-> In(<<"u">>), program |-> NoPath, tls |-> {}, cache |-> {}, patterns |-> {}]
MCReads ==
    {Usual, [Usual EXCEPT !.userlist = << <<"j">>, <<"x", "2">> >>],
     [Usual EXCEPT !.userlist = In(<<"h">>)],
     [Usual EXCEPT !.program = << <<"v">> >>], [Usual EXCEPT !.program = In(<<"v">>)],
     [Usual EXCEPT !.cache = {<< <<"d">>, <<"x", "1">>, <<"c">> >>}],
     [Usual EXCEPT !.patterns = {[dir |-> << <<"j">> >>, prefix |-> <<"x">>]}],
     [Usual EXCEPT !.tls = {In(<<"x", "1">>)}],
     [Usual EXCEPT !.sources = {In(<<"conf">>), In(<<"x", "2">>)}],
     [Usual EXCEPT !.valid = FALSE]}
MCConfigs ==
    {[c EXCEPT !.logfile = l] :
        c \in MCReads, l \in {NoPath, << <<"j">>, <<"v">> >>, In(<<"x", "2">>)}}
    \cup {[c EXCEPT !.logfile = << <<"e">>, <<"x">> >>, !.keep = 0] : c \in MCReads}
    \cup {[Usual EXCEPT !.logfile = l] : l \in {In(<<"u", "bak">>), << <<"j">>, <<"odd">> >>}}
MCConfigPath == In(<<"conf">>)
MCMarker == In(<<"marker">>)
MCDefaultLog == In(<<"x">>)
MCJunction == << <<"j">> >>
MCJunctionTarget == << <<"d">> >>
MCNumerals == <<"1", "2">>
MCHardLink == {In(<<"x", "1">>), In(<<"h">>)}

\* Wizard: public configurations and ones that differ from them in one thing, with rule
\* sets that are, or nearly are, the wizard's own.
AnyTo(p) == AddrSpec(AnyV4, p)
Web == [min |-> 80, max |-> 443]
ImportedRules ==
    LET client == {Rule("c", "client", TRUE, AddrSpec(x, p), AnyTo(None)) :
                      x \in {AnyV4, Lan}, p \in {None, AnyPort}}
        block == {Rule("deny-loopback", "socks", FALSE, AnyTo(None), AddrSpec(Loopback, None)),
                  Rule("b", "socks", FALSE, AnyTo(None), AnyTo(None)),
                  Rule("b", "socks", FALSE, AnyTo(None), AnyTo([min |-> 22, max |-> 22]))}
        pass == {[Rule("public-internet", "socks", TRUE, AnyTo(None), AnyTo(p)) EXCEPT
                     !.commands = c[1], !.protocols = c[2], !.methods = m] :
                   p \in {None, Web}, m \in {{}, {"username"}, {"none"}},
                   c \in {<<{"connect"}, {"tcp"}>>, <<{"connect", "udp"}, {"tcp", "udp"}>>,
                          <<{}, {}>>}}
    IN  {<<c, b, p>> : c \in client, b \in block, p \in pass}
        \cup {<<b, c, d, p>> : b \in block, c \in client, d \in block,
                               p \in {CHOOSE p \in pass : TRUE}}
UsersFile == Append(Etc, <<"users">>)
PublicOriginal ==
    [listen |-> [ip |-> "any", port |-> 443], methods |-> <<"username">>, userlist |-> {UsersFile},
     command |-> FALSE,
     tls |-> [kind |-> "acme", domains |-> <<"d">>, cache |-> {<<<<"root">>, <<"acme">>>>},
              staging |-> FALSE],
     range |-> {}, advertise |-> {}, strict |-> TRUE, log |-> {},
     areas |-> RenderedArea("public"), include |-> FALSE, rules |-> <<>>]
MCOriginals ==
    {[c EXCEPT !.rules = r] :
        r \in ImportedRules,
        c \in {PublicOriginal,
               [PublicOriginal EXCEPT !.range = {"custom"}, !.advertise = {"ip"},
                                      !.userlist = {Append(Etc, <<"logs">>)},
                                      !.log = {Beside(Output, <<"logs">>)}],
               [PublicOriginal EXCEPT !.log = {UsersFile}, !.include = TRUE],
               [PublicOriginal EXCEPT !.command = TRUE, !.areas["dns"] = "custom"],
               [PublicOriginal EXCEPT !.tls.cache = {<<<<"acme">>>>}],
               [PublicOriginal EXCEPT !.methods = <<"none", "username">>],
               [PublicOriginal EXCEPT !.methods = <<"none">>, !.userlist = {},
                                      !.listen.ip = "loopback"],
               [PublicOriginal EXCEPT !.tls = Plain, !.listen.port = 1080]}}
MCAlias == [p \in {Beside(Output, <<"link">>)} |-> UsersFile]
MCInodes == {{Append(Etc, <<"logs">>), Append(Etc, <<"hard">>)}}

\* Wizard: what is submitted.  Without an import, products of the fields that a template
\* reads together; after one, the form as it is and with one field changed.
NoFields ==
    [template |-> {}, output |-> {}, host |-> {}, port |-> {}, client |-> {}, userlist |-> {},
     log |-> {}, domain |-> {}, cache |-> {}, staging |-> {}, udp |-> {}, range |-> {},
     advertise |-> {}]
Public == [NoFields EXCEPT !.template = {"public"}, !.domain = {"d"}]
Logs == Append(Etc, <<"logs">>)
Listening ==
    {[NoFields EXCEPT !.template = t, !.output = o, !.host = h, !.port = p, !.client = c,
                      !.domain = {"d"}] :
        t \in Option({"", "lan", "public", "other"}), h \in Option({"any", "loopback", "odd"}),
        o \in Option({Blank, Etc, <<<<"odd">>>>, <<<<"#">>, <<"conf">>>>}),
        p \in Option({0, 443}), c \in Option({AnyV4, NoRange})}
Filing ==
    {[Public EXCEPT !.template = t, !.output = o, !.userlist = u, !.log = l, !.cache = c] :
        t \in {{"lan"}, {"public"}}, o \in Option({ServiceConfig, Beside(Output, <<"link">>)}),
        u \in Option({Blank, Logs, DefaultUserlist, Append(Etc, <<"#">>), Etc}),
        l \in Option({Blank, Beside(Output, <<"logs">>), Append(Etc, <<"hard">>), <<<<"logs">>>>,
                      Lock(PublicUserlist), Beside(Output, <<"link">>)}),
        c \in Option({Blank, Etc, Logs, <<<<"acme">>>>})}
Associating ==
    {[Public EXCEPT !.domain = d, !.staging = s, !.udp = u, !.range = r, !.advertise = a] :
        d \in Option({"", "d", "odd"}), s \in Option({"on", "off", "x"}),
        u \in Option({"on", "off", "x"}), r \in Option({"", "custom", "odd"}),
        a \in Option({"", "ip", "odd"})}
MCFields == Listening \cup Filing \cup Associating
Changed(s) ==
    {s}
    \cup {[s EXCEPT !.template = {t}] : t \in {"local", "lan", "public"}}
    \cup {[s EXCEPT !.output = {o}] : o \in {ServiceConfig, Beside(Output, <<"link">>)}}
    \cup {[s EXCEPT !.host = {h}] : h \in {"loopback", "any"}}
    \cup {[s EXCEPT !.userlist = u] : u \in Option({Blank, PublicUserlist, Output})}
    \cup {[s EXCEPT !.log = {p}] : p \in {Output, Lock(PublicUserlist)}}
    \cup {[s EXCEPT !.cache = c] : c \in Option({Etc, <<<<"root">>, <<"acme">>>>})}

\* Frames that may be sent and ones that may not; the wire has two of them, or one in
\* which a symbol changed, or more than the decoder's buffer holds.
FrameOf(ty, stream, v) == [ty |-> ty, stream |-> stream, v |-> v]
Good ==
    {FrameOf(1, 0, << <<1, 1, 2, 3, 4, 3, 5>> >>), FrameOf(2, 1, << <<1>>, <<1, 2>> >>),
     FrameOf(3, 1, <<>>), FrameOf(3, 1, << <<2, 1, 5, 1>>, <<2, 1, 6, 0>> >>),
     FrameOf(4, 1, << <<1, 1, 0>> >>), FrameOf(4, 2, << <<2, 1, 9, 1>> >>),
     FrameOf(5, 1, << <<2, 1, 7, 3>> >>), FrameOf(6, 1, << <<8>>, <<>> >>),
     FrameOf(6, 1, << <<1>>, <<2, 1>> >>), FrameOf(7, 1, << <<9, 1, 7>> >>), FrameOf(8, 1, <<>>),
     FrameOf(9, 1, << <<4>> >>), FrameOf(10, 1, << <<1>> >>), FrameOf(11, 0, << <<0>> >>),
     FrameOf(12, 0, << <<6>> >>)}
Bad ==
    {FrameOf(1, 0, << <<1, 2, 2, 3, 4, 3, 5>> >>), FrameOf(1, 0, << <<1, 1, 1, 3, 5, 3, 5>> >>),
     FrameOf(2, 1, << <<0>>, <<1>> >>), FrameOf(2, 1, << <<1>>, <<>> >>),
     FrameOf(2, 1, << <<1>>, <<1, 1, 1>> >>),
     FrameOf(3, 1, << <<2, 1, 8, 1>>, <<1, 1, 0>> >>), FrameOf(4, 1, << <<1, 0, 0>> >>),
     FrameOf(6, 1, << <<1>>, <<1, 1, 1>> >>), FrameOf(7, 1, << <<>> >>),
     FrameOf(7, 1, << <<1, 1, 1, 1>> >>), FrameOf(8, 0, <<>>), FrameOf(10, 1, << <<0>> >>),
     FrameOf(11, 1, << <<0>> >>)}
Long == << FrameOf(1, 0, << <<1, 1, 1, 3, 4, 3, 5>> >>),
           FrameOf(3, 1, << <<2, 1, 5, 1>>, <<2, 1, 6, 0>> >>) >>
Tail1 == FrameOf(11, 0, << <<3>> >>)
Wires ==
    \/ \E f \in Good \cup Bad, g \in Bad \cup {Tail1} :
          Wire!DecoderInit(<<f, g>>, Wire!Bytes(<<f, g>>))
    \/ \E f \in Good : \E i \in 1 .. Len(Wire!encode(f)), x \in {0, 2, 7, 13} :
          Wire!DecoderInit(<<f, Tail1>>, [Wire!encode(f) EXCEPT ![i] = x] \o Wire!encode(Tail1))
    \/ Wire!DecoderInit(Long \o Long, Wire!Bytes(Long \o Long))
WireNext ==
    \/ \E n \in {1, 5, Len(wire)} \ {0} : Wire!Push(n)
    \/ Wire!Slice \/ Wire!Return

-----------------------------------------------------------------------------
WireIdle == Wire!DecoderInit(<<>>, <<>>)
LogIdle == LogInit(0) /\ guard = "held" /\ faults = 0
UserIdle ==
    /\ target = "managed" /\ initially = NoFile
    /\ op = [c \in Commands |-> [kind |-> "add", user |-> "u"]]
    /\ UserInit
ConfigIdle == Loads(Listen, <<>>, <<>>)
ServiceIdle == onDisk = Usual /\ ServiceInit
WizardIdle == WizardInit({})

MCInit ==
    \/ /\ running = "log" /\ LogInit(LogRecords) /\ guard = "held" /\ faults = 0
       /\ UserIdle /\ ConfigIdle /\ ServiceIdle /\ WizardIdle /\ WireIdle
    \/ /\ running = "user" /\ UserInit
       /\ LogIdle /\ ConfigIdle /\ ServiceIdle /\ WizardIdle /\ WireIdle
    \/ /\ running = "config"
       /\ (Includes \/ Numbers \/ WordSettings \/ Startups \/ RuleBodies)
       /\ LogIdle /\ UserIdle /\ ServiceIdle /\ WizardIdle /\ WireIdle
    \/ /\ running = "service" /\ ServiceInit
       /\ LogIdle /\ UserIdle /\ ConfigIdle /\ WizardIdle /\ WireIdle
    \/ /\ running = "wizard" /\ (WizardInit({}) \/ \E c \in MCOriginals : WizardInit({c}))
       /\ LogIdle /\ UserIdle /\ ConfigIdle /\ ServiceIdle /\ WireIdle
    \/ /\ running = "wire" /\ Wires
       /\ LogIdle /\ UserIdle /\ ConfigIdle /\ ServiceIdle /\ WizardIdle

MCNext ==
    /\ UNCHANGED running
    /\ \/ /\ running = "log" /\ LogNext
          /\ UNCHANGED <<userVars, configVars, serviceVars, wizardVars, wireVars>>
       \/ /\ running = "user" /\ UserNext
          /\ UNCHANGED <<logVars, configVars, serviceVars, wizardVars, wireVars>>
       \/ /\ running = "config" /\ ConfigNext
          /\ UNCHANGED <<logVars, userVars, serviceVars, wizardVars, wireVars>>
       \/ /\ running = "service" /\ ServiceNext
          /\ onDisk' # onDisk => service = "running" \/ (service = "stopped" /\ ~Held)
          /\ UNCHANGED <<logVars, userVars, configVars, wizardVars, wireVars>>
       \/ /\ running = "wizard"
          /\ WizardNext(IF original = {} THEN MCFields ELSE Changed(Resubmitted(form)))
          /\ UNCHANGED <<logVars, userVars, configVars, serviceVars, wireVars>>
       \/ /\ running = "wire" /\ WireNext
          /\ UNCHANGED <<logVars, userVars, configVars, serviceVars, wizardVars>>

MCSpec == MCInit /\ [][MCNext]_<<running, logVars, userVars, configVars, serviceVars, wizardVars, wireVars>>

\* FramesExact of Codec: chunks do not matter, and bytes mean one frame or none.
FramesExact == Wire!FramesExact
=============================================================================
