------------------------------- MODULE Config -------------------------------
(***************************************************************************)
(* Loading a configuration (config.rs): a file is read line by line into a *)
(* builder, an include reads further files in place, the builder is        *)
(* checked as a whole and the result is validated before it takes effect.  *)
(* The recursion of parse_include is an explicit stack of open files.      *)
(*                                                                         *)
(* File names are sequences of letters, so that a wildcard include is      *)
(* matched by the code's own table; a file's text is a sequence of lines:  *)
(* a rule, an include, or a setting.  Numbers are 0 .. Cap + 1, where Cap  *)
(* stands for the largest value a capped setting may have.                 *)
(***************************************************************************)
EXTENDS Naturals, Sequences, SequencesExt, FiniteSets

CONSTANTS
    Listing,    \* the names in the directory, sorted; the first one is loaded
    Target(_),  \* what a name resolves to: the file, or the target of a link
    Cap

ASSUME ConfigAssumption == Cap \in Nat

Names == ToSet(Listing)
Root == Target(Listing[1])
Unset == {}   \* a setting is {} or {value}

VARIABLES
    texts,      \* the files: canonical name -> lines
    stack,      \* open files: [file, line, todo]; todo: included names still to read
    settings,   \* Builder: key -> {} or {value}
    rules,      \* Builder.rules
    sources,    \* Builder.loaded_source_paths
    status      \* "loading", "built", "effective" or why the load failed

configVars == <<texts, stack, settings, rules, sources, status>>

-----------------------------------------------------------------------------
(* Settings.                                                               *)

Rates == {"connectionrate", "authfailurerate", "byterate"}
Positive == {"connecttimeout", "handshaketimeout", "maxconnections", "concurrentconnections",
             "logrotatesize", "dnstimeout", "udpportrange"} \cup Rates
Capped == {"maxconnections", "concurrentconnections", "logrotatesize", "logrotatekeep",
           "shutdowndraintimeout", "dnstimeout", "udpportrange"} \cup Rates
Switch == {"true", "false"}
Endpoints == {"loopback", "public"}
Paths == {"path"}
Egress == {"direct", "rdp"}
LogOutputs == {"stdout", "file"}
Denials == {"categories"}
Words == [internal |-> Endpoints, egress |-> Egress,
          external |-> {"unspecified", "fixed"}, proxyprotocol |-> {"cidrs"},
          socksmethod |-> {"none", "username", "both"},
          userlist |-> Paths, authcommand |-> {"program"}, logoutput |-> LogOutputs,
          logfile |-> Paths, logformat |-> {"text", "json"},
          certfile |-> Paths, keyfile |-> Paths, acmedomains |-> {"domain"},
          acmeemail |-> {"address"}, acmecache |-> Paths, acmestaging |-> Switch,
          udpadvertise |-> {"ip", "host"}, udpstrictreply |-> Switch,
          dnsprefer |-> {"system", "ipv4", "ipv6"}, dnstryall |-> Switch, dnsdeny |-> Denials,
          metricslisten |-> Endpoints, allowpublic |-> Switch]
Numeric == Positive \cup Capped \cup {"iotimeout", "udptimeout", "authcachettl", "dnscachettl"}
Keys == Numeric \cup DOMAIN Words

\* Faulty: the rates are not among the settings that refuse zero.
Accepts_ZeroRate(key, val) ==
    IF key \in Numeric
    THEN val \in Nat /\ (key \in Positive \ Rates => val > 0) /\ (key \in Capped => val <= Cap)
    ELSE key \in DOMAIN Words /\ val \in Words[key]

\* parse_setting with the value parsers: what is not a number, a zero that would switch
\* the server off, a number beyond its cap or its width, an unknown word and an unknown
\* key are errors.
Accepts(key, val) ==
    IF key \in Numeric
    THEN val \in Nat /\ (key \in Positive => val > 0) /\ (key \in Capped => val <= Cap)
    ELSE key \in DOMAIN Words /\ val \in Words[key]

IsSet(key) == settings[key] # Unset

\* A client without a password is admitted unless the methods say otherwise.
OffersUsername == settings["socksmethod"] \in {{"username"}, {"both"}}

\* A logfile adds the file output.
LogsToFile == settings["logoutput"] = {"file"} \/ IsSet("logfile")

HasFiles == IsSet("certfile") \/ IsSet("keyfile")
HasAcme == \E k \in {"acmedomains", "acmeemail", "acmecache", "acmestaging"} : IsSet(k)

\* Builder::build.
Buildable ==
    /\ IsSet("internal")
    /\ OffersUsername => IsSet("userlist") \/ IsSet("authcommand")
    /\ LogsToFile => IsSet("logfile")
    /\ ~(HasFiles /\ HasAcme)
    /\ HasAcme => IsSet("acmedomains") /\ IsSet("acmecache")
    /\ HasFiles => IsSet("certfile") /\ IsSet("keyfile")

\* Config::validate_startup in a build that has RDP egress.
ValidStartup ==
    /\ settings["egress"] = {"rdp"} => settings["external"] # {"fixed"}
    /\ settings["metricslisten"] = {"public"} => settings["allowpublic"] = {"true"}

-----------------------------------------------------------------------------
(* Rules.  A rule's text is [scope, body, end]: directives [key, vals] with *)
(* the tokens after the key, and whether the closing brace ends the line.  *)
(* A selector is the set of what it admits; Everything admits everything.         *)

Everything == {"any"}
ListWords == [protocol |-> {"tcp", "udp"}, command |-> {"connect", "bind", "udpassociate"},
              method |-> {"none", "username"}]

\* parse_protocols, parse_commands and parse_methods.
ListAccepts(key, vals) == vals # <<>> /\ ToSet(vals) \subseteq ListWords[key]

\* An address and nothing after it that is not a port range; "=" is optional.
PortSpec(rest) == IF Len(rest) > 1 /\ rest[2] = "=" THEN SubSeq(rest, 3, Len(rest)) ELSE Tail(rest)

\* parse_addr_spec.
AddrAccepts(vals, allow_hosts) ==
    /\ vals # <<>>
    /\ vals[1] = "net" \/ (allow_hosts /\ vals[1] = "host")
    /\ Len(vals) > 1 => vals[2] = "port" /\ PortSpec(Tail(vals)) = <<"range">>

AddrSelector(vals) ==
    <<vals[1], IF Len(vals) > 1 /\ vals[2] = "port" THEN "range" ELSE "any">>

DirectiveAccepts(scope, d) ==
    CASE d.key = "from" -> AddrAccepts(d.vals, FALSE)
      [] d.key = "to" -> AddrAccepts(d.vals, scope = "socks")
      [] d.key \in DOMAIN ListWords -> ListAccepts(d.key, d.vals)
      [] d.key = "bandwidth" -> scope = "socks" /\ d.vals = <<"rate">>
      [] OTHER -> d.key = "log"

\* gather_block and parse_rule: the last directive of a key counts.
RuleAccepts(text) ==
    text.end = "closed" /\ \A i \in DOMAIN text.body : DirectiveAccepts(text.scope, text.body[i])

parse_rule(text) ==
    LET last(key) == {i \in DOMAIN text.body :
                        text.body[i].key = key /\ \A j \in DOMAIN text.body :
                                                    text.body[j].key = key => j <= i}
        value(key) == text.body[CHOOSE i \in last(key) : TRUE].vals
    IN  [key \in {"from", "to"} \cup DOMAIN ListWords |->
           IF last(key) = {} THEN Everything
           ELSE IF key \in {"from", "to"} THEN {AddrSelector(value(key))}
           ELSE ToSet(value(key))]

-----------------------------------------------------------------------------
(* Includes.                                                               *)

\* wildcard_match: entry <<i, j>> of the table says whether the first i letters
\* of the pattern match the first j of the text.
wildcard_match(pattern, text) ==
    LET dp[i \in 0 .. Len(pattern), j \in 0 .. Len(text)] ==
          CASE i = 0 -> j = 0
            [] i > 0 /\ pattern[i] = "*" -> dp[i - 1, j] \/ (j > 0 /\ dp[i, j - 1])
            [] i > 0 /\ pattern[i] = "?" -> j > 0 /\ dp[i - 1, j - 1]
            [] OTHER -> j > 0 /\ pattern[i] = text[j] /\ dp[i - 1, j - 1]
    IN  dp[Len(pattern), Len(text)]

string_has_wildcards(pattern) == {"*", "?"} \cap ToSet(pattern) # {}

\* A plain name is taken as it is; a pattern stands for the files it matches, sorted.
expand_include_pattern(pattern) ==
    IF string_has_wildcards(pattern)
    THEN SelectSeq(Listing, LAMBDA name : wildcard_match(pattern, name))
    ELSE <<pattern>>

Top == stack[Len(stack)]
SetTop(frame) == stack' = [stack EXCEPT ![Len(stack)] = frame]
Frame(file) == [file |-> file, line |-> 1, todo |-> <<>>]
Lines(file) == texts[file]

record_loaded_source_path(file) ==
    sources' = IF file \in ToSet(sources) THEN sources ELSE Append(sources, file)

Fail(why) == status' = why /\ UNCHANGED <<stack, settings, rules>>

\* Faulty: the stack is searched for the name in the include line.
IsOpen_ByName(name) == \E i \in 1 .. Len(stack) : stack[i].file = name

IsOpen(name) == \E i \in 1 .. Len(stack) : stack[i].file = Target(name)

-----------------------------------------------------------------------------
\* load_builder: the file named on the command line.
LoadRoot ==
    /\ status = "loading" /\ sources = <<>>
    /\ record_loaded_source_path(Root)
    /\ stack' = <<Frame(Root)>>
    /\ UNCHANGED <<texts, settings, rules, status>>

\* One line of parse_config_text.
ParseLine ==
    /\ status = "loading" /\ stack # <<>> /\ Top.todo = <<>>
    /\ Top.line <= Len(Lines(Top.file))
    /\ LET line == Lines(Top.file)[Top.line]
           next == [Top EXCEPT !.line = @ + 1]
       IN  \/ /\ line.kind = "rule" /\ RuleAccepts(line)
              /\ SetTop(next)
              /\ rules' = Append(rules, [name |-> line.name, admits |-> parse_rule(line)])
              /\ UNCHANGED <<settings, status>>
           \/ line.kind = "rule" /\ ~RuleAccepts(line) /\ Fail("bad rule")
           \/ /\ line.kind = "set" /\ Accepts(line.key, line.val)
              /\ SetTop(next) /\ settings' = [settings EXCEPT ![line.key] = {line.val}]
              /\ UNCHANGED <<rules, status>>
           \/ line.kind = "set" /\ ~Accepts(line.key, line.val) /\ Fail("bad setting")
           \/ /\ line.kind = "include" /\ expand_include_pattern(line.pattern) # <<>>
              /\ SetTop([next EXCEPT !.todo = expand_include_pattern(line.pattern)])
              /\ UNCHANGED <<settings, rules, status>>
           \/ /\ line.kind = "include" /\ expand_include_pattern(line.pattern) = <<>>
              /\ Fail("matched no files")
    /\ UNCHANGED <<texts, sources>>

\* parse_config_file and parse_resolved_config_file for the next included name.
IncludeFile ==
    /\ status = "loading" /\ stack # <<>> /\ Top.todo # <<>>
    /\ LET name == Head(Top.todo) IN
       \/ name \notin Names /\ Fail("missing") /\ UNCHANGED sources
       \/ /\ name \in Names /\ IsOpen(name)
          /\ Fail("cycle") /\ record_loaded_source_path(Target(name))
       \/ /\ name \in Names /\ ~IsOpen(name)
          /\ record_loaded_source_path(Target(name))
          /\ stack' = Append([stack EXCEPT ![Len(stack)].todo = Tail(@)], Frame(Target(name)))
          /\ UNCHANGED <<settings, rules, status>>
    /\ UNCHANGED texts

EndOfFile ==
    /\ status = "loading" /\ stack # <<>> /\ Top.todo = <<>>
    /\ Top.line > Len(Lines(Top.file))
    /\ stack' = Front(stack)
    /\ UNCHANGED <<texts, settings, rules, sources, status>>

Build ==
    /\ status = "loading" /\ stack = <<>> /\ sources # <<>>
    /\ status' = IF Buildable THEN "built" ELSE "inconsistent"
    /\ UNCHANGED <<texts, stack, settings, rules, sources>>

TakeEffect ==
    /\ status = "built"
    /\ status' = IF ValidStartup THEN "effective" ELSE "not allowed"
    /\ UNCHANGED <<texts, stack, settings, rules, sources>>

ConfigInit(t) ==
    /\ texts = t
    /\ stack = <<>> /\ settings = [k \in Keys |-> Unset] /\ rules = <<>> /\ sources = <<>>
    /\ status = "loading"

ConfigNext == LoadRoot \/ ParseLine \/ IncludeFile \/ EndOfFile \/ Build \/ TakeEffect

ConfigSpec(t) == ConfigInit(t) /\ [][ConfigNext]_configVars

-----------------------------------------------------------------------------
(* What a load should yield, said without the stack and the table.         *)

\* A pattern matches a text when its letters can be laid over it in order: a star
\* over any stretch, a question mark over one letter.
Matches(pattern, text) ==
    \E cut \in [0 .. Len(pattern) -> 0 .. Len(text)] :
       /\ cut[0] = 0 /\ cut[Len(pattern)] = Len(text)
       /\ \A i \in 1 .. Len(pattern) :
            IF pattern[i] = "*" THEN cut[i] >= cut[i - 1]
            ELSE cut[i] = cut[i - 1] + 1 /\ (pattern[i] = "?" \/ pattern[i] = text[cut[i]])

Included(pattern) ==
    IF string_has_wildcards(pattern) THEN SelectSeq(Listing, LAMBDA n : Matches(pattern, n))
    ELSE <<pattern>>

Files == {Target(n) : n \in Names}

Edge(f, g) == \E i \in DOMAIN texts[f] :
                 /\ texts[f][i].kind = "include"
                 /\ \E n \in ToSet(Included(texts[f][i].pattern)) \cap Names : Target(n) = g

\* The files within d includes of f.
Within(f) ==
    LET R[d \in 0 .. Cardinality(Files)] ==
          IF d = 0 THEN {f} ELSE R[d - 1] \cup {g \in Files : \E h \in R[d - 1] : Edge(h, g)}
    IN  R[Cardinality(Files)]

Cyclic == \E f \in Within(Root) : \E g \in Files : Edge(f, g) /\ f \in Within(g)

\* The lines other than includes, in reading order, when includes nest no deeper
\* than there are files.
Flat ==
    LET F[d \in 0 .. Cardinality(Files)] ==
          [f \in Files |->
             IF d = 0 THEN <<>>
             ELSE LET Piece(l) ==
                        IF l.kind # "include" THEN <<l>>
                        ELSE FlattenSeq([i \in DOMAIN Included(l.pattern) |->
                                           F[d - 1][Target(Included(l.pattern)[i])]])
                  IN  FlattenSeq([i \in DOMAIN texts[f] |-> Piece(texts[f][i])])]
    IN  F[Cardinality(Files)][Root]

LastValue(key, lines) ==
    LET at == {i \in DOMAIN lines : lines[i].kind = "set" /\ lines[i].key = key}
    IN  {lines[i].val : i \in {i \in at : \A j \in at : j <= i}}

\* No more than the text: the last directive of a key and every token of it restricts.
NoBroader(rule, text) ==
    \A i \in DOMAIN text.body :
       LET d == text.body[i] IN
       (\A j \in i + 1 .. Len(text.body) : text.body[j].key # d.key) =>
       /\ d.key \in {"from", "to"} =>
            rule.admits[d.key] # Everything
            /\ (Len(d.vals) > 1 => \A s \in rule.admits[d.key] : s[2] # "any")
       /\ d.key \in DOMAIN ListWords => rule.admits[d.key] \notin {Everything, {}}

Loaded == status \in {"built", "effective", "not allowed"}

(***************************************************************************)
(* A load ends, however files include one another and whatever they are    *)
(* called: no file is open twice.  It reports a cycle only where there is  *)
(* one, and where it succeeds there is none, every file reached is listed  *)
(* as a source, the rules stand in reading order (the order they are       *)
(* matched in), none of them admits more than its text says for a typo or  *)
(* an empty list, and of each setting the last one read holds.             *)
(***************************************************************************)
LoadRight ==
    /\ Len(stack) <= Cardinality(Files)
    /\ status = "cycle" => Cyclic
    /\ Loaded =>
         /\ ~Cyclic
         /\ ToSet(sources) = Within(Root)
         /\ LET written == SelectSeq(Flat, LAMBDA l : l.kind = "rule") IN
            /\ Len(rules) = Len(written)
            /\ \A i \in DOMAIN rules : /\ rules[i].name = written[i].name
                                       /\ NoBroader(rules[i], written[i])
         /\ \A k \in Keys : settings[k] = LastValue(k, Flat)

(***************************************************************************)
(* What takes effect is what the rest of the server takes for granted: no  *)
(* rate, timeout or limit is zero where zero would divide by nothing or    *)
(* refuse everyone, none exceeds what its semaphore or timer bears, a      *)
(* password is checked against something, a file output has a file, TLS    *)
(* has one whole source of its certificate, and the metrics are public     *)
(* only when asked to be.                                                  *)
(***************************************************************************)
ConfigUsable ==
    status = "effective" =>
      /\ \A k \in Rates \cup {"maxconnections", "concurrentconnections", "udpportrange"} :
           settings[k] \subseteq 1 .. Cap
      /\ settings["dnstimeout"] \subseteq 1 .. Cap
      /\ settings["shutdowndraintimeout"] \subseteq 0 .. Cap
      /\ settings["connecttimeout"] # {0} /\ settings["handshaketimeout"] # {0}
      /\ settings["socksmethod"] \in {{"username"}, {"both"}} =>
           {settings["userlist"], settings["authcommand"]} # {Unset}
      /\ LogsToFile => settings["logfile"] # Unset
      /\ <<HasFiles, HasAcme>> # <<TRUE, TRUE>>
      /\ (settings["certfile"] = Unset) = (settings["keyfile"] = Unset)
      /\ (settings["acmedomains"] = Unset) = (settings["acmecache"] = Unset)
      /\ settings["acmedomains"] = Unset => settings["acmeemail"] = Unset
      /\ settings["metricslisten"] = {"public"} => settings["allowpublic"] = {"true"}
=============================================================================
