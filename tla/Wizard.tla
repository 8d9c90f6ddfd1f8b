------------------------------- MODULE Wizard -------------------------------
(***************************************************************************)
(* The configuration wizard (wizard.rs): a loopback HTTP server that       *)
(* offers a form, perhaps filled in from an existing configuration, and    *)
(* exits once it has saved one configuration.  Importing is where it can   *)
(* do harm: the form has three templates and a handful of fields, an       *)
(* existing configuration may say anything, and saving replaces the file.  *)
(* The module has the import with its warnings, the requests, the checks   *)
(* on a submitted form, and what is rendered; how the file is replaced is  *)
(* in UserFile.  The platform is Linux.                                    *)
(*                                                                         *)
(* A path is a sequence of components, absolute when it begins with        *)
(* "root"; a component is a sequence of name parts, so that users,         *)
(* users.bak and .users.lock are <<"users">>, <<"users", "bak">> and       *)
(* <<".", "users", "lock">>.  Options are sets of at most one element.     *)
(* The component <<"odd">> holds a line break and <<"#">> begins a         *)
(* comment; any other text that its parser refuses is "odd".               *)
(***************************************************************************)
EXTENDS Naturals, Sequences, SequencesExt, FiniteSets

CONSTANTS
    None,           \* model value: no port range, no host name
    Alias,          \* links: from a path to the path of the file it names
    Inodes,         \* sets of names of one existing file
    MaxAsks         \* bound: requests answered

FilePath == Seq(Seq(STRING))
ASSUME WizardAssumption ==
    /\ DOMAIN Alias \subseteq FilePath /\ Alias \in [DOMAIN Alias -> FilePath]
    /\ Inodes \subseteq SUBSET FilePath

VARIABLES
    wizard,     \* "start", "serving", "done" or "failed"
    original,   \* {} or the imported configuration
    form,       \* the form the wizard offers
    warnings,   \* areas it said that saving does not preserve
    saved,      \* configurations written, with the fields and the form they came from
    answer,     \* status of the last response, 0 before the first
    asks

wizardVars == <<wizard, original, form, warnings, saved, answer, asks>>

Only(option) == CHOOSE x \in option : TRUE

-----------------------------------------------------------------------------
(* Rules and paths that the wizard writes.  Addresses have one bit: 0 is   *)
(* an ordinary IPv4 address and 1 stands for loopback.                     *)

Acl == INSTANCE Acl WITH Width <- 1

AnyV4 == [v6 |-> FALSE, prefix |-> 0, bits |-> 0]
Loopback == [v6 |-> FALSE, prefix |-> 1, bits |-> 1]
Lan == [v6 |-> FALSE, prefix |-> 1, bits |-> 0]
NoRange == [v6 |-> FALSE, prefix |-> 2, bits |-> 0]
AnyPort == [min |-> 0, max |-> 65535]
Cidrs == [v6 : BOOLEAN, prefix : 0 .. 1, bits : 0 .. 1] \cup {NoRange}
AddrSpec(cidr, ports) == [cidrs |-> {cidr}, hosts |-> {}, ports |-> ports]

Rule(name, scope, pass, from, to) ==
    [name |-> name, scope |-> scope, pass |-> pass, from |-> from, to |-> to,
     commands |-> {}, protocols |-> {}, methods |-> {}, bandwidth |-> FALSE]

Blank == <<>>
Absolute(p) == p[1] = <<"root">>
Beside(p, name) == Append(Front(p), name)
BackupOf(p) == Beside(p, Append(Last(p), "bak"))
Lock(p) == Beside(p, <<".">> \o Append(Last(p), "lock"))
RotatedLog(p) == Beside(p, Append(Last(p), "1"))

Etc == <<<<"root">>, <<"etc">>>>
Output == <<<<"root">>, <<"home">>, <<"conf">>>>
ServiceConfig == Append(Etc, <<"conf">>)
DefaultUserlist == Beside(Output, <<"users">>)
PublicUserlist == Append(Etc, <<"users">>)
PublicCache == <<<<"root">>, <<"var">>, <<"acme">>>>
Directories == {<<<<"root">>>>, Etc, Front(Output), PublicCache}

\* normalized_path_for_comparison.
ResolvedPath(p) == IF p \in DOMAIN Alias THEN Alias[p] ELSE p
SameOrBelow(p, q) == IsPrefix(ResolvedPath(q), ResolvedPath(p))
\* existing_paths_refer_to_same_file: one device and inode.
ExistingSame(p, q) == \E n \in Inodes : ResolvedPath(p) \in n /\ ResolvedPath(q) \in n
\* paths_refer_to_same_file.
OneFile(p, q) == ExistingSame(p, q) \/ ResolvedPath(p) = ResolvedPath(q)
\* file_paths_conflict.
Conflict(p, q) == OneFile(p, q) \/ SameOrBelow(p, q) \/ SameOrBelow(q, p)

-----------------------------------------------------------------------------
(* Rendering a form: the configuration that the written text parses to.    *)

Areas == {"metrics", "proxy protocol", "rate limits", "auth cache", "dns", "egress",
          "external", "timeouts", "max connections", "drain", "log format"}

\* What each area has in a rendered configuration.
RenderedArea(template) ==
    [a \in Areas |-> IF template = "public" /\ a \in {"rate limits", "auth cache"}
                     THEN "public" ELSE "plain"]

RenderedRules(f) ==
    LET any == AddrSpec(AnyV4, None)
        pass(name, to, commands, protocols, methods) ==
            [Rule(name, "socks", TRUE, any, to) EXCEPT
                !.commands = commands, !.protocols = protocols, !.methods = methods]
    IN  << Rule(IF f.template = "public" THEN "public-authenticated-clients" ELSE "trusted-clients",
                "client", TRUE, AddrSpec(f.client, None), any),
           Rule("deny-loopback", "socks", FALSE, any, AddrSpec(Loopback, None)),
           CASE f.template = "local" ->
                  pass("allow-default", any, {"connect", "udp"}, {"tcp", "udp"}, {})
             [] f.template = "lan" ->
                  pass("allow-web", AddrSpec(AnyV4, [min |-> 80, max |-> 443]), {"connect"}, {"tcp"}, {})
             [] f.template = "public" ->
                  pass("public-internet", any,
                       IF f.udp THEN {"connect", "udp"} ELSE {"connect"},
                       IF f.udp THEN {"tcp", "udp"} ELSE {"tcp"}, {"username"}) >>

Plain == [kind |-> "none", domains |-> <<>>, cache |-> {}, staging |-> FALSE]

render_config(f) ==
    [listen |-> f.listen,
     methods |-> IF f.template = "local" THEN <<"none">> ELSE <<"username">>,
     userlist |-> IF f.template = "local" THEN {} ELSE f.userlist,
     command |-> FALSE,
     tls |-> IF f.template = "public"
             THEN [kind |-> "acme", domains |-> SetToSeq(f.domain), cache |-> f.cache,
                   staging |-> f.staging]
             ELSE Plain,
     range |-> IF f.template = "public" /\ f.udp THEN f.range ELSE {},
     advertise |-> IF f.template = "public" /\ f.udp THEN f.advertise ELSE {},
     strict |-> TRUE,
     log |-> f.log,
     areas |-> RenderedArea(f.template),
     include |-> FALSE,
     rules |-> RenderedRules(f)]

\* Config::parse on the rendered text: offering username needs a userlist or a command.
Parses(c) == "username" \in Range(c.methods) => c.userlist # {} \/ c.command

-----------------------------------------------------------------------------
(* Importing.                                                              *)

\* addr_is_exact_cidr.
ExactCidr(spec, cidr) ==
    spec.cidrs = {cidr} /\ spec.hosts = {} /\ spec.ports \in {None, AnyPort}

NoSelectors(rule) ==
    rule.commands = {} /\ rule.protocols = {} /\ rule.methods = {} /\ ~rule.bandwidth

InScope(rules, scope) == SelectSeq(rules, LAMBDA r : r.scope = scope)

\* The parts of public_acl_mode: what the client rule, the block and the pass must be.
PassesAnyClient(rule) ==
    rule.pass /\ ExactCidr(rule.from, AnyV4) /\ ExactCidr(rule.to, AnyV4) /\ NoSelectors(rule)

\* Faulty: the rule that comes first only has to block something.
BlocksLoopback_Anything(rule) == ~rule.pass

BlocksLoopback(rule) ==
    ~rule.pass /\ ExactCidr(rule.from, AnyV4) /\ ExactCidr(rule.to, Loopback) /\ NoSelectors(rule)

PassesPublic(rule) ==
    /\ rule.pass /\ ExactCidr(rule.from, AnyV4) /\ ExactCidr(rule.to, AnyV4) /\ ~rule.bandwidth
    /\ rule.methods = {} \/ "username" \in rule.methods

public_acl_mode(rules) ==
    LET client == InScope(rules, "client")
        socks == InScope(rules, "socks")
        exactly(commands, protocols) == socks[2].commands = commands /\ socks[2].protocols = protocols
    IN  IF /\ Len(client) = 1 /\ Len(socks) = 2
           /\ PassesAnyClient(client[1]) /\ BlocksLoopback(socks[1]) /\ PassesPublic(socks[2])
        THEN CASE exactly({"connect"}, {"tcp"}) -> {"tcp"}
               [] exactly({"connect", "udp"}, {"tcp", "udp"}) -> {"udp"}
               [] OTHER -> {}
        ELSE {}

\* public_userlist_path_supported_by_deployment: a direct file of /etc/alighieri.
Deployable(p) == Front(p) = Etc

\* public_acme_profile.
PublicProfile(c) ==
    IF \/ c.listen # [ip |-> "any", port |-> 443] \/ c.methods # <<"username">>
       \/ ~\E p \in c.userlist : Deployable(p)
       \/ c.command \/ c.tls.kind # "acme" \/ Len(c.tls.domains) # 1
       \/ ~\E p \in c.tls.cache : Absolute(p)
    THEN {} ELSE public_acl_mode(c.rules)

default_listen_host(template) == IF template = "local" THEN "loopback" ELSE "any"
default_listen_port(template) == IF template = "public" THEN 443 ELSE 1080
default_trusted_client(template) ==
    CASE template = "local" -> Loopback [] template = "lan" -> Lan [] OTHER -> AnyV4

\* extract_trusted_client: of the first client rule shaped like the wizard's own.
TrustedClient(c, template) ==
    LET shaped == SelectSeq(c.rules, LAMBDA r :
                    /\ r.scope = "client" /\ r.pass /\ r.from.ports = None
                    /\ r.to.ports = None /\ r.to.cidrs = {AnyV4}
                    /\ r.commands = {} /\ r.protocols = {} /\ r.methods = {}
                    /\ Cardinality(r.from.cidrs) = 1)
    IN  IF shaped = <<>> THEN default_trusted_client(template)
        ELSE Only(shaped[1].from.cidrs)

wizard_form_from_config(c) ==
    LET profile == PublicProfile(c)
        template == IF profile # {} THEN "public"
                    ELSE IF "username" \in Range(c.methods) THEN "lan" ELSE "local"
        udp == profile = {"udp"}
        public == template = "public"
    IN  [template |-> template, output |-> Output, listen |-> c.listen,
         client |-> TrustedClient(c, template),
         userlist |-> CASE template = "local" -> {}
                        [] template = "lan" ->
                             IF c.userlist # {} THEN c.userlist ELSE {DefaultUserlist}
                        [] template = "public" -> c.userlist,
         log |-> c.log,
         domain |-> IF public THEN {c.tls.domains[1]} ELSE {},
         cache |-> IF public THEN c.tls.cache ELSE {},
         staging |-> public /\ c.tls.staging,
         udp |-> udp,
         range |-> IF ~udp THEN {} ELSE IF c.range # {} THEN c.range ELSE {"default"},
         advertise |-> IF ~udp THEN {} ELSE IF c.advertise # {} THEN c.advertise
                       ELSE {c.tls.domains[1]}]

\* What saving the form does not preserve; rule sets are compared without source lines.
config_loss_warnings(c, regenerated) ==
    {a \in Areas : c.areas[a] # regenerated.areas[a]}
    \cup (IF c.listen # regenerated.listen THEN {"listen"} ELSE {})
    \cup (IF c.tls # regenerated.tls THEN {"tls"} ELSE {})
    \cup (IF c.methods # regenerated.methods THEN {"methods"} ELSE {})
    \cup (IF c.userlist # regenerated.userlist THEN {"userlist"} ELSE {})
    \cup (IF c.command # regenerated.command THEN {"command"} ELSE {})
    \cup (IF c.range # regenerated.range \/ c.strict # regenerated.strict
             \/ c.advertise # regenerated.advertise THEN {"udp"} ELSE {})
    \cup (IF c.log # regenerated.log THEN {"log"} ELSE {})
    \cup (IF c.rules # regenerated.rules THEN {"rules"} ELSE {})

-----------------------------------------------------------------------------
(* A submitted form.                                                       *)

\* validate_public_service_path_roles: the files of the deployment, by role.
Roles(f) ==
    LET fixed == << f.output, BackupOf(f.output) >>
        unless(p, q) == IF OneFile(p, q) THEN <<>> ELSE << q >>
        service == unless(f.output, ServiceConfig)
                   \o unless(BackupOf(f.output), BackupOf(ServiceConfig))
        users == LET u == Only(f.userlist) IN << u, BackupOf(u), Lock(u) >>
        log == IF f.log = {} THEN <<>> ELSE << Only(f.log), RotatedLog(Only(f.log)) >>
    IN  fixed \o service \o users \o log

RolesApart(f) ==
    LET roles == Roles(f)
        cache == Only(f.cache)
    IN  /\ \A i, j \in DOMAIN roles : i < j => ~Conflict(roles[i], roles[j])
        /\ \A i \in DOMAIN roles : ~SameOrBelow(roles[i], cache) /\ ~SameOrBelow(cache, roles[i])

\* A cache may be missing or a directory, but not a link or a file.
validate_public_acme_cache_path(p) == p \notin DOMAIN Alias \cup UNION Inodes

\* validate_public_regular_file_or_missing.
RegularOrMissing(p) == p \notin DOMAIN Alias \cup Directories

validate_single_line(p) == <<"odd">> \notin Range(p)
validate_config_value(p) == validate_single_line(p) /\ <<"#">> \notin Range(p)

\* required_text_field and what the text is then parsed by.
Given(field) == field # {} /\ "odd" \notin field

\* parse_udp_port_range and validate_udp_advertise, when UDP is enabled.
UdpFieldsValid(f) == f.udp => Given(f.range) /\ Given(f.advertise)

\* validate_output_path: with a file name, and not a directory.
OutputValid(p) == validate_single_line(p) /\ p \notin Directories

PublicFormValid(f) ==
    /\ f.listen = [ip |-> "any", port |-> 443]
    /\ f.userlist # {} /\ \A p \in f.userlist : Absolute(p) /\ Deployable(p) /\ RegularOrMissing(p)
    /\ \A p \in f.log : Absolute(p) /\ RegularOrMissing(p) /\ RegularOrMissing(RotatedLog(p))
    /\ f.client = AnyV4
    /\ Given(f.domain)
    /\ f.cache # {}
    /\ \A p \in f.cache :
          validate_config_value(p) /\ Absolute(p) /\ validate_public_acme_cache_path(p)
    /\ RolesApart(f)
    /\ UdpFieldsValid(f)

\* The conditions of wizard_form_from_fields, on what the fields were filled up to.
FormValid(f) ==
    /\ f.template \in {"local", "lan", "public"}
    /\ OutputValid(f.output) /\ \A p \in f.userlist \cup f.log : validate_config_value(p)
    /\ f.listen.port # 0 /\ f.listen.ip # "odd" /\ f.client # NoRange
    /\ f.template = "local" => f.listen.ip = "loopback"
    /\ f.template = "lan" => f.userlist # {}
    /\ f.template = "public" => PublicFormValid(f)

Option(S) == {{}} \cup {{x} : x \in S}

\* What a request may submit: any of the fields, each with any text.  A port that is not a
\* number is 0 here, a client that is not a range of addresses NoRange.
Fields ==
    [template : Option(STRING), output : Option(FilePath), host : Option(STRING),
     port : Option(0 .. 65535), client : Option(Cidrs), userlist : Option(FilePath),
     log : Option(FilePath), domain : Option(STRING), cache : Option(FilePath),
     staging : Option(STRING), udp : Option(STRING), range : Option(STRING),
     advertise : Option(STRING)]

\* fields.get: the text that was submitted, or the default.
Field(option, default) == IF option = {} THEN default ELSE Only(option)

\* required_path_field: a blank path is none.
Required(option, default) == {Field(option, default)} \ {Blank}

\* path_field_with_changed_output: a path left at the default of the first output path
\* follows the output path.
FollowsOutput(option, output, name) ==
    IF option \in {{}, {Beside(Output, name)}} THEN {Beside(output, name)} ELSE option \ {Blank}

\* log_field_with_changed_output: without a field there is no log.
LogFollowsOutput(option, output) ==
    IF option = {} THEN {} ELSE FollowsOutput(option, output, <<"logs">>)

\* parse_checkbox, of an option that CheckboxValid admits.
CheckboxValid(option) == option \subseteq {"on", "off"}
Checked(option, default) == IF option = {} THEN default ELSE option = {"on"}

\* The form that wizard_form_from_fields reads, with the defaults of its template; field and
\* field_path take a blank text for an absent one.
Filled(s) ==
    LET template == Field(s.template \ {""}, "local")
        output == Field(s.output \ {Blank}, Output)
    IN  [template |-> template, output |-> output,
         listen |-> [ip |-> Field(s.host \ {""}, default_listen_host(template)),
                     port |-> Field(s.port, default_listen_port(template))],
         client |-> Field(s.client, default_trusted_client(template)),
         userlist |-> IF template = "public" THEN Required(s.userlist, PublicUserlist)
                      ELSE FollowsOutput(s.userlist, output, <<"users">>),
         log |-> LogFollowsOutput(s.log, output),
         domain |-> s.domain \ {""},
         cache |-> Required(s.cache, PublicCache),
         staging |-> Checked(s.staging, FALSE), udp |-> Checked(s.udp, TRUE),
         range |-> IF s.range = {} THEN {"default"} ELSE s.range \ {""},
         advertise |-> IF s.advertise = {} THEN s.domain ELSE s.advertise \ {""}]

\* Faulty: the log is checked where it was submitted, and follows the output afterwards.
Acceptable_AsSubmitted(s) == FormValid([Filled(s) EXCEPT !.log = s.log \ {Blank}])

\* wizard_form_from_fields returns a form.
Acceptable(s) ==
    /\ FormValid(Filled(s))
    /\ Filled(s).template = "public" => CheckboxValid(s.staging) /\ CheckboxValid(s.udp)

\* The form it returns: a local one has no userlist, only a public one the rest.
FormKept(s) ==
    LET f == Filled(s)
        public == f.template = "public"
    IN  [f EXCEPT !.userlist = IF f.template = "local" THEN {} ELSE @,
                  !.domain = IF public THEN @ ELSE {}, !.cache = IF public THEN @ ELSE {},
                  !.staging = public /\ @, !.udp = public /\ @,
                  !.range = IF public /\ f.udp THEN @ ELSE {},
                  !.advertise = IF public /\ f.udp THEN @ ELSE {}]

\* The fields of a form sent back as it is, those of validate_imported_form_submission.
Resubmitted(f) ==
    LET onOff(b) == {IF b THEN "on" ELSE "off"}
    IN  [template |-> {f.template}, output |-> {f.output}, host |-> {f.listen.ip},
         port |-> {f.listen.port}, client |-> {f.client}, userlist |-> f.userlist,
         log |-> IF f.log = {} THEN {Blank} ELSE f.log, domain |-> f.domain, cache |-> f.cache,
         staging |-> onOff(f.staging), udp |-> onOff(f.udp), range |-> f.range,
         advertise |-> f.advertise]

\* The warnings of load_import_prefill.
ImportWarnings(c, f) ==
    config_loss_warnings(c, render_config(f))
    \cup (IF c.include THEN {"include"} ELSE {})
    \cup (IF f.template = "public" /\ ~Acceptable(Resubmitted(f)) THEN {"deployment"} ELSE {})

-----------------------------------------------------------------------------
(* The server.                                                             *)

DefaultForm ==
    [template |-> "local", output |-> Output, listen |-> [ip |-> "loopback", port |-> 1080],
     client |-> Loopback, userlist |-> {}, log |-> {}, domain |-> {}, cache |-> {},
     staging |-> FALSE, udp |-> FALSE, range |-> {}, advertise |-> {}]

\* run_config_wizard up to its loop.  A file that cannot be read or is not valid ends it.
Start ==
    /\ wizard = "start"
    /\ \/ /\ original = {}
          /\ wizard' = "serving" /\ UNCHANGED <<form, warnings>>
       \/ /\ original # {}
          /\ LET c == Only(original)
                 f == wizard_form_from_config(c)
             IN  /\ Parses(render_config(f))
                 /\ form' = f /\ warnings' = ImportWarnings(c, f)
          /\ wizard' = "serving"
       \/ wizard' = "failed" /\ UNCHANGED <<form, warnings>>
    /\ UNCHANGED <<original, saved, answer, asks>>

Asked == wizard = "serving" /\ asks < MaxAsks /\ asks' = asks + 1

\* read_http_request: nothing came, or what came is too large, cut off or too slow.
BadRequest ==
    /\ Asked /\ answer' \in {answer, 400}
    /\ UNCHANGED <<wizard, original, form, warnings, saved>>

Requests == [method : {"GET", "POST"}, path : {"/favicon.ico", "/", "/generate", "/other"},
             token : BOOLEAN, urlencoded : BOOLEAN]

\* The status of the response, 0 for a submission to look at.
route_request(r) ==
    CASE r.path = "/favicon.ico" -> 404
      [] r.path # "/favicon.ico" /\ ~r.token -> 403
      [] r.method = "GET" /\ r.path = "/" /\ r.token -> 200
      [] r.method = "POST" /\ r.path = "/generate" /\ r.token -> IF r.urlencoded THEN 0 ELSE 415
      [] OTHER -> 404

OtherRequest ==
    /\ Asked /\ \E r \in Requests : answer' = route_request(r) /\ answer' # 0
    /\ UNCHANGED <<wizard, original, form, warnings, saved>>

\* A submission of the fields s.  Saving ends the wizard; anything else leaves it serving.
Generate(r, s) ==
    /\ Asked /\ route_request(r) = 0
    /\ LET kept == FormKept(s)
           config == render_config(kept)
       IN  \/ /\ ~(Acceptable(s) /\ Parses(config))
              /\ answer' = 400 /\ UNCHANGED <<wizard, saved>>
           \/ /\ Acceptable(s) /\ Parses(config)
              /\ \/ answer' = 500 /\ UNCHANGED <<wizard, saved>>
                 \/ /\ saved' = saved \cup {[fields |-> s, form |-> kept, config |-> config, by |-> r]}
                    /\ answer' = 200 /\ wizard' = "done"
    /\ UNCHANGED <<original, form, warnings>>

\* The wizard is started to import o, {} for nothing.
WizardInit(o) ==
    /\ original = o
    /\ wizard = "start" /\ form = DefaultForm /\ warnings = {}
    /\ saved = {} /\ answer = 0 /\ asks = 0

WizardNext(submitted) ==
    \/ Start \/ BadRequest \/ OtherRequest
    \/ \E r \in Requests, s \in submitted : Generate(r, s)

WizardSpec(o) == WizardInit(o) /\ [][WizardNext(Fields)]_wizardVars

-----------------------------------------------------------------------------
(* What a configuration lets through.                                      *)

Addresses == [v6 : BOOLEAN, value : 0 .. 1]
Flows == [client : Addresses, dest : Addresses, port : {22, 80, 8080},
          via : {<<"connect", "tcp">>, <<"udp", "udp">>}, method : {"none", "username"}]

Allowed(c) ==
    {w \in Flows :
        /\ w.method \in Range(c.methods)
        /\ Acl!evaluate_client(c.rules, [addr |-> w.client, port |-> 1],
                               [addr |-> [v6 |-> FALSE, value |-> 0], port |-> c.listen.port])
        /\ Acl!evaluate_socks(c.rules, [addr |-> w.client, port |-> 1],
                              [addr |-> w.dest, port |-> w.port, host |-> None],
                              w.via[1], w.via[2], w.method)}

(***************************************************************************)
(* Saving what was imported, unchanged, lets nothing through that the      *)
(* imported configuration refused unless the wizard had said that rules or *)
(* methods are not preserved, and under the public template not even then: *)
(* the template is offered only for policies it reproduces.  Nor does it   *)
(* change how users are verified, where the proxy listens or what it       *)
(* advertises without saying so, and an imported public form that is       *)
(* refused had been announced as one that cannot be saved.                 *)
(***************************************************************************)
ImportSafe ==
    original # {} =>
      LET c == Only(original)
      IN  /\ \A s \in saved : s.fields = Resubmitted(form) =>
               /\ Allowed(s.config) \subseteq Allowed(c) \/ warnings \cap {"rules", "methods"} # {}
               /\ form.template = "public" => Allowed(s.config) \subseteq Allowed(c)
               /\ s.config.command # c.command => "command" \in warnings
               /\ s.config.listen # c.listen => "listen" \in warnings
               /\ <<s.config.range, s.config.advertise>> # <<c.range, c.advertise>> =>
                     "udp" \in warnings
          /\ wizard = "serving" /\ form.template = "public" /\ ~Acceptable(Resubmitted(form)) =>
               "deployment" \in warnings

(***************************************************************************)
(* Whatever fields are submitted, however often, on the defaults of        *)
(* whichever template: the wizard saves once, for a request that has its   *)
(* token.  What it saves does not serve clients off loopback without       *)
(* asking them who they are, has a userlist when it asks, and in the       *)
(* public profile always asks and has a log that is not, under any name,   *)
(* the configuration, the userlist or its lock, nor in or above one.       *)
(***************************************************************************)
SavedGuarded ==
    /\ Cardinality(saved) <= 1
    /\ \A s \in saved :
         /\ s.by.token
         /\ "none" \in Range(s.config.methods) => s.config.listen.ip = "loopback"
         /\ "username" \in Range(s.config.methods) => s.config.userlist # {}
         /\ s.config.listen.port = 443 /\ s.config.tls.kind = "acme" =>
              /\ s.config.methods = <<"username">>
              /\ \A p \in s.config.log, u \in s.config.userlist :
                   \A q \in {s.form.output, u, Lock(u)} : ~Conflict(q, p)
=============================================================================
