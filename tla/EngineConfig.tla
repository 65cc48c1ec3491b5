----------------------------- MODULE EngineConfig -----------------------------
(***************************************************************************)
(* From what a list of servers says to what the engine is told: the texts of   *)
(* the sources are read, pasted servers having been stored as profiles and     *)
(* written out again; with All they are merged into one pool; and the pool,    *)
(* with the routing the user asked for, becomes the engine's document          *)
(* (internal/mihomoconf, PrepareConfig of internal/session, and               *)
(* everySubscriptionBody of whitedns_vpn.go).                                 *)
(***************************************************************************)
EXTENDS ShareLinks, SequencesExt

CONSTANTS
    Texts,    \* what names, addresses and secrets are: strings
    Worlds    \* kinds of worlds, each a set of them: what the providers wrote and the user chose

VARIABLES
    world,    \* one of them; it does not change
    stage,    \* how far its configuration is
    lists,    \* the servers read of each source, in order; <<>> when it is unreadable
    nodes,    \* the servers the configuration is made of
    engine    \* what the engine is given

vars == <<world, stage, lists, nodes, engine>>

(* A world is                                                               *)
(*   sources   a sequence of [name, form, servers]; form is "links", "pasted",  *)
(*             "document" (a mihomo configuration), "providers" (one whose      *)
(*             servers the engine fetches itself), "singbox", "xray" or "warp"  *)
(*             (an Xray configuration of WireGuard outbounds), and a server is   *)
(*             [label, host, key, via,                                         *)
(*             link]: its name, a sequence of its parts; its address; its       *)
(*             secret; the label of the server it dials through, <<>> for none;  *)
(*             and the rest of what its description carries (ShareLinks)       *)
(*   all       the source chosen is All                                       *)
(*   hidden    the names the user has hidden                                  *)
(*   prefer    the names the connection may use, in order; <<>> for any         *)
(*   chain     the name of the second hop, <<>> for none                        *)
(*   front     the address all are to be reached at: "none", "v4" or "v6"        *)
(*   noise, fragments   BOOLEAN                                               *)
(*   direct    the destinations that stay out of the tunnel, as entered         *)
(*   split     [mode, programs], the programs as entered                       *)
(*   lines     the lines of a configuration with providers, each by its kind:    *)
(*             "owned", "kept" and "groups" are keys of the top level (one the   *)
(*             runtime owns, another, and proxy-groups), "nested", "named" and   *)
(*             "ours" are indented (the last two name a group, another's and     *)
(*             SelectGroup), "item" starts with a dash at the margin, and        *)
(*             "comment" and "blank" are what they say                           *)

Names == Seq(Texts)

\* The words that the program puts into names and addresses.
ASSUME TextsAssumption ==
    {"-", "1", "dot", "Connection", "WhiteDNS Proxy", "WhiteVPN Exit", "front"} \subseteq Texts

\* What the descriptions of a scheme say.  kcp stands for the transports over datagrams.
CredsOf(scheme) ==
    CASE scheme \in {"vless", "vmess", "vmess-aead"} -> {"none", "plain"}
      [] scheme \in {"trojan", "anytls", "hysteria2"} -> {"none", "plain", "pair", "plus", "escaped"}
      [] scheme \in {"socks", "http-proxy"} -> {"none", "plain", "pair", "secret", "plus", "wrapped"}
      [] scheme = "ss" -> {"none", "plain", "plus", "escaped", "wrapped"}
      [] OTHER -> {"none", "plain", "plus", "escaped"}
SecuritiesOf(scheme) ==
    CASE scheme \in {"vless", "vmess", "vmess-aead"} -> {"none", "tls", "xtls", "reality"}
      [] scheme = "trojan" -> {"unsaid", "none", "tls", "xtls", "reality"}
      [] scheme = "http-proxy" -> {"none", "tls"} [] OTHER -> {"none"}
NetsOf(scheme) ==
    CASE scheme = "vless" -> {"tcp", "tcp-http", "ws", "grpc", "http", "h2", "httpupgrade", "xhttp", "kcp"}
      [] scheme = "vmess" -> {"tcp", "tcp-http", "ws", "grpc", "http", "h2", "httpupgrade", "kcp"}
      [] scheme \in {"vmess-aead", "trojan"} -> {"tcp", "ws", "grpc"} [] OTHER -> {"tcp"}
Transport == {"path", "host", "service", "extra", "early"}
\* A socks link or a document can say that a server carries no datagrams; others who
\* say it are not heard.
OptionsOf(scheme) == {"no-udp"} \cup
    CASE scheme = "vless" -> {"sni", "alpn", "utls", "insecure", "pin", "pbk", "ech", "flow", "encryption",
                              "packet", "bad-early"} \cup Transport
      [] scheme \in {"vmess", "vmess-aead"} -> {"sni", "alpn", "utls", "insecure", "packet"} \cup Transport
      [] scheme \in {"trojan", "anytls"} -> {"sni", "alpn", "utls", "insecure", "pin", "path", "host", "service"}
      [] scheme = "hysteria2" -> {"sni", "alpn", "insecure", "obfs", "ports", "pin"}
      [] scheme = "http-proxy" -> {"sni", "insecure", "headers"}
      [] scheme = "socks" -> {} [] scheme = "ss" -> {"uot", "plugin"} [] OTHER -> {"psk", "reserved"}
LinksOf(scheme) ==
    [scheme : {scheme}, cred : CredsOf(scheme), security : SecuritiesOf(scheme), net : NetsOf(scheme),
     has : SUBSET OptionsOf(scheme)]

\* In JSON a description says tls or reality, and not how a credential is escaped.
IsText(form) == form \in {"links", "pasted"}
IsSaid(link, form) ==
    /\ link \in LinksOf(link.scheme)
    /\ form = "warp" => link.scheme = "wireguard"
    /\ ~IsText(form) => /\ link.security # "xtls" /\ link.net # "tcp-http"
                        /\ link.cred \notin {"secret", "escaped", "wrapped"}

\* What only a document speaks of, as far as this program knows it.
DocumentOnly == {"hysteria", "hy2", "tuic", "juicity", "shadowquic", "openvpn"}
Schemes == Supported \cup {"wireguard-ini"} \cup DocumentOnly
Creds == {"none", "plain", "pair", "secret", "plus", "escaped", "wrapped"}
Nets == {"tcp", "tcp-http", "ws", "grpc", "http", "h2", "httpupgrade", "xhttp", "kcp"}
Options ==
    Transport \cup {"sni", "alpn", "utls", "insecure", "pin", "pbk", "ech", "flow", "encryption", "packet",
                   "bad-early", "obfs", "ports", "headers", "no-udp", "uot", "plugin", "psk", "reserved"}
LinkType ==
    [scheme : Schemes, cred : Creds, security : {"unsaid", "none", "tls", "xtls", "reality"}, net : Nets,
     has : SUBSET Options]
ServerType == [label : Names, host : Texts, key : Texts, via : Names, link : LinkType]
SourceType ==
    [name : Texts, servers : Seq(ServerType),
     form : {"links", "pasted", "document", "providers", "singbox", "xray", "warp"}]
LineType == {"owned", "kept", "groups", "nested", "named", "ours", "item", "comment", "blank"}
WorldType ==
    [sources : Seq(SourceType) \ {<<>>}, all : BOOLEAN, hidden : SUBSET Names, prefer : Seq(Names),
     chain : Names, front : {"none", "v4", "v6"}, noise : BOOLEAN, fragments : BOOLEAN,
     direct : Seq(Texts), split : [mode : {"off", "bypass", "only"}, programs : Seq(Texts)],
     lines : Seq(LineType)]

\* What is recognised as a configuration has a key of its own, and no mapping has one twice.
IsConfiguration(lines) ==
    /\ \E i \in DOMAIN lines : lines[i] \in {"kept", "groups"}
    /\ \A i, j \in DOMAIN lines : lines[i] = "groups" /\ lines[j] = "groups" => i = j

ASSUME WorldsAssumption ==
    \A kind \in Worlds : \A w \in kind :
        /\ w \in WorldType
        /\ \A i \in DOMAIN w.sources :
               LET source == w.sources[i] IN
               /\ source.form = "providers" => IsConfiguration(w.lines)
               /\ \A server \in ToSet(source.servers) : IsSaid(server.link, source.form)

\* What a list holds at some of its places, in its order.
At(list, places) ==
    LET kept[n \in 0..Len(list)] ==
            IF n = 0 THEN <<>>
            ELSE IF n \in places THEN Append(kept[n - 1], list[n]) ELSE kept[n - 1]
    IN  kept[Len(list)]

SelectGroup == "WhiteDNS Proxy"
AutoGroup == "WhiteDNS Auto"
ChainExitName == <<"WhiteVPN Exit">>
FrontAddress == "front"

\* Addresses that are numbers.
Literals == {"10.0.0.1", FrontAddress}

NoDocument ==
    [proxies |-> <<>>, group |-> <<>>, rules |-> <<>>, byProgram |-> FALSE, candidates |-> <<>>,
     dnsThrough |-> "nothing", lines |-> <<>>]

-----------------------------------------------------------------------------
(* Names.                                                                   *)

\* A number behind a name, written in ones.
Numbered(name, n) == name \o <<"-">> \o [k \in 1..n |-> "1"]

NoNames == [seen |-> <<>>, given |-> <<>>]

Taken(names, name) == name \in DOMAIN names.seen

\* A name is given as it is once, and numbered from then on.  What it becomes is
\* not noted as given.
Register(names, name) ==
    IF ~Taken(names, name)
    THEN [seen |-> [x \in DOMAIN names.seen \cup {name} |-> IF x = name THEN 0 ELSE names.seen[x]],
          given |-> Append(names.given, name)]
    ELSE LET next == names.seen[name] + 1
         IN  [seen |-> [names.seen EXCEPT ![name] = next],
              given |-> Append(names.given, Numbered(name, next))]

\* The names that a list of names becomes.
Registered(wanted) ==
    LET after[n \in 0..Len(wanted)] == IF n = 0 THEN NoNames ELSE Register(after[n - 1], wanted[n])
    IN  after[Len(wanted)].given

Renamed(list) ==
    LET names == Registered([i \in DOMAIN list |-> list[i].name])
    IN  [i \in DOMAIN list |-> [list[i] EXCEPT !.name = names[i]]]

-----------------------------------------------------------------------------
(* Reading a source.                                                         *)

NamedTransport == {"ws", "httpupgrade", "h2", "http", "xhttp"}

\* Does a transport that carries a name have a map of options?  All readers write one, and
\* a document has it when it says anything of it.
HasOptions(proxy, form) ==
    /\ proxy.net \in NamedTransport
    /\ form = "document" => proxy.has \cap {"path", "host", "early", "extra"} # {}

\* Is the host it says a header of the request?  For h2 in the older vmess link alone, and
\* never for xhttp.
HostIsHeader(server, proxy, form) ==
    /\ "host" \in proxy.has
    /\ \/ proxy.net \in {"ws", "http", "httpupgrade"}
       \/ proxy.net = "h2" /\ form = "links" /\ server.link.scheme = "vmess"

\* The udp key: what is read says it is on, and a document may not.
SaysUDP(proxy, form) ==
    "no-udp" \notin proxy.has /\ (form = "links" => proxy.type \notin {"http", "hysteria2"})

\* A server as it is kept from here on.  Links write no tls key for what is always
\* encrypted, and a REALITY server of JSON has its options without a key as well.
Node(server, name, proxy, form) ==
    [name |-> name, type |-> proxy.type, cred |-> proxy.cred, tls |-> proxy.tls,
     net |-> proxy.net, has |-> proxy.has, host |-> server.host, key |-> server.key,
     via |-> server.via,
     tlsKey |-> proxy.tls /\ ~(form = "links" /\ proxy.type \in {"trojan", "anytls", "hysteria2"}),
     reality |-> "pbk" \in proxy.has \/ (form # "links" /\ server.link.security = "reality"),
     options |-> HasOptions(proxy, form), header |-> HostIsHeader(server, proxy, form),
     udp |-> SaysUDP(proxy, form)]

\* socks and http links without a name take their address for one.
LinkName(server) ==
    IF server.label = <<>> /\ server.link.scheme \in {"socks", "http-proxy"}
    THEN <<server.host>> ELSE server.label

\* A line without a scheme is passed over, and so is one that cannot be read.
ReadLinks(servers) ==
    LET Readable(s) == ConvertLink(s.link) # NoProxy
        named == At(servers, {i \in DOMAIN servers : Readable(servers[i]) \/ FailsLate(servers[i].link)})
        all == Renamed([i \in DOMAIN named |->
                   Node(named[i], LinkName(named[i]), ConvertLink(named[i].link), "links")])
    IN  At(all, {i \in DOMAIN all : all[i].type # NoProxy.type})

\* An outbound without a tag is passed over.
ReadSingBox(servers) ==
    LET readable == At(servers, {i \in DOMAIN servers : /\ servers[i].label # <<>>
                                                        /\ SingBoxProxy(servers[i].link) # NoProxy})
    IN  Renamed([i \in DOMAIN readable |->
                    Node(readable[i], readable[i].label, SingBoxProxy(readable[i].link), "singbox")])

LabelOrAddress(server) == IF server.label = <<>> THEN <<server.host>> ELSE server.label

\* A list of configurations, one server in each.
ReadXray(servers) ==
    LET readable == At(servers, {i \in DOMAIN servers : XrayProxy(servers[i].link) # NoProxy})
    IN  Renamed([i \in DOMAIN readable |->
                    Node(readable[i], LabelOrAddress(readable[i]), XrayProxy(readable[i].link), "xray")])

\* One configuration of several hops, each named by its tag or its address.  Of hops that
\* share a tag the last is meant, and one whose dialer is not there is left out.
ReadWarp(servers) ==
    LET readable == At(servers, {i \in DOMAIN servers : XrayWireGuard(servers[i].link) # NoProxy})
        names == Registered([i \in DOMAIN readable |-> LabelOrAddress(readable[i])])
        NameOf(tag) == names[SelectLastInSeq(readable, LAMBDA server : server.label = tag)]
        Tags == {readable[i].label : i \in DOMAIN readable} \ {<<>>}
        named == [i \in DOMAIN readable |->
                     [Node(readable[i], names[i], XrayWireGuard(readable[i].link), "xray")
                         EXCEPT !.via = IF @ \in Tags THEN NameOf(@) ELSE @]]
    IN  At(named, {i \in DOMAIN readable : readable[i].via = <<>> \/ readable[i].via \in Tags})

TypeOf(scheme) ==
    CASE scheme = "vmess-aead" -> "vmess" [] scheme = "socks" -> "socks5"
      [] scheme = "http-proxy" -> "http" [] scheme = "wireguard-ini" -> "wireguard" [] OTHER -> scheme

\* A mihomo configuration is taken as it is, but for what lacks a name: its types are
\* checked against nothing.
ReadDocument(servers) ==
    LET usable == At(servers, {i \in DOMAIN servers : servers[i].label # <<>>})
        Proxy(s) == [type |-> TypeOf(s.link.scheme), cred |-> Verbatim(s.link.cred),
                     tls |-> s.link.security \in {"tls", "reality"}, net |-> s.link.net,
                     has |-> s.link.has]
    IN  Renamed([i \in DOMAIN usable |-> Node(usable[i], usable[i].label, Proxy(usable[i]), "document")])

\* The list the user made: what was pasted is stored as a profile, with a name in any
\* case, and what can be written out is read as the links of a subscription are.
Stored(servers) == At(servers, {i \in DOMAIN servers : IsExportable(Import(servers[i].link))})
WrittenOut(server) ==
    [server EXCEPT !.label = IF @ = <<>> THEN <<"Connection">> ELSE @,
                   !.link = Export(Import(@))]
ReadPasted(servers) ==
    LET stored == Stored(servers)
    IN  ReadLinks([i \in DOMAIN stored |-> WrittenOut(stored[i])])

ReadSourceText(source) ==
    CASE source.form = "links" -> ReadLinks(source.servers)
      [] source.form = "pasted" -> ReadPasted(source.servers)
      [] source.form = "document" -> ReadDocument(source.servers)
      [] source.form = "providers" -> <<>>
      [] source.form = "singbox" -> ReadSingBox(source.servers)
      [] source.form = "xray" -> ReadXray(source.servers)
      [] source.form = "warp" -> ReadWarp(source.servers)

-----------------------------------------------------------------------------
(* Merging every list (merge.go).                                            *)

Lower(key) == IF key = "SECRET" THEN "secret" ELSE key

IdentityIsAddress(node) == \* a mutant of IdentityOf: without the credential.
    <<node.type, node.host, "">>

\* Type, address and credential, in small letters; a WireGuard key is not looked at,
\* nor is the name that a proxy asks for when there is no password.
HasCredential(node) ==
    node.type # "wireguard" /\ ~(node.type \in {"socks5", "http"} /\ node.cred \in {"none", "plain", "blob", "user"})
IdentityOf(node) ==
    <<node.type, node.host, IF HasCredential(node) THEN Lower(node.key) ELSE "">>

\* What is taken gets the name of its source in front.
Qualify(name, source, names) ==
    LET own == IF name = <<>> THEN <<source>> ELSE name
    IN  IF Taken(names, own) THEN <<source, "dot">> \o own ELSE own

\* The first server of an identity is taken.
Merge(pool, source, node) ==
    LET id == IdentityOf(node)
        names == Register(pool.names, Qualify(node.name, source, pool.names))
    IN  IF id \in pool.ids THEN pool
        ELSE [ids |-> pool.ids \cup {id}, names |-> names,
              merged |-> Append(pool.merged, [node EXCEPT !.name = Last(names.given)])]

\* One source after the other, and the servers of each in their order.
MergeSource(pool, source) ==
    LET after[n \in 0..Len(source.nodes)] ==
            IF n = 0 THEN pool ELSE Merge(after[n - 1], source.name, source.nodes[n])
    IN  after[Len(source.nodes)]
MergeProxies(sources) ==
    LET after[n \in 0..Len(sources)] ==
            IF n = 0 THEN [ids |-> {}, names |-> NoNames, merged |-> <<>>]
            ELSE MergeSource(after[n - 1], sources[n])
    IN  after[Len(sources)].merged

-----------------------------------------------------------------------------
(* What the options change in a server.                                      *)

\* A copy each: what the subscription said is not edited.
ApplyAmneziaNoise(node) ==
    IF world.noise /\ node.type = "wireguard" THEN [node EXCEPT !.has = @ \cup {"noise"}] ELSE node

Fragmented == {"vless", "vmess", "trojan", "ss", "socks5", "http", "anytls"}
ApplyFragments(node) ==
    IF world.fragments /\ node.type \in Fragmented
    THEN [node EXCEPT !.has = @ \cup {"fragments"}
                                \cup IF node.type = "vless" /\ node.reality THEN {"utls"} ELSE {}]
    ELSE node

\* The name a server is asked for by, or its address.
ProxyHostname(node) ==
    IF "sni" \in node.has THEN "sni" ELSE IF node.header THEN "host" ELSE node.host

FrontableTransport(node) ==
    /\ node.type \in {"vless", "vmess", "trojan"}
    /\ node.tlsKey \/ node.net \in NamedTransport \cup {"grpc"}

Frontable(node) ==
    /\ ProxyHostname(node) \notin Literals
    /\ ~node.reality
    /\ FrontableTransport(node)

\* The name goes where the handshake looks for it, if there is a tls key, and into the
\* headers of the request, if the transport has options.
FrontProxy(node) ==
    IF ~Frontable(node) THEN node
    ELSE [node EXCEPT
             !.host = FrontAddress,
             !.has = @ \cup (IF node.tlsKey THEN {"sni"} ELSE {})
                       \cup (IF node.options THEN {"host"} ELSE {}),
             !.header = @ \/ node.options]

\* An address of the newer kind is no front.
FrontProxies(list) ==
    IF world.front = "v4" THEN [i \in DOMAIN list |-> FrontProxy(list[i])] ELSE list

-----------------------------------------------------------------------------
(* Groups, the second hop and the rules (config.go, chain.go, splittunnel.go,  *)
(* directroute.go).                                                          *)

\* Names are the engine's key: of two that share one the second is left out, and so
\* is a server without a name.
Unique(list) ==
    At(list, {i \in DOMAIN list :
                 list[i].name # <<>> /\ \A j \in 1..i-1 : list[j].name # list[i].name})
NamesOf(list) == [i \in DOMAIN list |-> list[i].name]
WithName(list, name) == CHOOSE node \in {list[i] : i \in DOMAIN list} : node.name = name

\* What is carried in datagrams, and what can carry them for another.
RequiresUDPDialer(node) ==
    \/ node.type \in {"wireguard", "hysteria", "hysteria2", "hy2", "tuic", "juicity", "shadowquic"}
    \/ node.net \in {"quic", "h3", "kcp", "mkcp"}
SupportsUDPDialing(node) ==
    node.udp \/ node.type \in {"hysteria", "hysteria2", "hy2", "tuic", "shadowquic", "openvpn"}

\* The names the first hop is chosen from.
FirstHops(list) ==
    LET names == NamesOf(list)
        narrowed == RequiresUDPDialer(WithName(list, world.chain))
    IN  IF world.chain = <<>> THEN names
        ELSE At(names, {i \in DOMAIN names :
                           /\ names[i] # world.chain
                           /\ narrowed => SupportsUDPDialing(WithName(list, names[i]))})

ExitHop(list) ==
    [WithName(list, world.chain) EXCEPT !.name = ChainExitName, !.via = <<SelectGroup>>]

\* A name that is blank, or holds a comma, is not used; case does not make another.
ProgramKey(name) == IF name = "Chrome" THEN "chrome" ELSE name
CleanProcessNames(names) ==
    At(names, {i \in DOMAIN names :
                  /\ names[i] \notin {"blank", "a,b"}
                  /\ \A j \in 1..i-1 : ProgramKey(names[j]) # ProgramKey(names[i])})

\* A scheme, a path and a port are taken off a domain, and it matches by its end; an
\* address without a length is one host.
CleanDirect(entries) == At(entries, {i \in DOMAIN entries : entries[i] # "blank"})
IsAddress(entry) == entry = "10.0.0.1"
Rule(kind, arg, target) == [kind |-> kind, arg |-> arg, target |-> target]
DirectRules(entries) ==
    LET clean == CleanDirect(entries)
        addresses == At(clean, {i \in DOMAIN clean : IsAddress(clean[i])})
        domains == At(clean, {i \in DOMAIN clean : ~IsAddress(clean[i])})
    IN  [i \in DOMAIN addresses |-> Rule("address", addresses[i], "DIRECT")]
            \o [i \in DOMAIN domains |-> Rule("domain", domains[i], "DIRECT")]

SplitRules(split, target) ==
    LET names == CleanProcessNames(split.programs)
        By(outcome) == [i \in DOMAIN names |-> Rule("program", names[i], outcome)]
    IN  IF names = <<>> \/ split.mode = "off" THEN <<>>
        ELSE IF split.mode = "bypass" THEN By("DIRECT")
        ELSE By(target) \o <<Rule("any", "", "DIRECT")>>
SplitCatches(split) == split.mode = "only" /\ CleanProcessNames(split.programs) # <<>>
SplitActive(split) == SplitRules(split, SelectGroup) # <<>>

CatchAllRules(split, target) ==
    IF SplitCatches(split) THEN <<>> ELSE <<Rule("any", "", target)>>

SplitFirst(target) == \* a mutant of Rules: the programs before the destinations.
    SplitRules(world.split, target) \o DirectRules(world.direct) \o CatchAllRules(world.split, target)

\* The first that fits is taken.
Rules(target) ==
    DirectRules(world.direct) \o SplitRules(world.split, target) \o CatchAllRules(world.split, target)

\* The servers preferred that may be used, in the order of the preference, each once.
Chosen(hops) ==
    LET wanted == world.prefer
    IN  IF wanted = <<>> THEN hops
        ELSE At(wanted, {i \in DOMAIN wanted : /\ Contains(hops, wanted[i])
                                               /\ \A j \in 1..i-1 : wanted[j] # wanted[i]})

\* Which program a connection belongs to is looked up when a rule asks for it.
Document(proxies, hops, rules, candidates) ==
    [proxies |-> proxies, group |-> hops, rules |-> rules,
     byProgram |-> SplitActive(world.split), candidates |-> candidates,
     dnsThrough |-> SelectGroup, lines |-> <<>>]

-----------------------------------------------------------------------------
(* A configuration with providers is passed through: its servers, groups and   *)
(* rules stand, and what the runtime owns is taken out.                        *)

LooksLikeMihomoDocument(source) == source.form = "providers"

TopLevelKey(line) == line \in {"owned", "kept", "groups"}
Indented(line) == line \in {"nested", "named", "ours"}

\* What is taken out goes on over blank and indented lines.
StripTopLevelKeys(lines) ==
    LET skipping[n \in 0..Len(lines)] ==
            n > 0 /\ \/ lines[n] = "owned"
                     \/ skipping[n - 1] /\ (lines[n] = "blank" \/ Indented(lines[n]))
    IN  At(lines, {n \in DOMAIN lines : ~skipping[n]})

\* The group names are resolved through: the program's own, or the first.
GroupOf(block) ==
    IF "ours" \in block THEN SelectGroup
    ELSE IF "named" \in block THEN "a group of its own" ELSE "nothing"

FirstName(lines) == GroupOf(ToSet(lines)) \* a mutant of: a name wherever it is in the text.
DetectProxyGroup(lines) ==
    LET start == SelectInSeq(lines, LAMBDA line : line = "groups")
        after == IF start = 0 THEN <<>> ELSE SubSeq(lines, start + 1, Len(lines))
        stop == SelectInSeq(after, LAMBDA line : line \in {"owned", "kept", "comment"})
        block == ToSet(IF stop = 0 THEN after ELSE SubSeq(after, 1, stop - 1))
    IN  GroupOf(block)

-----------------------------------------------------------------------------
Init ==
    /\ \E kind \in Worlds : world \in kind
    /\ stage = "reading"
    /\ lists = <<>>
    /\ nodes = <<>>
    /\ engine = NoDocument

\* subscriptionBodyFor and ParseSubscription, for the next source.
ReadSource ==
    /\ stage = "reading" /\ Len(lists) < Len(world.sources)
    /\ lists' = Append(lists, ReadSourceText(world.sources[Len(lists) + 1]))
    /\ UNCHANGED <<world, stage, nodes, engine>>

\* everySubscriptionBody: lists that hold nothing are passed over, the rest merged and
\* written as a document, which PrepareConfig reads again.
CombineEveryList ==
    /\ stage = "reading" /\ Len(lists) = Len(world.sources) /\ world.all
    /\ LET read == [i \in DOMAIN lists |-> [name |-> world.sources[i].name, nodes |-> lists[i]]]
           usable == At(read, {i \in DOMAIN lists : lists[i] # <<>>})
           pool == Renamed(MergeProxies(usable))
       IN  /\ nodes' = pool
           /\ stage' = IF pool = <<>> THEN "failed" ELSE "read"
    /\ UNCHANGED <<world, lists, engine>>

\* One source: what it holds, as it is.
TakeTheList ==
    /\ stage = "reading" /\ Len(lists) = Len(world.sources) /\ ~world.all
    /\ lists[1] # <<>> \/ ~LooksLikeMihomoDocument(world.sources[1])
    /\ nodes' = lists[1]
    /\ stage' = IF lists[1] = <<>> THEN "failed" ELSE "read"
    /\ UNCHANGED <<world, lists, engine>>

\* Nothing that the user chose is looked at but the fragments, which cannot be had.
PassThrough ==
    /\ stage = "reading" /\ Len(lists) = Len(world.sources) /\ ~world.all
    /\ lists[1] = <<>> /\ LooksLikeMihomoDocument(world.sources[1])
    /\ IF world.fragments THEN stage' = "failed" /\ UNCHANGED engine
       ELSE /\ stage' = "done"
            /\ engine' = [NoDocument EXCEPT !.lines = StripTopLevelKeys(world.lines),
                                            !.dnsThrough = DetectProxyGroup(world.lines),
                                            !.byProgram = SplitActive(world.split)]
    /\ UNCHANGED <<world, lists, nodes>>

\* Without the hidden, there must be one left; then noise, fragments, and fronting.
ShapeNodes ==
    /\ stage = "read"
    /\ LET kept == At(nodes, {i \in DOMAIN nodes : nodes[i].name \notin world.hidden})
           shaped == FrontProxies([i \in DOMAIN kept |->
                                      ApplyFragments(ApplyAmneziaNoise(kept[i]))])
       IN  /\ nodes' = shaped
           /\ stage' = IF kept = <<>> THEN "failed" ELSE "shaped"
    /\ UNCHANGED <<world, lists, engine>>

\* BuildProxiesYAMLWithRouting, then Prefer and Render.  A second hop must be there, and
\* a first one for it; and one of the servers preferred.
Render ==
    /\ stage = "shaped"
    /\ LET unique == Unique(nodes)
           chained == world.chain # <<>>
           found == ~chained \/ \E i \in DOMAIN unique : unique[i].name = world.chain
           hops == IF found THEN FirstHops(unique) ELSE <<>>
           candidates == Chosen(hops)
           target == IF chained THEN ChainExitName ELSE <<SelectGroup>>
       IN  IF ~found \/ hops = <<>> \/ candidates = <<>>
           THEN stage' = "failed" /\ UNCHANGED engine
           ELSE /\ stage' = "done"
                /\ engine' = Document(IF chained THEN Append(unique, ExitHop(unique)) ELSE unique,
                                      hops, Rules(target), candidates)
    /\ UNCHANGED <<world, lists, nodes>>

Next == ReadSource \/ CombineEveryList \/ TakeTheList \/ PassThrough \/ ShapeNodes \/ Render

Spec == Init /\ [][Next]_vars

-----------------------------------------------------------------------------
(* Types.                                                                    *)

\* What is kept of a server, under a name of those given.
Kinds == {"vless", "vmess", "trojan", "anytls", "socks5", "http", "ss", "hysteria2", "wireguard"}
            \cup DocumentOnly
NodeOf(given) ==
    [name : given, host : Texts, key : Texts, via : Names, tls : BOOLEAN, tlsKey : BOOLEAN,
     reality : BOOLEAN, options : BOOLEAN, header : BOOLEAN, udp : BOOLEAN,
     cred : Creds \cup {"spoiled", "user", "blob"}, type : Kinds, net : Nets,
     has : SUBSET (Options \cup {"noise", "fragments"})]
NodeType == NodeOf(Names)

TypeOK ==
    /\ stage \in {"reading", "read", "shaped", "done", "failed"}
    /\ Len(lists) <= Len(world.sources)
    /\ lists \in Seq(Seq(NodeType)) /\ nodes \in Seq(NodeType)
    /\ (stage = "done") = (engine # NoDocument)

-----------------------------------------------------------------------------
(* What is checked.                                                          *)

ServersOf(list) == {list[i] : i \in DOMAIN list}

\* The engine has a document that the program built.
Built == stage = "done" /\ engine.lines = <<>>

\* Names tell servers apart: whatever a provider calls them, and however many lists are
\* merged, no two that reach the engine's configuration share one (links.go, merge.go:
\* "Names are the engine's key for a proxy, so a duplicate silently replaces").  For
\* labels that are not numbered the way the registry numbers them, and sources that do
\* not share a name when each of them has a label twice.
NamesAreKeys ==
    stage \in {"read", "shaped", "done"} =>
        /\ \A i, j \in DOMAIN nodes : nodes[i].name = nodes[j].name => i = j
        /\ Built => ToSet(engine.group) \subseteq {p.name : p \in ServersOf(engine.proxies)}

\* All offers every server that a list of it has: one is taken for another only when they
\* have the same type, address and credential, the case of letters apart, or are
\* WireGuard peers at one address (merge.go, identityOf).
MergeKeepsEveryServer ==
    (world.all /\ stage = "read") =>
        \A i \in DOMAIN lists : \A server \in ServersOf(lists[i]) : \E kept \in ServersOf(nodes) :
            /\ kept.type = server.type /\ kept.host = server.host
            /\ \/ Lower(kept.key) = Lower(server.key) \/ server.type = "wireguard"
               \/ ~HasCredential(kept) /\ ~HasCredential(server)

\* What a server of a list was read from: each that its source has at that address, with
\* that secret and of that type.
ReadFrom(i, node) ==
    {server \in ServersOf(world.sources[i].servers) :
        /\ node.host = server.host /\ node.key = server.key
        /\ node.type = TypeOf(server.link.scheme)}

\* A server that asks for TLS or REALITY is spoken to in it, in whatever form it arrived
\* and whether it was subscribed to or stored and written out again.
EncryptionIsKept(given, node) ==
    /\ given.security = "tls" => node.tls
    /\ (given.security = "reality" /\ given.scheme # "vmess") => node.tls

\* A certificate is left unverified only when the server's description says so, and the
\* pin of an AnyTLS server is kept on every way to the engine (v2ray_export.go: "A pin
\* dropped here would be a connection that verified the first time it was imported and
\* stopped verifying afterwards"); so is the key of a REALITY server.
VerificationIsKept(given, node) ==
    /\ "insecure" \in node.has => "insecure" \in given.has
    /\ ("pin" \in given.has /\ given.scheme = "anytls") => "pin" \in node.has
    /\ ("pbk" \in given.has /\ given.scheme = "vless" /\ given.security = "reality")
           => "pbk" \in node.has

\* What storing a server loses of it, against the same link in a subscription.
Lost(type) ==
    CASE type \in {"vless", "trojan"} -> {"pin", "encryption"} [] type = "hysteria2" -> {"pin", "obfs", "ports"}
      [] type = "ss" -> {"plugin"} [] type = "socks5" -> {"no-udp"} [] OTHER -> {}

\* The credentials that both readers take for the same.  A plus is kept or spoiled alike,
\* but for Shadowsocks, which is written in base64; one that is escaped comes back as it
\* was for Shadowsocks alone.  Of a user and a password, for trojan and hysteria2, a
\* subscription's reader takes both and the other the user, so these pairs are not here.
CredentialsKept(scheme) ==
    {"plain"} \cup CASE scheme = "ss" -> {"escaped", "wrapped"} [] scheme = "anytls" -> {"plus", "pair"}
                     [] scheme \in {"socks", "http-proxy"} -> {"plus", "pair"} [] OTHER -> {"plus"}

\* A link connects to the same server whether it came in a subscription or was pasted:
\* with the same credential, over the same transport, and with all of its options but
\* those of Lost (v2ray_import.go: "Two importers disagreeing about which half is the
\* secret would mean the same link connecting from a subscription and failing when
\* pasted").  For the credentials of CredentialsKept, a transport other than tcp with
\* an http header, and a security that is not the older xtls.
PastedIsSubscribed(given, node) ==
    LET subscribed == ConvertLink(given)
    IN  ( /\ subscribed # NoProxy /\ given.net # "tcp-http" /\ given.security # "xtls"
          /\ given.cred \in CredentialsKept(given.scheme) )
        => /\ node.cred = subscribed.cred
           /\ node.has = subscribed.has \ Lost(subscribed.type)
           /\ node.net = subscribed.net /\ node.tls = subscribed.tls

\* A stored server that is shared is the same server where it is pasted.
SharedIsTheSame ==
    \A i \in DOMAIN lists : world.sources[i].form = "pasted" =>
        \A server \in ServersOf(Stored(world.sources[i].servers)) :
            Import(Export(Import(server.link))) = Import(server.link)

\* A server reached at a front is still asked for by its name (fronting.go: "The name has to
\* keep travelling, or the server has no idea which site is being asked for"): in the
\* handshake when its description says TLS, and in the request when its transport carries
\* one; and a server whose handshake holds its address, REALITY, is not moved.  The name
\* is lost, and not promised here, from the handshake of a trojan server whose description
\* has no tls key, and from the request of grpc and of a transport without options.
NameStillTravels ==
    stage \in {"shaped", "done"} =>
        \A node \in ServersOf(nodes) : node.host = FrontAddress =>
            /\ (node.tls /\ (node.type = "trojan" => node.tlsKey)) => "sni" \in node.has
            /\ node.options => node.header
            /\ ~node.reality

\* Connections, and what the user asked of each.
Destinations == {"bank.ir", "10.0.0.1", "elsewhere"}
Programs == {"chrome", "other"}
Target == IF world.chain = <<>> THEN <<SelectGroup>> ELSE ChainExitName
Intended(program, destination) ==
    LET named == \E i \in DOMAIN world.split.programs : ProgramKey(world.split.programs[i]) = program
        usable == \E i \in DOMAIN world.split.programs : world.split.programs[i] \notin {"blank", "a,b"}
    IN  IF \/ Contains(world.direct, destination)
           \/ world.split.mode = "bypass" /\ named
           \/ world.split.mode = "only" /\ usable /\ ~named
        THEN "DIRECT" ELSE Target

Fits(rule, program, destination) ==
    CASE rule.kind = "any" -> TRUE
      [] rule.kind = "program" -> engine.byProgram /\ ProgramKey(rule.arg) = program
      [] OTHER -> rule.arg = destination

\* Every connection goes where the settings say: the first rule that fits it sends the
\* user's own destinations direct, whichever program asks, and of the rest what the split
\* tunnel says, and there is always one that fits.
RoutesAsAsked ==
    Built =>
        \A program \in Programs : \A destination \in Destinations :
            \E i \in DOMAIN engine.rules :
                /\ Fits(engine.rules[i], program, destination)
                /\ \A j \in 1..i-1 : ~Fits(engine.rules[j], program, destination)
                /\ engine.rules[i].target = Intended(program, destination)

\* Traffic that is to leave by a second hop does: all that is tunnelled goes to it, it
\* dials through the group, and the group has only others, each able to carry what the
\* second hop speaks.
ChainCarries ==
    (Built /\ world.chain # <<>>) =>
        LET exit == WithName(engine.proxies, ChainExitName) IN
        /\ exit.via = <<SelectGroup>>
        /\ engine.group # <<>> /\ ~Contains(engine.group, world.chain)
        /\ RequiresUDPDialer(exit) =>
               \A name \in ToSet(engine.group) : SupportsUDPDialing(WithName(engine.proxies, name))

\* A hidden server is neither offered nor chosen, nor is one that the connection was not
\* allowed to use; and what is chosen from is in the group.
OnlyTheAllowed ==
    Built =>
        /\ \A p \in ServersOf(engine.proxies) : p.name \notin world.hidden
        /\ engine.candidates # <<>> /\ ToSet(engine.candidates) \subseteq ToSet(engine.group)
        /\ world.prefer # <<>> => ToSet(engine.candidates) \subseteq ToSet(world.prefer)

\* A configuration that is passed through keeps every line that is not the runtime's, and
\* of what the runtime owns nothing is left (config.go, overrideKeys: "leaving both would
\* let the engine take either one").  A line at the margin, a comment or an item of a
\* list, ends what is taken out, and the lines under it that belonged to the key stay.
RuntimeKeysAreOurs ==
    (stage = "done" /\ ~Built) =>
        LET lines == world.lines
            KeyOf(i) == {j \in 1..i : TopLevelKey(lines[j]) /\ \A k \in j+1..i : ~TopLevelKey(lines[k])}
            Mine(i) == \E j \in KeyOf(i) : lines[j] = "owned"
            Cut(i) == \E k \in 1..i : lines[k] \in {"item", "comment"} /\ KeyOf(k) = KeyOf(i)
        IN  engine.lines = At(lines, {i \in DOMAIN lines : ~Mine(i) \/ Cut(i)})

\* Names are resolved through a group that the engine has, never past the tunnel
\* (config.go: "Resolving through the proxy group rather than directly is what stops DNS
\* from revealing which names are being looked up").  Of a configuration that is passed
\* through: when it names a group and no comment stands at the margin among its groups.
NamesResolvedThroughAGroup ==
    stage = "done" =>
        IF Built THEN engine.dnsThrough = SelectGroup
        ELSE \A i \in DOMAIN world.lines : world.lines[i] = "groups" =>
                 LET Under(k) == \A j \in i+1..k : ~TopLevelKey(world.lines[j])
                     block == {world.lines[k] : k \in {k \in i+1..Len(world.lines) : Under(k)}}
                 IN  ("comment" \notin block /\ block \cap {"named", "ours"} # {}) =>
                         engine.dnsThrough = IF "ours" \in block THEN SelectGroup
                                             ELSE "a group of its own"

StoredServers(i) == ServersOf(Stored(world.sources[i].servers))
Reached(i, server) ==
    \E node \in ServersOf(lists[i]) : node.host = server.host /\ node.key = server.key

\* What the user pasted and the program keeps can be connected through, WireGuard apart
\* (links.go, of socks before it was read: "the app took a socks config, stored it, listed
\* it on the Servers page, and then dropped it on the way to the engine").  A password
\* without a user is no credential of a proxy.
StoredReachesEngine ==
    \A i \in DOMAIN lists : world.sources[i].form = "pasted" =>
        \A server \in StoredServers(i) :
            server.link.scheme = "wireguard-ini" \/ server.link.cred = "secret" \/ Reached(i, server)

\* The same of WireGuard (manual_nodes.go: "storing it would put a row on the page that
\* fails at connect").  False: it is written out as a configuration, not as a link.
StoredWireGuardReachesEngine ==
    \A i \in DOMAIN lists : world.sources[i].form = "pasted" =>
        \A server \in StoredServers(i) : server.link.scheme = "wireguard-ini" => Reached(i, server)

\* A list keeps each of its servers, under a name of its own.
ListsAreWhole == TypeOK /\ NamesAreKeys /\ MergeKeepsEveryServer

\* What protects a connection survives every form a server takes.
ProtectionIsKept ==
    /\ \A i \in DOMAIN lists : \A node \in ServersOf(lists[i]) : \E server \in ReadFrom(i, node) :
           EncryptionIsKept(server.link, node) /\ VerificationIsKept(server.link, node)
    /\ NameStillTravels

\* A server is one server, however it came and wherever it is kept.
OneServerEveryWay ==
    /\ \A i \in DOMAIN lists : world.sources[i].form = "pasted" =>
           \A node \in ServersOf(lists[i]) : \E server \in ReadFrom(i, node) :
               PastedIsSubscribed(server.link, node)
    /\ SharedIsTheSame /\ StoredReachesEngine

\* Traffic goes where the user sends it, through what the user allows.
TrafficGoesAsAsked == RoutesAsAsked /\ ChainCarries /\ OnlyTheAllowed

\* The runtime's own settings hold in every document.
RuntimeSettingsHold == RuntimeKeysAreOurs /\ NamesResolvedThroughAGroup
=============================================================================
