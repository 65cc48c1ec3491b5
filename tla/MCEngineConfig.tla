---------------------------- MODULE MCEngineConfig ----------------------------
(* The worlds that EngineConfig is checked in: one server of every kind, in every *)
(* form it can arrive in; and several lists of a few servers under every choice   *)
(* of routing.                                                                 *)
EXTENDS EngineConfig

CONSTANT Stale   \* BOOLEAN: worlds with a hidden hop and pasted WireGuard configurations

AllTexts == STRING

\* None, each by itself, and all that go together.
OptionSets(scheme) ==
    {{}, OptionsOf(scheme) \ {"bad-early"}} \cup {{o} : o \in OptionsOf(scheme)}

Links ==
    UNION {[scheme : {k}, cred : CredsOf(k) \ {"none"}, security : SecuritiesOf(k), net : NetsOf(k),
            has : OptionSets(k)]
              \cup {[scheme |-> k, cred |-> "none", security |-> "none", net |-> "tcp", has |-> {}]}
              : k \in Supported \cup {"wireguard-ini", "tuic", "juicity"}}

Server(label, host, key, link) ==
    [label |-> label, host |-> host, key |-> key, via |-> <<>>, link |-> link]

OffSplit == [mode |-> "off", programs |-> <<>>]
Plain(sources) ==
    [sources |-> sources, all |-> FALSE, hidden |-> {}, prefer |-> <<>>, chain |-> <<>>,
     front |-> "none", noise |-> FALSE, fragments |-> FALSE, direct |-> <<>>, split |-> OffSplit,
     lines |-> <<>>]

JSONLinks == {k \in Links : k.cred # "pair" /\ IsSaid(k, "document")}
Addressed(host, form, link, front) ==
    [Plain(<<[name |-> "one", form |-> form, servers |-> <<Server(<<"A">>, host, "key", link)>>]>>)
        EXCEPT !.front = front, !.noise = front # "none", !.fragments = front # "none"]
Alone(form, link, front) == Addressed("a.example", form, link, front)
Subscribed == {Alone(form, link, "none") : form \in {"links", "pasted"}, link \in Links}
Described == {Alone(form, link, "none") : form \in {"singbox", "xray", "document"}, link \in JSONLinks}
FewOptions == {k \in Links : Cardinality(k.has) <= 1}
Fronted ==
    {Alone("links", link, front) : front \in {"v4", "v6"}, link \in FewOptions}
        \cup {Alone("pasted", link, "v4") : link \in FewOptions}
        \cup {Alone(form, link, "v4") : form \in {"document", "singbox", "xray"}, link \in JSONLinks}
        \cup {Addressed("10.0.0.1", form, link, "v4") :
                  form \in {"links", "singbox", "xray", "document"}, link \in {k \in FewOptions : IsSaid(k, "document")}}

\* A few servers, for lists of several.
Vless == [scheme |-> "vless", cred |-> "plain", security |-> "reality", net |-> "tcp", has |-> {"pbk", "sni"}]
SilentVless == [Vless EXCEPT !.has = @ \cup {"no-udp"}]
Socks == [scheme |-> "socks", cred |-> "pair", security |-> "none", net |-> "tcp", has |-> {}]
SocksTCP == [scheme |-> "socks", cred |-> "plain", security |-> "none", net |-> "tcp", has |-> {"no-udp"}]
Hysteria == [scheme |-> "hysteria2", cred |-> "plain", security |-> "none", net |-> "tcp", has |-> {}]
HTTPProxy == [scheme |-> "http-proxy", cred |-> "pair", security |-> "none", net |-> "tcp", has |-> {}]
Datagrams == [scheme |-> "vless", cred |-> "plain", security |-> "none", net |-> "kcp", has |-> {}]
Tuic == [scheme |-> "tuic", cred |-> "plain", security |-> "none", net |-> "tcp", has |-> {"no-udp"}]
Juicity == [Tuic EXCEPT !.scheme = "juicity"]
Peer == [scheme |-> "wireguard", cred |-> "plain", security |-> "none", net |-> "tcp", has |-> {}]
Few == {Server(label, "s.example", key, Vless) : label \in {<<>>, <<"A">>, <<"B">>}, key \in {"secret", "SECRET"}}
        \cup {Server(<<"A">>, "t.example", "other", link) : link \in {Vless, Hysteria, Peer}}
        \cup {Server(<<"A">>, "t.example", "own", SocksTCP), Server(<<"B">>, "t.example", "other", Socks)}
SmallLists == {<<a>> : a \in Few} \cup {<<a, b>> : a \in Few, b \in Few}

\* All, over two lists and over three of which two have one name.
Merged ==
    {[Plain(<<[name |-> "one", form |-> "links", servers |-> a],
              [name |-> "two", form |-> form, servers |-> b]>>) EXCEPT !.all = TRUE] :
         a \in SmallLists, b \in SmallLists, form \in {"links", "pasted"}}
MergedThree ==
    {[Plain(<<[name |-> "one", form |-> "links", servers |-> <<a, b>>],
                   [name |-> "two", form |-> "links", servers |-> <<a, b>>],
                   [name |-> "two", form |-> "singbox", servers |-> <<c>>]>>) EXCEPT !.all = TRUE] :
             a \in Few, b \in Few, c \in Few}

\* One list of three, and every choice that is made for it.
Three(link) ==
    <<[name |-> "one", form |-> "links",
       servers |-> <<Server(<<"A">>, "s.example", "secret", Vless), Server(<<"A">>, "t.example", "other", link),
                     Server(<<"B">>, "u.example", "third", SocksTCP)>>]>>
FewNames == {<<"A">>, <<"A", "-", "1">>, <<"B">>}
ProgramLists == {<<>>, <<"blank">>, <<"chrome">>, <<"Chrome", "chrome">>, <<"a,b", "chrome">>, <<"a,b">>}
Routed ==
    {[Plain(Three(link)) EXCEPT !.hidden = hidden, !.chain = chain, !.prefer = prefer] :
         link \in {Vless, Hysteria, Peer, Socks}, hidden \in SUBSET FewNames,
         chain \in FewNames \cup {<<>>, <<"gone">>},
         prefer \in {<<>>, <<<<"B">>>>, <<<<"gone">>, <<"A">>, <<"A">>>>}}

\* The second hop over each first one, of a document that does not say that any carries
\* datagrams, and of links.
Hopped ==
    {[Plain(<<[name |-> "one", form |-> form,
               servers |-> <<Server(<<"A">>, "s.example", "secret", exit), Server(<<"B">>, "t.example", "other", a),
                             Server(<<"C">>, "u.example", "third", b)>>]>>) EXCEPT !.chain = <<"A">>] :
         form \in {"document", "links"}, exit \in {Tuic, Juicity, Peer, Hysteria, Datagrams, Vless},
         a \in {SilentVless, Tuic, Juicity, Socks}, b \in {HTTPProxy, Vless, SocksTCP, Hysteria, Datagrams}}
Split ==
    {[Plain(Three(Vless)) EXCEPT !.direct = direct, !.split = split, !.chain = chain] :
             direct \in {<<>>, <<"blank">>, <<"bank.ir">>, <<"10.0.0.1", "bank.ir">>},
             split \in [mode : {"off", "bypass", "only"}, programs : ProgramLists],
             chain \in {<<>>, <<"B">>}}

\* The hops of a WARP configuration: the second through the first, the third through one
\* that is not there; or with one tag for two of them and none for one.
Hop(label, host, via) ==
    [Server(label, host, "key", Peer) EXCEPT !.via = via]
Warp(hidden, hops) ==
    [Plain(<<[name |-> "warp", form |-> "warp", servers |-> hops]>>) EXCEPT !.hidden = hidden]
WarpHops ==
    {<<Hop(first, "a.example", <<>>), Hop(<<"B">>, "b.example", <<"A">>), Hop(third, "c.example", via)>> :
         first \in {<<"A">>, <<>>}, third \in {<<"A">>, <<"C">>, <<>>}, via \in {<<>>, <<"B">>, <<"gone">>}}
Warps == {Warp(hidden, hops) : hops \in WarpHops, hidden \in IF Stale THEN SUBSET FewNames ELSE {{}, {<<"B">>}}}

\* Configurations with providers, of up to LineBound lines, which begin with a key and
\* name one list of groups.
LineBound == 5
Lines == {"owned", "kept", "groups", "nested", "named", "ours", "item", "comment", "blank"}
LinesOf(n) == {t \in [1..n -> Lines] :
    /\ t[1] \in {"owned", "kept", "groups"} /\ \E i \in 1..n : t[i] \in {"kept", "groups"}
    /\ \A i, j \in 1..n : t[i] = "groups" /\ t[j] = "groups" => i = j}
Provided ==
    {[Plain(<<[name |-> "one", form |-> "providers", servers |-> <<>>]>>)
        EXCEPT !.lines = t] :
            t \in UNION {LinesOf(n) : n \in 1..LineBound}}
        \cup {[Plain(<<[name |-> "one", form |-> "providers", servers |-> <<>>]>>)
                EXCEPT !.lines = <<"groups", "named">>, !.fragments = TRUE]}

AllWorlds == {Subscribed, Described, Fronted, Merged, MergedThree, Routed, Hopped, Split, Warps, Provided}
StoredAlone == {Subscribed}
=============================================================================
