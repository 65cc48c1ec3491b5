------------------------------ MODULE ShareLinks ------------------------------
(***************************************************************************)
(* The forms a server arrives in and the readers of each: the share links of  *)
(* a subscription (internal/mihomoconf/links.go), a sing-box or an Xray       *)
(* configuration (singbox.go, xrayjson.go), and a link that the user pastes,  *)
(* which is stored as a profile (internal/profiles/v2ray_import.go), written   *)
(* out as a link again (v2ray_export.go) and only then read for the engine.   *)
(*                                                                          *)
(* Text is abstracted to what it carries.  A server is its scheme, the shape  *)
(* of its credential, its security, its transport, and the set of options it  *)
(* has; a reader is the set of options it looks at.                          *)
(***************************************************************************)
EXTENDS Naturals, Sequences, FiniteSets

(* A server as a provider describes it, or a link that the program writes:    *)
(*   scheme, cred, security, net, has                                        *)
(* cred is "none", "plain", "pair" (user and password), "secret" (a password  *)
(* without a user), "plus" (it holds a plus sign), "escaped" (the same with   *)
(* the plus percent-encoded) or "wrapped" (a base64 text that holds one for   *)
(* Shadowsocks, and the whole pair for SOCKS and HTTP).                      *)
(* security is "unsaid" or what the description says of it.  net is the link's type; "tcp-http" is tcp with the header type http.       *)
(*                                                                          *)
(* A proxy is what the engine is told: type, cred, tls, net, has.             *)

NoProxy == [type |-> "none", cred |-> "none", tls |-> FALSE, net |-> "tcp", has |-> {}]

\* decodeComponent reads a plus as a space.
Decoded(cred) ==
    CASE cred = "plus" -> "spoiled" [] cred = "escaped" -> "plus" [] OTHER -> cred

-----------------------------------------------------------------------------
(* Transport options (links.go).                                             *)

WsReads == {"path", "host", "early"}
HttpReads == {"path", "host"}
H2Reads == {"path", "host"}
XhttpReads == {"path", "host", "extra"}

TransportReads(net) ==
    CASE net = "http" -> HttpReads [] net = "h2" -> H2Reads
      [] net \in {"ws", "httpupgrade"} -> WsReads
      [] net = "grpc" -> {"service"} [] net = "xhttp" -> XhttpReads [] OTHER -> {}

\* What a link calls http is h2, and tcp with a header of that type is http.
LinkNetwork(net) ==
    CASE net = "tcp-http" -> "http" [] net = "http" -> "h2" [] OTHER -> net

-----------------------------------------------------------------------------
(* The readers of a subscription's links.                                    *)

\* An early-data size that is no number is an error, found when the name has been given.
FailsLate(s) ==
    /\ s.scheme \in {"vless", "vmess-aead"} /\ s.cred # "none"
    /\ s.net \in {"ws", "httpupgrade"} /\ "bad-early" \in s.has

\* vless, and vmess in its newer form.
ParseVShare(s) ==
    LET net == LinkNetwork(s.net)
        tls == s.security \in {"tls", "xtls", "reality"}
    IN  IF s.cred = "none" \/ FailsLate(s) THEN NoProxy
        ELSE [type |-> "vless", cred |-> Decoded(s.cred), tls |-> tls, net |-> net,
              has |-> s.has \cap ({"sni", "pbk", "packet"} \cup TransportReads(net)
                                   \cup IF tls THEN {"utls", "alpn", "pin"} ELSE {})]

ParseVless(s) ==
    LET p == ParseVShare(s)
    IN  IF p = NoProxy THEN p
        ELSE [p EXCEPT !.has = @ \cup (s.has \cap {"flow", "encryption"})]

ParseVmessAead(s) ==
    LET p == ParseVShare(s) IN IF p = NoProxy THEN p ELSE [p EXCEPT !.type = "vmess"]

\* Early data is in the path here.
ParseVmess(s) ==
    LET net == LinkNetwork(s.net)
        tls == s.security \in {"tls", "xtls"}
    IN  IF s.cred = "none" THEN NoProxy
        ELSE [type |-> "vmess", cred |-> s.cred, tls |-> tls, net |-> net,
              has |-> s.has \cap ({"sni"} \cup (IF tls THEN {"alpn"} ELSE {})
                         \cup IF net = "xhttp" THEN {} ELSE TransportReads(net))]

\* Trojan is always encrypted.  Of a WebSocket it reads the path alone.
ParseTrojan(s) ==
    IF s.cred = "none" THEN NoProxy
    ELSE [type |-> "trojan", cred |-> Decoded(s.cred), tls |-> TRUE,
          net |-> IF s.net = "tcp-http" THEN "tcp" ELSE s.net,
          has |-> s.has \cap ({"insecure", "sni", "alpn", "utls", "pin"}
                     \cup CASE s.net = "ws" -> {"path"} [] s.net = "grpc" -> {"service"}
                            [] OTHER -> {})]

\* The password is the half after the colon, or the whole.
AnyTlsWhole(cred) == Decoded(cred) \* a mutant: the whole, whatever it holds.
AnyTlsPassword(cred) == IF cred = "pair" THEN "plain" ELSE Decoded(cred)
ParseAnyTls(s) ==
    IF s.cred = "none" THEN NoProxy
    ELSE [type |-> "anytls", cred |-> AnyTlsPassword(s.cred), tls |-> TRUE, net |-> "tcp",
          has |-> s.has \cap {"insecure", "sni", "alpn", "pin", "utls"}]

\* A pair, a pair in base64, a name alone, or none; never a password alone.  A
\* plus stays one.
SocksCredentials(cred) ==
    CASE cred = "wrapped" -> "pair" [] cred \in {"plus", "escaped"} -> "plus" [] OTHER -> cred
ParseSocks(s) ==
    IF s.cred = "secret" THEN NoProxy
    ELSE [type |-> "socks5", cred |-> SocksCredentials(s.cred), tls |-> FALSE, net |-> "tcp",
          has |-> s.has \cap {"no-udp"}]
ParseHTTPProxy(s) ==
    IF s.cred = "secret" THEN NoProxy
    ELSE [type |-> "http", cred |-> SocksCredentials(s.cred), tls |-> s.security = "tls",
          net |-> "tcp", has |-> s.has \cap {"insecure", "sni"}]

ParseHysteria2(s) ==
    IF s.cred = "none" THEN NoProxy
    ELSE [type |-> "hysteria2", cred |-> Decoded(s.cred), tls |-> TRUE, net |-> "tcp",
          has |-> s.has \cap {"insecure", "sni", "alpn", "obfs", "ports", "pin"}]

\* The key is decoded twice.
ParseWireGuard(s) ==
    IF s.cred = "none" THEN NoProxy
    ELSE [type |-> "wireguard", cred |-> Decoded(Decoded(s.cred)), tls |-> FALSE, net |-> "tcp",
          has |-> s.has \cap {"psk", "reserved"}]

ParseShadowsocks(s) ==
    IF s.cred = "none" THEN NoProxy
    ELSE [type |-> "ss", cred |-> IF s.cred = "wrapped" THEN "plus" ELSE Decoded(s.cred),
          tls |-> FALSE, net |-> "tcp", has |-> s.has \cap {"plugin", "uot"}]

Supported == {"vless", "vmess", "vmess-aead", "trojan", "anytls", "socks", "http-proxy", "ss",
              "hysteria2", "wireguard"}

\* One line of ConvertLinksWithReport.  A text without a scheme is not a link.
ConvertLink(s) ==
    CASE s.scheme = "vless" -> ParseVless(s) [] s.scheme = "vmess" -> ParseVmess(s)
      [] s.scheme = "vmess-aead" -> ParseVmessAead(s) [] s.scheme = "trojan" -> ParseTrojan(s)
      [] s.scheme = "anytls" -> ParseAnyTls(s) [] s.scheme = "socks" -> ParseSocks(s)
      [] s.scheme = "http-proxy" -> ParseHTTPProxy(s) [] s.scheme = "ss" -> ParseShadowsocks(s)
      [] s.scheme = "hysteria2" -> ParseHysteria2(s)
      [] s.scheme = "wireguard" -> ParseWireGuard(s) [] OTHER -> NoProxy

-----------------------------------------------------------------------------
(* sing-box and Xray configurations.  Their texts are JSON: what a credential *)
(* holds arrives as it is.                                                   *)

Verbatim(cred) == IF cred \in {"escaped", "wrapped"} THEN "plus" ELSE cred

SingBoxTLS(s) ==
    IF s.security \notin {"tls", "reality"} THEN {} ELSE {"sni", "insecure", "alpn", "utls"}
        \cup IF s.security = "reality" THEN {"pbk"} ELSE {}
SingBoxTransport(net) ==
    CASE net = "ws" -> {"path", "host", "early"} [] net = "grpc" -> {"service"}
      [] net \in {"http", "httpupgrade"} -> {"path", "host"} [] OTHER -> {}
SingBoxProxy(s) ==
    LET type == IF s.scheme = "vmess-aead" THEN "vmess" ELSE s.scheme
        net == IF s.net \in {"ws", "grpc", "http", "httpupgrade"} THEN s.net ELSE "tcp"
    IN  IF type \notin {"vless", "vmess", "trojan", "ss", "hysteria2"} THEN NoProxy
        ELSE [type |-> type, cred |-> Verbatim(s.cred), tls |-> s.security \in {"tls", "reality"}, net |-> net,
              has |-> s.has \cap (SingBoxTLS(s) \cup SingBoxTransport(net)
                         \cup IF type = "vless" THEN {"flow"} ELSE {})]

XrayTLS(s) ==
    IF s.security \notin {"tls", "reality"} THEN {} ELSE {"sni", "insecure", "alpn", "utls"}
        \cup IF s.security = "reality" THEN {"pbk"} ELSE {}
XrayNetwork(net) ==
    CASE net \in {"ws", "grpc", "httpupgrade", "xhttp"} -> net
      [] net \in {"http", "h2"} -> "h2" [] OTHER -> "tcp"
XrayTransport(net) ==
    CASE net \in {"ws", "httpupgrade", "h2"} -> {"path", "host"} [] net = "grpc" -> {"service"}
      [] net = "xhttp" -> XhttpReads [] OTHER -> {}
\* Both keys and an address of its own are needed.
XrayWireGuard(s) ==
    IF s.cred = "none" THEN NoProxy
    ELSE [type |-> "wireguard", cred |-> Verbatim(s.cred), tls |-> FALSE, net |-> "tcp",
          has |-> s.has \cap {"psk", "reserved"}]
XrayProxy(s) ==
    LET type == IF s.scheme = "vmess-aead" THEN "vmess" ELSE s.scheme
        net == XrayNetwork(s.net)
    IN  CASE type = "wireguard" -> XrayWireGuard(s)
          [] type \in {"vless", "vmess", "trojan", "ss"} ->
                [type |-> type, cred |-> Verbatim(s.cred), tls |-> s.security \in {"tls", "reality"},
                 net |-> net,
                 has |-> s.has \cap (XrayTLS(s) \cup XrayTransport(net)
                            \cup IF type = "vless" THEN {"flow"} ELSE {})]
          [] OTHER -> NoProxy

-----------------------------------------------------------------------------
(* What the user pastes.  It is kept as a profile:                            *)
(*   protocol, cred, tls, reality, net, has                                  *)
(* whose texts are decoded once, by a reader to which a plus is a plus.  "user" *)
(* is the first half of a pair, "blob" a base64 text taken for a name.        *)

NoProfile ==
    [protocol |-> "none", cred |-> "none", tls |-> FALSE, reality |-> FALSE, net |-> "tcp",
     has |-> {}]

Kept(cred) == IF cred = "escaped" THEN "plus" ELSE cred
FirstHalf(cred) ==
    CASE cred = "pair" -> "user" [] cred = "secret" -> "none" [] OTHER -> Kept(cred)

\* One name for each transport; what is not known is tcp.
NormalNetwork(net) ==
    CASE net \in {"http", "h2"} -> "http"
      [] net \in {"ws", "grpc", "httpupgrade", "xhttp", "kcp", "quic"} -> net [] OTHER -> "tcp"
NormalizeV2RayProfile(p) ==
    [p EXCEPT !.net = NormalNetwork(@),
              !.tls = @ \/ p.reality \/ p.protocol = "hysteria2"]

QueryReads == {"packet", "sni", "alpn", "insecure", "utls", "ech", "pbk", "path", "host",
               "service", "extra", "early"}

\* vless and trojan: the security counts when it is tls or reality to the letter.
ApplyV2RayQuery(p, s) ==
    [p EXCEPT !.tls = IF s.security = "unsaid" THEN @ ELSE s.security \in {"tls", "reality"},
              !.reality = s.security = "reality",
              !.net = s.net, !.has = @ \cup (s.has \cap QueryReads)]

Profile(protocol, cred, tls, net, has) ==
    [protocol |-> protocol, cred |-> cred, tls |-> tls, reality |-> FALSE, net |-> net, has |-> has]

ImportVless(s) ==
    IF FirstHalf(s.cred) = "none" THEN NoProfile
    ELSE ApplyV2RayQuery(Profile("vless", FirstHalf(s.cred), FALSE, "tcp", s.has \cap {"flow"}), s)
\* Encrypted unless the link says otherwise.
ImportTrojan(s) ==
    IF FirstHalf(s.cred) = "none" THEN NoProfile
    ELSE ApplyV2RayQuery(Profile("trojan", FirstHalf(s.cred), TRUE, "tcp", {}), s)

\* The older form alone.
ImportVmess(s) ==
    IF s.cred = "none" THEN NoProfile
    ELSE Profile("vmess", s.cred, s.security = "tls", s.net,
                 s.has \cap ({"packet", "sni", "alpn", "insecure", "utls", "ech", "host", "extra"}
                                \cup IF s.net = "grpc" THEN {"service"} ELSE {"path", "early"}))

ImportShadowsocks(s) ==
    IF s.cred \in {"none", "secret"} THEN NoProfile
    ELSE Profile("ss", IF s.cred = "wrapped" THEN "plus" ELSE Kept(s.cred), FALSE, "tcp",
                 s.has \cap {"uot"})
ImportHysteria(s) ==
    IF FirstHalf(s.cred) = "none" THEN NoProfile
    ELSE Profile("hysteria2", FirstHalf(s.cred), FALSE, "tcp",
                 s.has \cap {"sni", "alpn", "insecure"})
ImportAnyTls(s) ==
    IF s.cred = "none" THEN NoProfile
    ELSE Profile("anytls", IF s.cred \in {"pair", "secret"} THEN "plain" ELSE Kept(s.cred), TRUE,
                 "tcp", s.has \cap {"sni", "alpn", "insecure", "pin", "utls"})
\* Neither needs a credential.
Proxied(cred) == IF cred = "wrapped" THEN "blob" ELSE Kept(cred)
ImportSocks(s) == Profile("socks", Proxied(s.cred), FALSE, "tcp", {})
ImportHTTPProxy(s) ==
    Profile("http", Proxied(s.cred), s.security = "tls", "tcp",
            s.has \cap {"headers", "sni", "insecure"})

\* An [Interface] and its [Peer]; both keys and an endpoint are needed.
ImportWireGuard(s) ==
    IF s.cred = "none" THEN NoProfile
    ELSE Profile("wireguard", Kept(s.cred), FALSE, "tcp", s.has \cap {"psk"})

\* A link to WireGuard is not among those the pattern finds.
ImportLink(s) ==
    CASE s.scheme = "vless" -> ImportVless(s) [] s.scheme = "vmess" -> ImportVmess(s)
      [] s.scheme = "trojan" -> ImportTrojan(s) [] s.scheme = "ss" -> ImportShadowsocks(s)
      [] s.scheme = "hysteria2" -> ImportHysteria(s) [] s.scheme = "anytls" -> ImportAnyTls(s)
      [] s.scheme = "socks" -> ImportSocks(s) [] s.scheme = "http-proxy" -> ImportHTTPProxy(s)
      [] s.scheme = "wireguard-ini" -> ImportWireGuard(s) [] OTHER -> NoProfile
Import(s) == NormalizeV2RayProfile(ImportLink(s))

-----------------------------------------------------------------------------
(* What the program writes of a profile (v2ray_export.go): to share it, and to  *)
(* hand its own list to the same reader as any subscription.                 *)

IsExportable(p) == p.protocol # "none" /\ (p.protocol \in {"socks", "http"} \/ p.cred # "none")

Link(scheme, cred, security, net, has) ==
    [scheme |-> scheme, cred |-> cred, security |-> security, net |-> net, has |-> has]

URLSecurity(p) == IF p.reality THEN "reality" ELSE IF p.tls THEN "tls" ELSE "none"
ExportURL(p) ==
    Link(p.protocol, p.cred, URLSecurity(p), p.net,
         p.has \cap (QueryReads \cup IF p.protocol = "vless" THEN {"flow"} ELSE {}))

\* The path and the service name share a field.
ExportVmess(p) ==
    Link("vmess", p.cred, IF p.tls THEN "tls" ELSE "none",
         IF p.net = "http" THEN "h2" ELSE p.net,
         p.has \cap ({"packet", "sni", "alpn", "insecure", "utls", "ech", "host", "extra"}
                        \cup IF p.net = "grpc" THEN {"service"} ELSE {"path", "early"}))

\* In base64, whatever it holds.
ExportShadowsocks(p) ==
    Link("ss", IF p.cred = "plus" THEN "wrapped" ELSE p.cred, "none", "tcp", p.has \cap {"uot"})
ExportHysteria(p) ==
    Link("hysteria2", p.cred, "tls", "tcp", p.has \cap {"sni", "alpn", "insecure"})
ExportAnyTlsNoPin(p) == \* a mutant: without the certificate it was pinned to.
    Link("anytls", p.cred, "tls", "tcp", p.has \cap {"sni", "alpn", "insecure", "utls"})
ExportAnyTls(p) ==
    Link("anytls", p.cred, "tls", "tcp", p.has \cap {"sni", "alpn", "insecure", "pin", "utls"})
ExportUserPass(p) ==
    IF p.protocol = "socks" THEN Link("socks", p.cred, "none", "tcp", {})
    ELSE Link("http-proxy", p.cred, IF p.tls THEN "tls" ELSE "none", "tcp",
              p.has \cap {"sni", "insecure", "headers"})
ExportWireGuard(p) == Link("wireguard-ini", p.cred, "none", "tcp", p.has \cap {"psk"})

Export(p) ==
    CASE p.protocol = "vmess" -> ExportVmess(p) [] p.protocol = "ss" -> ExportShadowsocks(p)
      [] p.protocol = "hysteria2" -> ExportHysteria(p) [] p.protocol = "anytls" -> ExportAnyTls(p)
      [] p.protocol = "wireguard" -> ExportWireGuard(p)
      [] p.protocol \in {"socks", "http"} -> ExportUserPass(p) [] OTHER -> ExportURL(p)
=============================================================================
