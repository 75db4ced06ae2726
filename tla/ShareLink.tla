------------------------------ MODULE ShareLink ------------------------------
(***************************************************************************)
(* The share links of a client of an inbound: as the panel makes them      *)
(* (web/assets/js/model/inbound.js), as the subscription server makes them *)
(* (sub/subService.go), and what the panel's outbound form reads from one  *)
(* (web/assets/js/model/outbound.js).                                      *)
(*                                                                         *)
(* An inbound is [protocol, network, security, flow], for one client.  The *)
(* options are the other fields of its form, which no step depends on.     *)
(*                                                                         *)
(* A link is [scheme, user, address, params]: params is a function from    *)
(* the keys in the query, or in the JSON object of VMess, to their values; *)
(* a key that is left out is not in its domain.  Ports, remarks, tokens    *)
(* and the coding are left out; shadowsocks inbounds are of the methods    *)
(* with more than one client.                                              *)
(***************************************************************************)
EXTENDS Naturals, Sequences

\* TLC's @@, as a definition that proofs can expand: the keys of f, and those of g that
\* f has not.
f ++ g == [k \in DOMAIN f \cup DOMAIN g |-> IF k \in DOMAIN f THEN f[k] ELSE g[k]]

NoParams == [k \in {} |-> k]

Only(key, value) == [k \in {key} |-> value]

\* A key that is written when there is a value.
Given(key, value) == IF value = "" THEN NoParams ELSE Only(key, value)

When(condition, params) == IF condition THEN params ELSE NoParams

\* stream.security, unless the external proxy overrides it.
Forced(ib, force) == IF force = "same" THEN ib.security ELSE force

\* The listen address, when it is a particular one, as "::0" is for the panel.
ServerAddress(o) == IF o.listen = "any" THEN "host" ELSE o.listen

-----------------------------------------------------------------------------
(* The panel's links.                                                      *)

\* The part that genVLESSLink, genSSLink and genTrojanLink have in common.  The two
\* encodings of the xhttp padding are one key.
PanelTransport(ib, o) ==
    CASE ib.network = "tcp" ->
             When(o.header = "http", [path |-> o.paths, host |-> o.host, headerType |-> "http"])
      [] ib.network \in {"ws", "httpupgrade"} -> [path |-> o.path, host |-> o.host]
      [] ib.network = "grpc" ->
             [serviceName |-> o.path, authority |-> o.host] ++ When(o.multi, [mode |-> "multi"])
      [] ib.network = "xhttp" ->
             [path |-> o.path, host |-> o.host, mode |-> o.mode, extra |-> o.padding]
      [] OTHER -> NoParams

PanelTls(o) ==
    [fp |-> o.fp, alpn |-> o.alpn] ++ Given("sni", o.sni) ++ Given("ech", o.ech)

PanelReality(o) ==
    [pbk |-> "key", fp |-> o.fp, sni |-> o.names[1], sid |-> o.ids[1]]
    ++ Given("spx", o.spx) ++ Given("pqv", o.pqv)

\* What goes with the security, the flow of VLESS among it.
PanelSecret(ib, o, force) ==
    LET security == Forced(ib, force)
        flow == When(ib.protocol = "vless" /\ ib.network = "tcp", Given("flow", ib.flow))
    IN  CASE security = "tls" ->
                    [security |-> "tls"] ++ When(ib.security = "tls", PanelTls(o) ++ flow)
          [] security = "reality" /\ ib.protocol # "shadowsocks" ->
                    [security |-> "reality"] ++ PanelReality(o) ++ flow
          [] OTHER -> When(ib.protocol # "shadowsocks", [security |-> "none"])

PanelParams(ib, o, force) ==
    [type |-> ib.network]
    ++ When(ib.protocol = "vless", [encryption |-> o.encryption])
    ++ PanelTransport(ib, o)
    ++ PanelSecret(ib, o, force)

VmessTransport(ib, o) ==
    CASE ib.network = "tcp" ->
             [type |-> o.header]
             ++ When(o.header = "http", [path |-> o.paths] ++ Given("host", o.host))
      [] ib.network \in {"ws", "httpupgrade"} -> [path |-> o.path, host |-> o.host]
      [] ib.network = "grpc" ->
             [path |-> o.path, authority |-> o.host] ++ When(o.multi, [type |-> "multi"])
      [] ib.network = "xhttp" ->
             [path |-> o.path, host |-> o.host, type |-> o.mode, x_padding_bytes |-> o.padding]
      [] OTHER -> NoParams

\* The TLS fields of an inbound without TLS have their defaults.
VmessSecret(ib, o, force) ==
    LET tls == Forced(ib, force)
    IN  CASE tls = "tls" /\ ib.security = "tls" ->
                    Given("sni", o.sni) ++ Given("fp", o.fp) ++ Given("alpn", o.alpn)
          [] tls = "tls" /\ ib.security # "tls" -> [fp |-> "chrome", alpn |-> "h2,http/1.1"]
          [] OTHER -> NoParams

\* genVmessLink.
PanelVmess(ib, o, force) ==
    [net |-> ib.network, tls |-> Forced(ib, force)] ++ VmessTransport(ib, o) ++ VmessSecret(ib, o, force)

\* genHysteriaLink.
PanelHysteria(o) ==
    [security |-> "tls"]
    ++ Given("fp", o.fp) ++ Given("alpn", o.alpn) ++ Given("ech", o.ech) ++ Given("sni", o.sni)
    ++ When(o.obfs # "", Only("obfs", "salamander") ++ Only("obfs-password", o.obfs))

\* The user part: an id, a password, or method and passwords of shadowsocks.
PanelUser(ib, o) ==
    IF ib.protocol = "shadowsocks"
    THEN <<o.method>> \o (IF o.method = "2022" THEN <<"server">> ELSE <<>>) \o <<"client">>
    ELSE <<"client">>

\* genAllLinks: a link for the inbound, or one for each external proxy.
Endpoints(o) ==
    IF o.proxies = {} THEN {[address |-> ServerAddress(o), force |-> "same"]} ELSE o.proxies

\* genLink.
PanelLink(ib, o, ep) ==
    [scheme |-> ib.protocol, user |-> PanelUser(ib, o), address |-> ep.address,
     params |-> CASE ib.protocol = "vmess" -> PanelVmess(ib, o, ep.force)
                  [] ib.protocol = "hysteria" -> PanelHysteria(o)
                  [] OTHER -> PanelParams(ib, o, ep.force)]

-----------------------------------------------------------------------------
(* The subscription's links.                                               *)

\* The part that genVlessLink, genTrojanLink and genShadowsocksLink have in common.
SubTransport(ib, o) ==
    CASE ib.network = "tcp" ->
             When(o.header = "http", [path |-> <<o.paths[1]>>, host |-> o.host, headerType |-> "http"])
      [] ib.network \in {"ws", "httpupgrade"} -> [path |-> o.path, host |-> o.host]
      [] ib.network = "grpc" ->
             [serviceName |-> o.path, authority |-> o.host] ++ When(o.multi, [mode |-> "multi"])
      [] ib.network = "xhttp" ->
             [path |-> o.path, host |-> o.host, mode |-> o.mode, extra |-> o.padding]
      [] OTHER -> NoParams

SubTls(o) == [fp |-> o.fp, sni |-> o.sni] ++ Given("alpn", o.alpn)

\* Of the server names and the short ids, one at random; and a random spiderX.
SubReality(o, name, id) ==
    [pbk |-> "key", sni |-> name, sid |-> id, spx |-> "random"]
    ++ Given("fp", o.fp) ++ Given("pqv", o.pqv)

SubSecret(ib, o, name, id) ==
    LET flow == When(ib.network = "tcp", Given("flow", ib.flow))
    IN  CASE ib.security = "tls" -> SubTls(o) ++ When(ib.protocol = "vless", flow)
          [] ib.security = "reality" /\ ib.protocol # "shadowsocks" -> SubReality(o, name, id) ++ flow
          [] OTHER -> NoParams

\* For an external proxy that forces no TLS, three keys are left out.
Stripped(params, force) ==
    [k \in DOMAIN params \ (IF force = "none" THEN {"alpn", "sni", "fp"} ELSE {}) |-> params[k]]

\* The generator of shadowsocks writes no security when there is neither TLS nor an external
\* proxy, which reads as none.
SubParams(ib, o, force, name, id) ==
    LET params == [type |-> ib.network]
                  ++ When(ib.protocol = "vless", [encryption |-> o.encryption])
                  ++ SubTransport(ib, o)
                  ++ SubSecret(ib, o, name, id)
    IN  [security |-> Forced(ib, force)] ++ Stripped(params, force)

SubVmessTransport(ib, o) ==
    CASE ib.network = "tcp" ->
             [type |-> o.header]
             ++ When(o.header = "http", [path |-> <<o.paths[1]>>, host |-> o.host])
      [] ib.network \in {"ws", "httpupgrade"} -> [path |-> o.path, host |-> o.host, type |-> "none"]
      [] ib.network = "grpc" ->
             [path |-> o.path, authority |-> o.host, type |-> IF o.multi THEN "multi" ELSE "none"]
      [] ib.network = "xhttp" ->
             [path |-> o.path, host |-> o.host, mode |-> o.mode, type |-> "none",
              x_padding_bytes |-> o.padding]
      [] OTHER -> [type |-> "", path |-> ""]

\* genVmessLink.
SubVmess(ib, o, force) ==
    [net |-> ib.network, tls |-> Forced(ib, force)]
    ++ Stripped(SubVmessTransport(ib, o) ++ When(ib.security = "tls", SubTls(o)), force)

\* Mutant: genHysteriaLink as it was, without the external proxies.
SubAddressOwn(ib, o, ep) == IF ib.protocol = "hysteria" THEN "host" ELSE ep.address

\* Without an external proxy genHysteriaLink takes the host of the request, and the others
\* do so for "::0" too.
SubAddress(ib, o, ep) ==
    IF o.proxies = {} /\ (ib.protocol = "hysteria" \/ o.listen = "::0") THEN "host" ELSE ep.address

\* genHysteriaLink.
SubHysteria(o) ==
    [security |-> "tls", sni |-> o.sni, fp |-> o.fp] ++ Given("alpn", o.alpn)
    ++ When(o.obfs # "", Only("obfs", "salamander") ++ Only("obfs-password", o.obfs))

NoLink == [scheme |-> "none"]

\* getLink.  There is no link for mKCP, except for VMess: the three other generators
\* read a header and a seed that the panel's settings no longer have, and panic.
SubLink(ib, o, ep, name, id) ==
    IF ib.network = "kcp" /\ ib.protocol # "vmess"
    THEN NoLink
    ELSE [scheme |-> ib.protocol, user |-> PanelUser(ib, o), address |-> SubAddress(ib, o, ep),
          params |-> CASE ib.protocol = "vmess" -> SubVmess(ib, o, ep.force)
                       [] ib.protocol = "hysteria" -> SubHysteria(o)
                       [] OTHER -> SubParams(ib, o, ep.force, name, id)]

-----------------------------------------------------------------------------
(* The outbound that the panel reads from a link.                          *)

Param(link, key, default) == IF key \in DOMAIN link.params THEN link.params[key] ELSE default

\* The settings of a transport; the headers of tcp are those of http.
Tcp(type, path, host) == [type |-> type, request |-> IF type = "http" THEN <<path, host>> ELSE <<>>]

Xhttp(path, host, mode, padding) ==
    [path |-> path, host |-> host, mode |-> IF mode = "" THEN "auto" ELSE mode, padding |-> padding]

Reality(p) ==
    [pbk |-> p.pbk, fp |-> p.fp, sni |-> p.sni, sid |-> p.sid, spx |-> p.spx, pqv |-> p.pqv]

\* Mutant: the mode goes to another argument of the constructor, as it once did.
ModeMisplaced(link) == ""

\* The mode of xhttp, as both kinds of links are read.
ModeOf(link) == Param(link, "mode", "")

\* fromVmessLink.
ImportVmess(link) ==
    LET P(key) == Param(link, key, "")
        network == P("net")
    IN  [protocol |-> "vmess", user |-> link.user, address |-> link.address,
         network |-> network, security |-> P("tls"), flow |-> "", encryption |-> "",
         transport |->
             CASE network = "tcp" -> Tcp(P("type"), P("path"), P("host"))
               [] network \in {"ws", "httpupgrade"} -> [path |-> P("path"), host |-> P("host")]
               [] network = "grpc" ->
                      [path |-> P("path"), host |-> P("authority"), multi |-> P("type") = "multi"]
               [] network = "xhttp" -> Xhttp(P("path"), P("host"), ModeOf(link), "default")
               [] OTHER -> NoParams,
         secret |->
             IF P("tls") = "tls"
             THEN [sni |-> P("sni"), alpn |-> P("alpn"), fp |-> P("fp"), ech |-> ""]
             ELSE NoParams]

\* fromParamLink.
ImportParams(link) ==
    LET P(key, default) == Param(link, key, default)
        network == P("type", "tcp")
        security == P("security", "none")
    IN  [protocol |-> link.scheme, user |-> link.user, address |-> link.address,
         network |-> network, security |-> security,
         flow |-> IF link.scheme = "vless" THEN P("flow", "") ELSE "",
         encryption |-> IF link.scheme = "vless" THEN P("encryption", "none") ELSE "",
         transport |->
             CASE network = "tcp" -> Tcp(P("headerType", "none"), P("path", ""), P("host", ""))
               [] network \in {"ws", "httpupgrade"} -> [path |-> P("path", ""), host |-> P("host", "")]
               [] network = "grpc" ->
                      [path |-> P("serviceName", ""), host |-> P("authority", ""),
                       multi |-> P("mode", "") = "multi"]
               [] network = "xhttp" ->
                      Xhttp(P("path", ""), P("host", ""), ModeOf(link), P("extra", "default"))
               [] OTHER -> NoParams,
         secret |->
             CASE security = "tls" ->
                      [sni |-> P("sni", ""), alpn |-> P("alpn", ""), fp |-> P("fp", "none"),
                       ech |-> P("ech", "")]
               [] security = "reality" ->
                      Reality([k \in {"pbk", "fp", "sni", "sid", "spx", "pqv"} |-> P(k, "")])
               [] OTHER -> NoParams]

\* fromHysteriaLink takes the password and the address, and nothing of TLS.
ImportHysteria(link) ==
    [protocol |-> "hysteria", user |-> link.user, address |-> link.address,
     network |-> "hysteria", security |-> "none", flow |-> "", encryption |-> "",
     transport |-> NoParams, secret |-> NoParams]

\* Outbound.fromLink.
Import(link) ==
    CASE link.scheme = "vmess" -> ImportVmess(link)
      [] link.scheme = "hysteria" -> ImportHysteria(link)
      [] OTHER -> ImportParams(link)

\* Outbound.toJson, which is what the form shows and saves: xHTTPStreamSettings writes
\* no padding.
Written(outbound) ==
    IF outbound.network = "xhttp"
    THEN [outbound EXCEPT !.transport.padding = "default"]
    ELSE outbound

-----------------------------------------------------------------------------
(* What the links are for.                                                 *)

WantedTransport(ib, o) ==
    CASE ib.network = "tcp" -> Tcp(o.header, o.paths, o.host)
      [] ib.network \in {"ws", "httpupgrade"} -> [path |-> o.path, host |-> o.host]
      [] ib.network = "grpc" -> [path |-> o.path, host |-> o.host, multi |-> o.multi]
      [] ib.network = "xhttp" -> Xhttp(o.path, o.host, o.mode, o.padding)
      [] OTHER -> NoParams

WantedSecret(ib, o) ==
    CASE ib.security = "tls" -> [sni |-> o.sni, alpn |-> o.alpn, fp |-> o.fp, ech |-> o.ech]
      [] ib.security = "reality" ->
             [pbk |-> "key", fp |-> o.fp, sni |-> o.names[1], sid |-> o.ids[1],
              spx |-> o.spx, pqv |-> o.pqv]
      [] OTHER -> NoParams

\* Where an inbound is reached.
Reached(o) == IF o.listen \in {"any", "::0"} THEN "host" ELSE o.listen

\* The outbound that connects to an inbound.
Wanted(ib, o) ==
    [protocol |-> ib.protocol, user |-> PanelUser(ib, o), address |-> Reached(o),
     network |-> ib.network, security |-> ib.security,
     flow |-> IF ib.protocol = "vless" /\ ib.network = "tcp" /\ ib.security # "none" THEN ib.flow ELSE "",
     encryption |-> IF ib.protocol = "vless" THEN o.encryption ELSE "",
     transport |-> WantedTransport(ib, o), secret |-> WantedSecret(ib, o)]

\* Where the panel cannot read its own link: hysteria's TLS, a padding for xhttp, and of
\* VMess the mode of xhttp, which its links call type, and ECH; or where the link leads
\* nowhere, to "::0".
Unreadable(ib, o) ==
    \/ ib.protocol = "hysteria"
    \/ o.listen = "::0"
    \/ ib.network = "xhttp" /\ o.padding # "default"
    \/ ib.protocol = "vmess" /\ ib.network = "xhttp" /\ o.mode # "auto"
    \/ ib.protocol = "vmess" /\ ib.security = "tls" /\ o.ech # ""

\* The link of an inbound is one for that inbound.
ReadBack(ib, o) ==
    o.proxies = {} =>
        \A ep \in Endpoints(o) : Written(Import(PanelLink(ib, o, ep))) = Wanted(ib, o)

\* Where the subscription differs from the panel: there is no link (mKCP), no ECH, only
\* the first path of tcp's http header, no mode in the panel's VMess link; and external
\* proxies without TLS, where it keeps the flow, or with TLS, where it keeps the fields of
\* Reality and the panel's VMess link has the default fields of TLS.  An inbound that listens
\* on "::0" has that address in the panel's links and the host's in the subscription's.
Different(ib, o, ep) ==
    \/ ib.network = "kcp" /\ ib.protocol # "vmess"
    \/ o.ech # "" /\ ib.protocol # "vmess" /\ ib.security = "tls"
    \/ ib.network = "tcp" /\ o.header = "http" /\ Len(o.paths) > 1
    \/ ib.protocol = "vmess" /\ ib.network = "xhttp" /\ o.mode # "auto"
    \/ ep.force = "none" /\ ib.flow # ""
    \/ ep.force = "tls" /\ ib.security = "reality"
    \/ ep.force = "tls" /\ ib.security = "none" /\ ib.protocol = "vmess"
    \/ ib.protocol = "hysteria" /\ o.listen # "any" /\ o.proxies = {}
    \/ o.listen = "::0" /\ o.proxies = {}

SameParams(a, b) ==
    \A key \in DOMAIN a.params \cup DOMAIN b.params : Param(a, key, "") = Param(b, key, "")

\* Two links are for the same outbound.  What hysteria links say of TLS, the form does
\* not read.  A spiderX is the client's own choice.
SameLink(a, b) ==
    IF a.scheme = "hysteria"
    THEN a.user = b.user /\ a.address = b.address /\ SameParams(a, b)
    ELSE LET outbound(link) ==
                 [Import(link) EXCEPT !.secret = [k \in DOMAIN @ \ {"spx"} |-> @[k]]]
         IN  outbound(a) = outbound(b)

\* For each endpoint, the subscription has a link for the same outbound.
SameAsPanel(ib, o, ep) ==
    LET panel == PanelLink(ib, o, ep)
        picks == {SubLink(ib, o, ep, name, id) : name \in {o.names[i] : i \in DOMAIN o.names},
                                                id \in {o.ids[i] : i \in DOMAIN o.ids}}
    IN  \E link \in picks : link # NoLink /\ SameLink(panel, link)
=============================================================================
